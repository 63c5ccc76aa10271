------------------------ MODULE RecordingLifecycleProofs ------------------------
(***************************************************************************)
(* Proofs about RecordingLifecycle, for every set of recordings, streams   *)
(* and automatic conversions and every number of commands, slots, crashes  *)
(* and lost writes.                                                        *)
(*                                                                         *)
(* First what a step of the queue does to the rows of commands and to the  *)
(* handlers (the facts of MediaJobsProofs, about another use of            *)
(* CommandQueue, whose theorems the prover does not carry over an INSTANCE *)
(* with a substitution); then the invariant.                               *)
(***************************************************************************)
EXTENDS RecordingLifecycle, FiniteSetTheorems, SequenceTheorems, TLAPS

Ids == DOMAIN commands

\* A live handler has a claimed row, and nothing but the poll loop holds another one,
\* a conversion's.  The worker that is stopping was told to.
QueueOwns ==
    /\ \A i \in handlers : commands[i].status = "claimed"
    /\ requeue # 0 => /\ commands[requeue].status = "claimed" /\ requeue \notin handlers
                      /\ commands[requeue].kind = "generate_mp4" /\ worker = "polling"
    /\ worker \in {"down", "recovering"} => handlers = {}
    /\ worker = "stopping" => stops # 0

QueueOK == Queue!TypeOK /\ QueueOwns

\* Rows keep what they ask for; "Ended" says which of them are finished.
Kept ==
    /\ Ids' = Ids
    /\ \A k \in Ids : /\ commands'[k].kind = commands[k].kind
                      /\ commands'[k].target = commands[k].target

Open(status) == status \in {"pending", "claimed"}

OpenKept(but) ==
    \A k \in Ids \ but : /\ Open(commands'[k].status) <=> Open(commands[k].status)
                         /\ commands'[k].status = "done" <=> commands[k].status = "done"

\* No row but a conversion's is put back.
NoneComes ==
    \A k \in Ids : commands'[k].status = "pending" =>
        commands[k].status = "pending" \/ commands[k].kind = "generate_mp4"

LEMMA OneRow ==
    ASSUME Queue!TypeOK, NEW i \in Ids, NEW s \in Queue!Statuses, Queue!SetStatus(i, s)
    PROVE  /\ commands' \in Seq(Queue!Command) /\ Len(commands') = Len(commands)
           /\ Kept
           /\ \A k \in Ids :
                 commands'[k].status = IF k = i THEN s ELSE commands[k].status
<1> DEFINE made == [commands[i] EXCEPT !.status = s]
<1>1. /\ commands \in Seq(Queue!Command) /\ commands[i] \in Queue!Command
      /\ i \in DOMAIN commands
  BY DEF Queue!TypeOK, Ids
<1>2. /\ made \in Queue!Command /\ made.status = s
      /\ made.kind = commands[i].kind /\ made.target = commands[i].target
  BY <1>1 DEF Queue!Command
<1>3. commands' = [commands EXCEPT ![i] = made]
  BY DEF Queue!SetStatus
<1> HIDE DEF made
<1>4. /\ commands' \in Seq(Queue!Command) /\ Len(commands') = Len(commands)
      /\ DOMAIN commands' = DOMAIN commands
  BY <1>1, <1>2, <1>3
<1>5. \A k \in DOMAIN commands : commands'[k] = IF k = i THEN made ELSE commands[k]
  BY <1>1, <1>3
<1> QED
  BY <1>2, <1>4, <1>5 DEF Kept, Ids

LEMMA ResetRows ==
    ASSUME Queue!TypeOK, commands' = Queue!ResetStaleWork(commands)
    PROVE  /\ commands' \in Seq(Queue!Command) /\ Len(commands') = Len(commands)
           /\ Kept /\ OpenKept({})
           /\ \A k \in Ids : commands[k].status = "pending" => commands'[k].status = "pending"
<1> DEFINE made(j) == [commands[j] EXCEPT !.status = IF @ = "claimed" THEN "pending" ELSE @]
<1>1. /\ commands \in Seq(Queue!Command) /\ DOMAIN commands = 1..Len(commands)
      /\ Len(commands) \in Nat /\ \A j \in DOMAIN commands : commands[j] \in Queue!Command
  BY DEF Queue!TypeOK
<1>2. \A j \in DOMAIN commands :
         /\ made(j) \in Queue!Command
         /\ made(j).kind = commands[j].kind /\ made(j).target = commands[j].target
         /\ made(j).status = IF commands[j].status = "claimed" THEN "pending"
                                                              ELSE commands[j].status
  BY <1>1 DEF Queue!Command, Queue!Statuses
<1>3. commands' = [j \in 1..Len(commands) |-> made(j)]
  BY <1>1 DEF Queue!ResetStaleWork
<1> HIDE DEF made
<1>4. /\ commands' \in Seq(Queue!Command) /\ Len(commands') = Len(commands)
      /\ DOMAIN commands' = DOMAIN commands
      /\ \A j \in DOMAIN commands : commands'[j] = made(j)
  BY <1>1, <1>2, <1>3
<1> QED
  BY <1>2, <1>4 DEF Kept, OpenKept, Open, Ids

\* The web process inserts a row.
LEMMA QueueGrows ==
    ASSUME QueueOK, NEW kind \in Queue!Kinds, NEW t \in Recordings,
           Queue!Enqueue(kind, t)
    PROVE  /\ QueueOK' /\ UNCHANGED <<handlers, faults, worker, stops>>
           /\ \E n : /\ n \notin Ids /\ Ids' = Ids \cup {n}
                     /\ commands'[n].kind = kind /\ commands'[n].target = t
                     /\ commands'[n].status = "pending"
                     /\ \A k \in Ids : commands'[k] = commands[k]
<1> USE DEF QueueOK
<1> DEFINE made == [kind |-> kind, target |-> t, status |-> "pending"]
<1>1. made \in Queue!Command
  BY DEF Queue!Command, Queue!Statuses
<1>2. /\ commands' = Append(commands, made)
      /\ commands' \in Seq(Queue!Command)
      /\ Len(commands') = Len(commands) + 1
      /\ Len(commands) \in Nat
      /\ \A j \in Ids : commands'[j] = commands[j]
      /\ commands'[Len(commands) + 1] = made
      /\ Len(commands) + 1 \notin Ids
      /\ Ids' = Ids \cup {Len(commands) + 1}
  BY <1>1 DEF Queue!Enqueue, Queue!NewRow, Queue!TypeOK, Ids
<1>3. Queue!TypeOK'
  BY <1>2, BoundsAssumption DEF Queue!Enqueue, Queue!TypeOK, Queue!Ids, Ids
<1>4. QueueOwns' /\ UNCHANGED <<handlers, faults, worker, stops>>
  <2>1. /\ handlers' = handlers /\ requeue' = requeue /\ worker' = worker /\ stops' = stops
        /\ faults' = faults /\ handlers \subseteq Ids /\ requeue \in Ids \cup {0}
    BY DEF Queue!Enqueue, Queue!TypeOK, Queue!Ids, Ids
  <2>2. \A j \in Ids : /\ commands'[j].status = commands[j].status
                       /\ commands'[j].kind = commands[j].kind
    BY <1>2
  <2> QED
    BY <2>1, <2>2 DEF QueueOwns
<1>5. PICK n : n = Len(commands) + 1
  OBVIOUS
<1>6. /\ n \notin Ids /\ Ids' = Ids \cup {n} /\ \A j \in Ids : commands'[j] = commands[j]
      /\ commands'[n] = made
  BY <1>2, <1>5, Zenon
<1>7. commands'[n].kind = kind /\ commands'[n].target = t /\ commands'[n].status = "pending"
  BY <1>6
<1> QED
  BY <1>3, <1>4, <1>6, <1>7

\* The poll loop claims a row, with a handler or without one.
LEMMA QueueClaims ==
    ASSUME QueueOK, NEW i \in Ids,
           Queue!Dispatch(i) \/ Queue!ClaimWithoutSlot(i) \/ Queue!ClaimUncertain(i)
    PROVE  /\ QueueOK' /\ Kept /\ OpenKept({}) /\ NoneComes
           /\ faults' # 0 \/ faults' = faults
           /\ worker = "polling" /\ UNCHANGED <<worker, stops>>
           /\ commands[i].status = "pending" /\ commands'[i].status = "claimed"
           /\ Queue!Dispatch(i) => handlers' = handlers \cup {i} /\ i \notin handlers
           /\ Queue!ClaimWithoutSlot(i) \/ Queue!ClaimUncertain(i) => handlers' = handlers
<1> USE DEF QueueOK
<1>1. /\ i \notin handlers /\ Queue!SetStatus(i, "claimed") /\ "claimed" \in Queue!Statuses
      /\ commands[i].status = "pending" /\ i # 0
  BY DEF Queue!Dispatch, Queue!ClaimWithoutSlot, Queue!ClaimUncertain, Queue!IsNext,
         QueueOwns, Queue!Statuses, Queue!Status, Queue!TypeOK, Ids
<1>2. /\ commands' \in Seq(Queue!Command) /\ Len(commands') = Len(commands) /\ Kept
      /\ \A k \in Ids : commands'[k].status = IF k = i THEN "claimed" ELSE commands[k].status
  BY <1>1, OneRow
<1>3. Queue!TypeOK'
  BY <1>2, BoundsAssumption
  DEF Queue!TypeOK, Queue!Dispatch, Queue!ClaimWithoutSlot, Queue!ClaimUncertain, Kept,
      Queue!Ids, Ids
<1>4. QueueOwns'
  <2>1. /\ worker' = "polling" /\ requeue = 0 /\ handlers \subseteq Ids
        /\ \/ handlers' = handlers \cup {i} /\ requeue' = 0
           \/ /\ handlers' = handlers
              /\ requeue' = 0 \/ (requeue' = i /\ commands[i].kind = "generate_mp4")
    BY DEF Queue!TypeOK, Queue!Dispatch, Queue!ClaimWithoutSlot, Queue!ClaimUncertain,
           Queue!NeedsSlot, Queue!Ids, Ids
  <2> QED
    BY <1>1, <1>2, <2>1 DEF QueueOwns, Kept
<1>5. OpenKept({}) /\ NoneComes
  BY <1>1, <1>2 DEF OpenKept, NoneComes, Open
<1>6. /\ faults' # 0 \/ faults' = faults
      /\ worker = "polling" /\ UNCHANGED <<worker, stops>>
      /\ Queue!Dispatch(i) => handlers' = handlers \cup {i} /\ i \notin handlers
      /\ Queue!ClaimWithoutSlot(i) \/ Queue!ClaimUncertain(i) => handlers' = handlers
  BY <1>1
  DEF Queue!TypeOK, Queue!Dispatch, Queue!ClaimWithoutSlot, Queue!ClaimUncertain
<1> QED
  BY <1>1, <1>2, <1>3, <1>4, <1>5, <1>6

\* It puts a row back.
LEMMA QueueRequeues ==
    ASSUME QueueOK, Queue!Requeue \/ Queue!RequeueLost
    PROVE  /\ QueueOK' /\ Kept /\ OpenKept({}) /\ NoneComes /\ UNCHANGED handlers
           /\ faults' # 0 \/ faults' = faults
           /\ worker = "polling" /\ UNCHANGED <<worker, stops>>
<1> USE DEF QueueOK
<1>1. CASE Queue!Requeue
  <2>1. /\ requeue \in Ids /\ Queue!SetStatus(requeue, "pending")
        /\ "pending" \in Queue!Statuses /\ commands[requeue].status = "claimed"
        /\ requeue \notin handlers /\ commands[requeue].kind = "generate_mp4"
        /\ worker = "polling"
    BY <1>1 DEF Queue!Requeue, Queue!TypeOK, Queue!Statuses, QueueOwns, Queue!Ids, Ids
  <2>2. /\ commands' \in Seq(Queue!Command) /\ Len(commands') = Len(commands) /\ Kept
        /\ \A k \in Ids :
              commands'[k].status = IF k = requeue THEN "pending" ELSE commands[k].status
    BY <2>1, OneRow
  <2>3. Queue!TypeOK' /\ QueueOwns'
    BY <1>1, <2>1, <2>2 DEF Queue!Requeue, Queue!TypeOK, QueueOwns, Kept, Queue!Ids, Ids
  <2>4. OpenKept({}) /\ NoneComes
    BY <2>1, <2>2 DEF OpenKept, NoneComes, Open
  <2> QED
    BY <1>1, <2>1, <2>2, <2>3, <2>4 DEF Queue!Requeue
<1>2. CASE Queue!RequeueLost
  <2>1. Queue!TypeOK' /\ QueueOwns'
    BY <1>2, BoundsAssumption DEF Queue!RequeueLost, Queue!TypeOK, QueueOwns, Queue!Ids
  <2> QED
    BY <1>2, <2>1
    DEF Queue!RequeueLost, Queue!TypeOK, QueueOwns, Kept, OpenKept, NoneComes, Ids
<1> QED
  BY <1>1, <1>2

\* A handler returns; its row ends, or a write of the worker was lost.
LEMMA QueueCompletes ==
    ASSUME QueueOK, NEW i \in Ids,
           \/ \E o \in {"done", "failed"} : Queue!HandlerReturns(i, o)
           \/ Queue!CompletionLost(i)
    PROVE  /\ QueueOK' /\ Kept /\ i \in handlers /\ handlers' = handlers \ {i}
           /\ OpenKept({i}) /\ NoneComes /\ (faults' = faults \/ faults' # 0)
           /\ UNCHANGED <<worker, stops>>
           /\ commands'[i].status = "done" => Queue!HandlerReturns(i, "done")
<1> USE DEF QueueOK
<1>1. CASE \E o \in {"done", "failed"} : Queue!HandlerReturns(i, o)
  <2>1. PICK o \in {"done", "failed"} : Queue!HandlerReturns(i, o)
    BY <1>1
  <2>2. i \in handlers /\ Queue!SetStatus(i, o) /\ o \in Queue!Statuses
    BY <2>1 DEF Queue!HandlerReturns, Queue!Statuses
  <2>3. /\ commands' \in Seq(Queue!Command) /\ Len(commands') = Len(commands) /\ Kept
        /\ \A k \in Ids : commands'[k].status = IF k = i THEN o ELSE commands[k].status
    BY <2>2, OneRow
  <2>4. Queue!TypeOK' /\ QueueOwns'
    BY <2>1, <2>2, <2>3
    DEF Queue!HandlerReturns, Queue!ReleaseSlot, Queue!TypeOK, QueueOwns, Kept, Queue!Ids,
        Ids
  <2>5. /\ OpenKept({i}) /\ NoneComes /\ handlers' = handlers \ {i}
        /\ UNCHANGED <<faults, worker, stops>>
    BY <2>1, <2>3 DEF OpenKept, NoneComes, Queue!HandlerReturns
  <2>6. commands'[i].status = o
    BY <2>3 DEF Queue!TypeOK, Queue!HandlerReturns
  <2> QED
    BY <2>1, <2>2, <2>3, <2>4, <2>5, <2>6
<1>2. CASE Queue!CompletionLost(i)
  <2>1. Queue!TypeOK' /\ QueueOwns'
    BY <1>2, BoundsAssumption
    DEF Queue!CompletionLost, Queue!ReleaseSlot, Queue!TypeOK, QueueOwns, Queue!Ids, Ids
  <2> QED
    BY <1>2, <2>1
    DEF Queue!CompletionLost, Queue!TypeOK, QueueOwns, Kept, OpenKept, NoneComes, Ids
<1> QED
  BY <1>1, <1>2

LEMMA QueueGoesOn ==
    ASSUME QueueOK,
           \/ \E l \in Queue!Limits : Queue!SettingsTick(l)
           \/ Queue!Shutdown \/ Queue!RecoveryDone
    PROVE  /\ QueueOK' /\ Kept /\ OpenKept({}) /\ NoneComes /\ UNCHANGED <<faults, handlers>>
           /\ Queue!RecoveryDone => worker = "recovering"
           /\ \/ worker = "polling" /\ worker' = "stopping" /\ stops' # 0
              \/ worker = "recovering" /\ worker' = "polling" /\ stops' = stops
              \/ UNCHANGED <<worker, stops>>
<1> USE DEF QueueOK
<1>1. QueueOK' /\ Kept /\ OpenKept({}) /\ NoneComes /\ UNCHANGED <<faults, handlers>>
  <2>1. Queue!TypeOK'
    BY BoundsAssumption
    DEF Queue!SettingsTick, Queue!Shutdown, Queue!RecoveryDone, Queue!TypeOK, Queue!Ids
  <2>2. /\ UNCHANGED <<commands, handlers, faults>> /\ requeue' \in {0, requeue}
        /\ worker' \in {"polling", "stopping"} /\ (worker' = "stopping" => stops' # 0)
        /\ worker' = "stopping" => requeue' = 0
        /\ worker = "polling" \/ worker = "recovering"
    BY BoundsAssumption
    DEF Queue!SettingsTick, Queue!Shutdown, Queue!RecoveryDone, Queue!TypeOK, QueueOwns
  <2>3. QueueOwns'
    BY <2>2 DEF QueueOwns
  <2> QED
    BY <2>1, <2>2, <2>3 DEF Kept, OpenKept, NoneComes, Ids
<1>2. /\ Queue!RecoveryDone => worker = "recovering"
      /\ \/ worker = "polling" /\ worker' = "stopping" /\ stops' # 0
         \/ worker = "recovering" /\ worker' = "polling" /\ stops' = stops
         \/ UNCHANGED <<worker, stops>>
  BY BoundsAssumption
  DEF Queue!SettingsTick, Queue!Shutdown, Queue!RecoveryDone, Queue!TypeOK
<1> QED
  BY <1>1, <1>2

\* The process ends, and is started again.
LEMMA QueueDies ==
    ASSUME QueueOK, Queue!Crash \/ Queue!Exit
    PROVE  /\ QueueOK' /\ Kept /\ OpenKept({}) /\ NoneComes /\ faults' = faults
           /\ handlers' = {} /\ worker' = "down" /\ stops' # 0
<1> USE DEF QueueOK
<1>1. Queue!TypeOK'
  BY BoundsAssumption
  DEF Queue!Exit, Queue!Crash, Queue!ProcessGone, Queue!TypeOK, Queue!Ids
<1>2. /\ handlers' = {} /\ worker' = "down" /\ stops' # 0 /\ requeue' = 0
      /\ UNCHANGED <<commands, faults>>
  BY BoundsAssumption
  DEF Queue!Exit, Queue!Crash, Queue!ProcessGone, Queue!TypeOK, QueueOwns
<1> QED
  BY <1>1, <1>2 DEF QueueOwns, Kept, OpenKept, NoneComes, Ids

LEMMA QueueStarts ==
    ASSUME QueueOK, NEW l \in Queue!Limits, Queue!Restart(l)
    PROVE  /\ QueueOK' /\ Kept /\ OpenKept({}) /\ UNCHANGED <<faults, stops>>
           /\ \A k \in Ids : commands[k].status = "pending" => commands'[k].status = "pending"
           /\ handlers = {} /\ handlers' = {} /\ worker = "down" /\ worker' = "recovering"
<1> USE DEF QueueOK
<1>1. /\ commands' = Queue!ResetStaleWork(commands) /\ handlers = {} /\ handlers' = {}
      /\ requeue = 0 /\ requeue' = 0 /\ UNCHANGED <<faults, stops>>
      /\ worker = "down" /\ worker' = "recovering"
  BY DEF Queue!Restart, QueueOwns
<1>2. /\ commands' \in Seq(Queue!Command) /\ Len(commands') = Len(commands)
      /\ Kept /\ OpenKept({})
      /\ \A k \in Ids : commands[k].status = "pending" => commands'[k].status = "pending"
  BY <1>1, ResetRows
<1>3. Queue!TypeOK'
  BY <1>1, <1>2 DEF Queue!Restart, Queue!TypeOK, Queue!Ids
<1> QED
  BY <1>1, <1>2, <1>3 DEF QueueOwns

-----------------------------------------------------------------------------

Starts(i) == commands[i].kind = "start_recording"
Target(i) == commands[i].target
Busy(r)   == rec[r] \in Active
Files     == {"none", "part", "old", "final"}

\* A start that is yet to register its process.
Coming(i) == \/ commands[i].status = "pending"
             \/ i \in handlers /\ hpc[i] \in {"begin", "register", "refuse"}

\* Goroutines live while the worker polls or stops, and recovery has the recordings
\* to itself.
Memory ==
    /\ worker \in {"down", "recovering"} => \A r \in Recordings : proc[r] = "none"
    /\ \A r \in Recordings : fin[r] # "none" => proc[r] = "ending" \/ worker = "recovering"
    /\ worker = "down" => ~scanned
    /\ todo # {} => worker = "recovering"

\* Each recording has one start, inserted together with its row.
OneStart ==
    /\ \A i \in Ids : Starts(i) => rec[Target(i)] # "none"
    /\ \A i, k \in Ids : Starts(i) /\ Starts(k) /\ Target(i) = Target(k) => i = k

\* Until a start is through no process is registered, and between its check and its
\* registration the row still waits.
StartFirst ==
    \A i \in Ids : Starts(i) =>
        /\ Coming(i) => proc[Target(i)] = "none"
        /\ i \in handlers /\ hpc[i] = "register" => rec[Target(i)] = "waiting_input"

\* A goroutine has a row that its FFmpeg may still record for.
Running ==
    \A r \in Recordings :
        /\ proc[r] = "run" => rec[r] \in {"waiting_input", "recording"}
        /\ proc[r] # "none" \/ fin[r] # "none" => rec[r] # "none"

\* The partial unique index on active recordings.
OneStream ==
    \A r, s \in Recordings : Busy(r) /\ Busy(s) /\ StreamOf[r] = StreamOf[s] => r = s

\* Where finalizeRecording is tells what it has stored; until it closes the row, the
\* row is active.
Before == {"closing", "probing", "renaming", "saving", "marking", "failing"}

Ending ==
    \A r \in Recordings :
        /\ fin[r] \in Before => Busy(r)
        /\ r \in todo /\ fin[r] = "none" => Busy(r)
        /\ fin[r] = "saving" => disk[r] = "final"
        /\ fin[r] = "marking" => HasTs(r)

\* A worker that has never polled has nothing but pending rows, and no start of a
\* worker that never went down comes late.
FirstBoot ==
    stops = 0 =>
        /\ \A i \in Ids : Starts(i) /\ Coming(i) => rec[Target(i)] # "ready"
        /\ worker \in {"down", "recovering"} =>
              /\ path = {} /\ \A i \in Ids : commands[i].status = "pending"
              /\ \A r \in Recordings : fin[r] \in {"none", "failing", "end"}

\* What "ready" and a queued conversion have behind them.
StoredFirst ==
    /\ \A r \in Recordings : rec[r] = "ready" => HasTs(r)
    /\ \A i \in Ids : commands[i].kind = "generate_mp4" =>
          /\ HasTs(Target(i))
          /\ rec[Target(i)] = "ready" \/ (rec[Target(i)] = "failed" /\ stops # 0)

\* Who will end an active row.
Ender(r) ==
    \/ worker \in {"down", "stopping"}
    \/ worker = "recovering" /\ (~scanned \/ r \in todo)
    \/ proc[r] # "none"
    \/ \E i \in Ids : Starts(i) /\ Target(i) = r /\ Open(commands[i].status)

Owned ==
    NothingLost =>
        /\ \A r \in Recordings : Busy(r) => Ender(r)
        /\ \A r \in Recordings : fin[r] \in {"queueing", "end"} => ~Busy(r)
        /\ \A i \in handlers : Starts(i) =>
              /\ hpc[i] = "ok" => proc[Target(i)] # "none" \/ ~Busy(Target(i))
              /\ hpc[i] = "error" => ~Busy(Target(i))

Rest == /\ Memory /\ OneStart /\ StartFirst /\ Running /\ OneStream /\ Ending /\ FirstBoot
        /\ StoredFirst /\ Owned

IInv == TypeOK /\ QueueOwns /\ Rest

LEMMA Types ==
    ASSUME TypeOK
    PROVE  /\ Queue!TypeOK
           /\ rec \in [Recordings -> Active \cup Terminal \cup {"none"}]
           /\ disk \in [Recordings -> Files]
           /\ path \subseteq Recordings /\ tsRow \subseteq Recordings
           /\ hpc \in [1..MaxCommands ->
                          {"none", "begin", "register", "refuse", "ok", "error"}]
           /\ proc \in [Recordings -> {"none", "run", "ending"}]
           /\ fin \in [Recordings -> {"none", "closing", "probing", "renaming", "saving",
                                      "marking", "queueing", "failing", "end"}]
           /\ stop \subseteq Recordings /\ todo \subseteq Recordings
           /\ asked \subseteq Recordings /\ scanned \in BOOLEAN /\ lost \in 0..MaxLost
           /\ handlers \subseteq Ids /\ \A i \in Ids : i \in 1..MaxCommands
           /\ \A i \in Ids : Target(i) \in Recordings
           /\ worker \in {"down", "recovering", "polling", "stopping"}
<1>1. /\ handlers \subseteq Ids /\ \A i \in Ids : i \in 1..MaxCommands
      /\ worker \in {"down", "recovering", "polling", "stopping"}
  BY BoundsAssumption DEF TypeOK, Queue!TypeOK, Queue!Ids, Ids
<1>2. \A i \in Ids : Target(i) \in Recordings
  <2>1. ASSUME NEW i \in Ids PROVE commands[i] \in Queue!Command
    BY DEF TypeOK, Queue!TypeOK, Ids
  <2> QED
    BY <2>1 DEF Queue!Command, Target
<1> QED
  BY <1>1, <1>2, Zenon DEF TypeOK, Files

SameQueue == UNCHANGED <<commands, handlers, requeue, worker, stops, faults>>

LEMMA QueueSame ==
    ASSUME SameQueue
    PROVE  /\ Ids' = Ids /\ handlers' = handlers /\ worker' = worker /\ stops' = stops
           /\ \A k \in Ids : /\ (Starts(k)' <=> Starts(k)) /\ Target(k)' = Target(k)
                             /\ commands'[k].kind = commands[k].kind
                             /\ commands'[k].status = commands[k].status
           /\ QueueOwns => QueueOwns'
           /\ (lost' = lost \/ lost' # 0) => (NothingLost' => NothingLost)
  BY DEF SameQueue, Ids, Starts, Target, QueueOwns, NothingLost

\* One step of finalizeRecording, in the goroutine or in the recovery.
LEMMA FinMoves ==
    ASSUME IInv, TypeOK', NEW r \in Recordings, fin[r] # "none", fin'[r] # "none",
           SameQueue, UNCHANGED <<hpc, proc, todo, scanned, path>>,
           lost' = lost \/ lost' # 0,
           \A q \in Recordings : q # r => rec'[q] = rec[q] /\ fin'[q] = fin[q],
           \A q \in Recordings : disk[q] = "final" => disk'[q] = "final",
           tsRow \subseteq tsRow',
           \/ rec'[r] = rec[r]
           \/ Busy(r) /\ rec'[r] \in {"finalizing", "ready", "failed"},
           rec'[r] = "ready" => HasTs(r)',
           fin'[r] \in Before => Busy(r)',
           fin'[r] = "saving" => disk'[r] = "final",
           fin'[r] = "marking" => HasTs(r)',
           NothingLost' /\ fin'[r] \in {"queueing", "end"} => ~Busy(r)',
           fin[r] \in {"failing", "end"} =>
               fin'[r] \in {"failing", "end"} /\ (rec'[r] = "ready" => rec[r] = "ready")
    PROVE  IInv'
<1>1. /\ Ids' = Ids /\ handlers' = handlers /\ worker' = worker /\ stops' = stops
      /\ \A k \in Ids : /\ (Starts(k)' <=> Starts(k)) /\ Target(k)' = Target(k)
                        /\ commands'[k].kind = commands[k].kind
                        /\ commands'[k].status = commands[k].status
      /\ QueueOwns' /\ (NothingLost' => NothingLost)
  BY QueueSame DEF IInv
<1>2. /\ handlers \subseteq Ids /\ \A i \in Ids : Target(i) \in Recordings
      /\ worker \in {"down", "recovering", "polling", "stopping"}
  BY Types DEF IInv
<1>3. \A q \in Recordings : /\ HasTs(q) => HasTs(q)'
                            /\ Busy(q)' => Busy(q)
                            /\ q # r => (Busy(q)' <=> Busy(q))
                            /\ rec[q] # "none" => rec'[q] # "none"
  BY DEF HasTs, Busy, Active
<1>4. \A k \in Ids : Coming(k)' <=> Coming(k)
  BY <1>1 DEF Coming
<1>5. proc[r] = "ending" \/ worker = "recovering"
  BY DEF IInv, Rest, Memory
<1>6. \A k \in Ids : Starts(k) /\ Coming(k) /\ Target(k) = r => worker = "recovering"
  BY <1>5 DEF IInv, Rest, StartFirst
<1>7. Memory'
  BY <1>1, <1>5 DEF IInv, Rest, Memory
<1>8. OneStart'
  BY <1>1, <1>2, <1>3 DEF IInv, Rest, OneStart
<1>9. StartFirst'
  <2> SUFFICES ASSUME NEW k \in Ids, Starts(k)
               PROVE  /\ Coming(k) => proc[Target(k)] = "none"
                      /\ k \in handlers /\ hpc[k] = "register" =>
                            rec'[Target(k)] = "waiting_input"
    BY <1>1, <1>4 DEF StartFirst
  <2>1. k \in handlers /\ hpc[k] = "register" => Target(k) # r
    <3>1. k \in handlers => worker # "recovering"
      BY DEF IInv, QueueOwns
    <3> QED
      BY <1>6, <3>1 DEF Coming
  <2> QED
    BY <1>2, <2>1 DEF IInv, Rest, StartFirst
<1>10. Running'
  <2>1. proc[r] # "run"
    BY <1>5 DEF IInv, Rest, Memory
  <2> QED
    BY <1>3, <2>1 DEF IInv, Rest, Running
<1>11. OneStream'
  BY <1>3 DEF IInv, Rest, OneStream
<1>12. Ending'
  <2> SUFFICES ASSUME NEW q \in Recordings
               PROVE  /\ fin'[q] \in Before => Busy(q)'
                      /\ q \in todo /\ fin'[q] = "none" => Busy(q)'
                      /\ fin'[q] = "saving" => disk'[q] = "final"
                      /\ fin'[q] = "marking" => HasTs(q)'
    BY DEF Ending
  <2> QED
    BY <1>3 DEF IInv, Rest, Ending
<1>13. FirstBoot'
  <2>1. ASSUME stops = 0, NEW k \in Ids, Starts(k), Coming(k) PROVE rec'[Target(k)] # "ready"
    <3>1. rec[Target(k)] # "ready"
      BY <2>1 DEF IInv, Rest, FirstBoot
    <3>2. Target(k) = r => fin[r] \in {"failing", "end"}
      BY <1>6, <2>1 DEF IInv, Rest, FirstBoot
    <3> QED
      BY <1>2, <3>1, <3>2
  <2>2. ASSUME stops = 0, worker \in {"down", "recovering"}, NEW q \in Recordings
        PROVE  fin'[q] \in {"none", "failing", "end"}
    BY <2>2 DEF IInv, Rest, FirstBoot
  <2> QED
    BY <1>1, <1>4, <2>1, <2>2 DEF IInv, Rest, FirstBoot
<1>14. StoredFirst'
  <2>1. ASSUME NEW q \in Recordings, rec'[q] = "ready" PROVE HasTs(q)'
    BY <1>3, <2>1 DEF IInv, Rest, StoredFirst
  <2>2. ASSUME NEW q \in Recordings, rec[q] \in {"ready", "failed"} PROVE rec'[q] = rec[q]
    BY <2>2 DEF Busy, Active
  <2> QED
    BY <1>1, <1>2, <1>3, <2>1, <2>2 DEF IInv, Rest, StoredFirst
<1>15. Owned'
  <2> SUFFICES ASSUME NothingLost' PROVE Owned'
    BY DEF Owned
  <2>1. \A q \in Recordings : Ender(q)' <=> Ender(q)
    BY <1>1 DEF Ender
  <2>2. \A q \in Recordings : fin'[q] \in {"queueing", "end"} => ~Busy(q)'
    BY <1>1, <1>3 DEF IInv, Rest, Owned
  <2> QED
    BY <1>1, <1>2, <1>3, <2>1, <2>2 DEF IInv, Rest, Owned
<1> QED
  BY <1>1, <1>7, <1>8, <1>9, <1>10, <1>11, <1>12, <1>13, <1>14, <1>15 DEF IInv, Rest


\* What the step of finalizeRecording is about: its recording alone.
LEMMA FinStep ==
    ASSUME IInv, NEW r \in Recordings,
           \/ FinClose(r) \/ FinSave(r) \/ FinReady(r) \/ FinFail(r)
           \/ \E ok \in BOOLEAN : FinProbe(r, ok) \/ FinRename(r, ok)
           \/ FinQueueMP4(r) /\ UNCHANGED queueVars
    PROVE  /\ fin[r] # "none" /\ fin'[r] # "none" /\ SameQueue
           /\ UNCHANGED <<hpc, proc, todo, scanned, path>>
           /\ lost' = lost \/ lost' # 0
           /\ \A q \in Recordings : q # r => rec'[q] = rec[q] /\ fin'[q] = fin[q]
           /\ \A q \in Recordings : disk[q] = "final" => disk'[q] = "final"
           /\ tsRow \subseteq tsRow'
<1>1. /\ rec \in [Recordings -> Active \cup Terminal \cup {"none"}]
      /\ fin \in [Recordings -> {"none", "closing", "probing", "renaming", "saving",
                                 "marking", "queueing", "failing", "end"}]
      /\ disk \in [Recordings -> Files]
      /\ lost \in Nat
  BY Types, BoundsAssumption DEF IInv
<1>2. CASE FinClose(r)
  BY <1>1, <1>2
  DEF FinClose, SetFin, SetRec, Stored, Lose, SameQueue, queueVars
<1>3. CASE FinSave(r)
  BY <1>1, <1>3
  DEF FinSave, SetFin, Stored, Lose, AfterSaveError, SameQueue, queueVars
<1>4. CASE FinReady(r)
  BY <1>1, <1>4
  DEF FinReady, SetFin, SetRec, Stored, Lose, AfterReady, SameQueue, queueVars
<1>5. CASE FinFail(r)
  BY <1>1, <1>5
  DEF FinFail, SetFin, SetRec, Stored, Lose, SameQueue, queueVars
<1>6. CASE \E ok \in BOOLEAN : FinProbe(r, ok) \/ FinRename(r, ok)
  <2>1. PICK ok \in BOOLEAN : FinProbe(r, ok) \/ FinRename(r, ok)
    BY <1>6
  <2> QED
    BY <1>1, <2>1 DEF FinProbe, FinRename, SetFin, SameQueue, queueVars, rows
<1>7. CASE FinQueueMP4(r) /\ UNCHANGED queueVars
  BY <1>1, <1>7 DEF FinQueueMP4, SetFin, Stored, Lose, SameQueue, queueVars, rows
<1> QED
  BY <1>2, <1>3, <1>4, <1>5, <1>6, <1>7

LEMMA FinPreserves ==
    ASSUME IInv, TypeOK', NEW r \in Recordings,
           \/ FinClose(r) \/ FinSave(r) \/ FinReady(r) \/ FinFail(r)
           \/ \E ok \in BOOLEAN : FinProbe(r, ok) \/ FinRename(r, ok)
           \/ FinQueueMP4(r) /\ UNCHANGED queueVars
    PROVE  IInv'
<1>1. /\ rec \in [Recordings -> Active \cup Terminal \cup {"none"}]
      /\ fin \in [Recordings -> {"none", "closing", "probing", "renaming", "saving",
                                 "marking", "queueing", "failing", "end"}]
      /\ disk \in [Recordings -> Files]
      /\ lost \in Nat
  BY Types, BoundsAssumption DEF IInv
<1>2. /\ fin[r] \in Before => Busy(r)
      /\ fin[r] = "saving" => disk[r] = "final"
      /\ fin[r] = "marking" => HasTs(r)
      /\ rec[r] = "ready" => HasTs(r)
      /\ NothingLost /\ fin[r] \in {"queueing", "end"} => ~Busy(r)
  BY DEF IInv, Rest, Ending, StoredFirst, Owned
<1>3. /\ fin[r] # "none" /\ fin'[r] # "none" /\ SameQueue
      /\ UNCHANGED <<hpc, proc, todo, scanned, path>>
      /\ lost' = lost \/ lost' # 0
      /\ \A q \in Recordings : q # r => rec'[q] = rec[q] /\ fin'[q] = fin[q]
      /\ \A q \in Recordings : disk[q] = "final" => disk'[q] = "final"
      /\ tsRow \subseteq tsRow'
  BY FinStep
<1> DEFINE Moves ==
       /\ \/ rec'[r] = rec[r]
          \/ Busy(r) /\ rec'[r] \in {"finalizing", "ready", "failed"}
       /\ rec'[r] = "ready" => HasTs(r)'
       /\ fin'[r] \in Before => Busy(r)'
       /\ fin'[r] = "saving" => disk'[r] = "final"
       /\ fin'[r] = "marking" => HasTs(r)'
       /\ NothingLost' /\ fin'[r] \in {"queueing", "end"} => ~Busy(r)'
       /\ fin[r] \in {"failing", "end"} =>
             fin'[r] \in {"failing", "end"} /\ (rec'[r] = "ready" => rec[r] = "ready")
<1>4. Moves
  <2>2. CASE FinClose(r)
    <3>1. /\ fin[r] = "closing" /\ fin'[r] = "probing"
          /\ rec'[r] = "finalizing" \/ rec'[r] = rec[r]
      BY <1>1, <2>2 DEF FinClose, SetFin, SetRec
    <3> QED
      BY <1>2, <3>1 DEF Busy, Before, Active
  <2>3. CASE FinSave(r)
    <3>1. /\ fin[r] = "saving" /\ disk' = disk /\ rec' = rec
          /\ (fin'[r] = "marking" /\ r \in tsRow') \/ fin'[r] = "failing"
      BY <1>1, <2>3 DEF FinSave, SetFin, AfterSaveError
    <3> QED
      BY <1>2, <3>1 DEF Busy, Before, Active, HasTs
  <2>4. CASE FinReady(r)
    <3>1. /\ fin[r] = "marking" /\ fin'[r] \in {"queueing", "end"}
          /\ disk' = disk /\ tsRow' = tsRow
          /\ rec'[r] = "ready" \/ (rec'[r] = rec[r] /\ lost' # 0)
      BY <1>1, <2>4 DEF FinReady, SetFin, SetRec, Lose, AfterReady
    <3> QED
      BY <1>2, <3>1 DEF Busy, Before, Active, HasTs, NothingLost
  <2>5. CASE FinFail(r)
    <3>1. /\ fin[r] = "failing" /\ fin'[r] = "end"
          /\ rec'[r] = "failed" \/ (rec'[r] = rec[r] /\ lost' # 0)
      BY <1>1, <2>5 DEF FinFail, SetFin, SetRec, Lose
    <3> QED
      BY <1>2, <3>1 DEF Busy, Before, Active, NothingLost
  <2>6. CASE \E ok \in BOOLEAN : FinProbe(r, ok) \/ FinRename(r, ok)
    <3>1. PICK ok \in BOOLEAN : FinProbe(r, ok) \/ FinRename(r, ok)
      BY <2>6
    <3>2. /\ fin[r] \in {"probing", "renaming"} /\ rec' = rec
          /\ fin'[r] \in {"renaming", "saving", "failing"}
          /\ fin'[r] = "saving" => disk'[r] = "final"
      BY <1>1, <3>1 DEF FinProbe, FinRename, SetFin, rows
    <3> QED
      BY <1>2, <3>2 DEF Busy, Before, Active
  <2>7. CASE FinQueueMP4(r) /\ UNCHANGED queueVars
    <3>1. /\ fin[r] = "queueing" /\ fin'[r] = "end"
          /\ rec' = rec /\ disk' = disk /\ tsRow' = tsRow /\ faults' = faults
          /\ lost' = lost \/ lost' # 0
      BY <1>1, <2>7 DEF FinQueueMP4, SetFin, Stored, Lose, rows, queueVars
    <3> QED
      BY <1>2, <3>1 DEF Busy, Before, HasTs, NothingLost
  <2> QED
    BY <2>2, <2>3, <2>4, <2>5, <2>6, <2>7
<1> QED
  BY <1>3, <1>4, FinMoves


\* A row that starts nothing is inserted.
LEMMA RowAdded ==
    ASSUME IInv, TypeOK', NEW r \in Recordings, NEW kind \in {"stop_recording", "generate_mp4"},
           Queue!Enqueue(kind, r), kind = "generate_mp4" => rec[r] = "ready",
           UNCHANGED <<rec, path, tsRow, disk, hpc, proc, todo, scanned, lost>>,
           \A q \in Recordings :
              fin'[q] = fin[q] \/ (fin[q] = "queueing" /\ fin'[q] = "end")
    PROVE  IInv'
<1>1. /\ handlers \subseteq Ids /\ \A i \in Ids : Target(i) \in Recordings
      /\ QueueOK
  BY Types DEF IInv, QueueOK
<1>2. QueueOwns' /\ UNCHANGED <<handlers, faults, worker, stops>>
  BY <1>1, QueueGrows DEF Queue!Kinds, QueueOK
<1>3. PICK n : /\ n \notin Ids /\ Ids' = Ids \cup {n}
               /\ commands'[n].kind = kind /\ commands'[n].target = r
               /\ commands'[n].status = "pending"
               /\ \A k \in Ids : commands'[k] = commands[k]
  BY <1>1, QueueGrows DEF Queue!Kinds
<1>4. /\ \A k \in Ids : /\ (Starts(k)' <=> Starts(k)) /\ Target(k)' = Target(k)
                        /\ (Coming(k)' <=> Coming(k))
      /\ ~Starts(n)' /\ Target(n)' = r
      /\ \A q \in Recordings : (Busy(q)' <=> Busy(q)) /\ (HasTs(q)' <=> HasTs(q))
      /\ NothingLost' <=> NothingLost
  BY <1>2, <1>3 DEF Starts, Target, Coming, Busy, HasTs, NothingLost
<1>5. Memory' /\ Running' /\ OneStream'
  BY <1>2, <1>4 DEF IInv, Rest, Memory, Running, OneStream
<1>6. OneStart' /\ StartFirst'
  BY <1>1, <1>2, <1>3, <1>4 DEF IInv, Rest, OneStart, StartFirst
<1>7. Ending'
  BY <1>4 DEF IInv, Rest, Ending, Before
<1>8. FirstBoot'
  BY <1>1, <1>2, <1>3, <1>4 DEF IInv, Rest, FirstBoot
<1>9. StoredFirst'
  BY <1>1, <1>2, <1>3, <1>4 DEF IInv, Rest, StoredFirst
<1>10. Owned'
  <2> SUFFICES ASSUME NothingLost' PROVE Owned'
    BY DEF Owned
  <2>1. \A q \in Recordings : Ender(q) => Ender(q)'
    BY <1>2, <1>3, <1>4 DEF Ender, Open
  <2>2. \A q \in Recordings : fin'[q] \in {"queueing", "end"} => ~Busy(q)'
    BY <1>4 DEF IInv, Rest, Owned
  <2> QED
    BY <1>1, <1>2, <1>4, <2>1, <2>2 DEF IInv, Rest, Owned
<1> QED
  BY <1>2, <1>5, <1>6, <1>7, <1>8, <1>9, <1>10 DEF IInv, Rest

LEMMA InsertsPreserve ==
    ASSUME IInv, TypeOK', NEW r \in Recordings,
           \/ InsertStop(r) \/ QueueMP4(r)
           \/ FinQueueMP4(r) /\ Convertible(r) /\ Queue!Enqueue("generate_mp4", r) /\ Stored
    PROVE  IInv'
<1>1. fin \in [Recordings -> {"none", "closing", "probing", "renaming", "saving",
                              "marking", "queueing", "failing", "end"}]
  BY Types DEF IInv
<1>2. CASE InsertStop(r)
  BY <1>2, RowAdded DEF InsertStop, rows, memory
<1>3. CASE QueueMP4(r)
  BY <1>3, RowAdded DEF QueueMP4, Convertible, rows, memory
<1>4. CASE FinQueueMP4(r) /\ Convertible(r) /\ Queue!Enqueue("generate_mp4", r) /\ Stored
  <2>1. \A q \in Recordings :
           fin'[q] = fin[q] \/ (fin[q] = "queueing" /\ fin'[q] = "end")
    BY <1>1, <1>4 DEF FinQueueMP4, SetFin
  <2>2. UNCHANGED <<rec, path, tsRow, disk, hpc, proc, todo, scanned, lost>> /\ rec[r] = "ready"
    BY <1>4 DEF FinQueueMP4, Convertible, Stored, rows
  <2> QED
    BY <1>4, <2>1, <2>2, RowAdded
<1> QED
  BY <1>2, <1>3, <1>4

\* A recording is requested.
LEMMA StartRecordingPreserves ==
    ASSUME IInv, TypeOK', NEW r \in Recordings, StartRecording(r)
    PROVE  IInv'
<1>1. /\ handlers \subseteq Ids /\ \A i \in Ids : Target(i) \in Recordings
      /\ rec \in [Recordings -> Active \cup Terminal \cup {"none"}]
      /\ QueueOK
  BY Types DEF IInv, QueueOK
<1>2. /\ Queue!Enqueue("start_recording", r) /\ rec[r] = "none"
      /\ "start_recording" \in Queue!Kinds
      /\ UNCHANGED <<path, tsRow, disk, hpc, proc, fin, todo, scanned, lost>>
      /\ \A q \in Recordings : rec'[q] = IF q = r THEN "waiting_input" ELSE rec[q]
  BY <1>1 DEF StartRecording, SetRec, memory, Queue!Kinds
<1>3. QueueOwns' /\ UNCHANGED <<handlers, faults, worker, stops>>
  BY <1>1, <1>2, QueueGrows DEF QueueOK
<1>4. PICK n : /\ n \notin Ids /\ Ids' = Ids \cup {n}
               /\ commands'[n].kind = "start_recording" /\ commands'[n].target = r
               /\ commands'[n].status = "pending"
               /\ \A k \in Ids : commands'[k] = commands[k]
  BY <1>1, <1>2, QueueGrows
<1>5. /\ \A k \in Ids : /\ (Starts(k)' <=> Starts(k)) /\ Target(k)' = Target(k)
                        /\ (Coming(k)' <=> Coming(k))
                        /\ Starts(k) => Target(k) # r
      /\ Starts(n)' /\ Target(n)' = r /\ n \notin handlers
      /\ \A q \in Recordings : q # r => (Busy(q)' <=> Busy(q))
      /\ \A q \in Recordings : (HasTs(q)' <=> HasTs(q))
      /\ NothingLost' <=> NothingLost
      /\ Busy(r)' /\ ~Busy(r)
  <2>1. \A k \in Ids : Starts(k) => Target(k) # r
    BY <1>2 DEF IInv, Rest, OneStart
  <2> QED
    BY <1>1, <1>2, <1>3, <1>4, <2>1
    DEF Starts, Target, Coming, Busy, HasTs, NothingLost, Active
<1>6. \A q \in Recordings : Busy(q) => StreamOf[q] # StreamOf[r]
  BY DEF StartRecording, Busy, ActiveSet
<1>7. proc[r] = "none" /\ fin[r] = "none"
  BY <1>2, <1>5 DEF IInv, Rest, Ending, Running
<1>8. Memory' /\ Running'
  BY <1>2, <1>3 DEF IInv, Rest, Memory, Running
<1>9. OneStart'
  BY <1>1, <1>2, <1>4, <1>5 DEF IInv, Rest, OneStart
<1>10. StartFirst'
  BY <1>1, <1>2, <1>3, <1>4, <1>5, <1>7 DEF IInv, Rest, StartFirst
<1>11. OneStream'
  BY <1>5, <1>6 DEF IInv, Rest, OneStream
<1>12. Ending'
  BY <1>2, <1>5 DEF IInv, Rest, Ending
<1>13. FirstBoot'
  BY <1>1, <1>2, <1>3, <1>4, <1>5 DEF IInv, Rest, FirstBoot
<1>14. StoredFirst'
  <2>1. \A q \in Recordings : rec'[q] = "ready" => HasTs(q)'
    BY <1>2, <1>5 DEF IInv, Rest, StoredFirst
  <2>2. \A k \in Ids : commands[k].kind = "generate_mp4" => Target(k) # r
    BY <1>2 DEF IInv, Rest, StoredFirst
  <2> QED
    BY <1>1, <1>2, <1>3, <1>4, <1>5, <2>1, <2>2 DEF IInv, Rest, StoredFirst
<1>15. Owned'
  <2> SUFFICES ASSUME NothingLost' PROVE Owned'
    BY DEF Owned
  <2>1. \A q \in Recordings : Ender(q) => Ender(q)'
    BY <1>2, <1>3, <1>4, <1>5 DEF Ender, Open
  <2>2. Ender(r)'
    BY <1>4, <1>5 DEF Ender, Open
  <2> QED
    BY <1>1, <1>2, <1>3, <1>5, <1>7, <2>1, <2>2 DEF IInv, Rest, Owned
<1> QED
  BY <1>3, <1>8, <1>9, <1>10, <1>11, <1>12, <1>13, <1>14, <1>15 DEF IInv, Rest


\* A handler moves on, a start's to its registration or its refusal.
LEMMA HandlerMoves ==
    ASSUME IInv, TypeOK', NEW i \in handlers, SameQueue,
           UNCHANGED <<rec, tsRow, disk, proc, fin, todo, scanned, lost>>,
           \A k \in Ids : k # i => hpc'[k] = hpc[k],
           Starts(i) => /\ hpc[i] \in {"begin", "register"}
                        /\ hpc'[i] \in {"register", "refuse"}
                        /\ hpc'[i] = "register" => rec[Target(i)] = "waiting_input"
    PROVE  IInv'
<1>1. /\ Ids' = Ids /\ handlers' = handlers /\ worker' = worker /\ stops' = stops
      /\ \A k \in Ids : /\ (Starts(k)' <=> Starts(k)) /\ Target(k)' = Target(k)
                        /\ commands'[k].kind = commands[k].kind
                        /\ commands'[k].status = commands[k].status
      /\ QueueOwns' /\ (NothingLost' => NothingLost)
  BY QueueSame DEF IInv
<1>2. /\ handlers \subseteq Ids /\ \A k \in Ids : Target(k) \in Recordings
      /\ worker \notin {"down", "recovering"}
  BY Types DEF IInv, QueueOwns
<1>3. \A q \in Recordings : (HasTs(q)' <=> HasTs(q)) /\ (Busy(q)' <=> Busy(q))
  BY DEF HasTs, Busy
<1>4. \A k \in Ids : Starts(k) /\ Coming(k)' => Coming(k)
  BY <1>1 DEF Coming
<1>5. Memory' /\ OneStart' /\ Running' /\ OneStream' /\ Ending'
  BY <1>1, <1>2, <1>3
  DEF IInv, Rest, Memory, OneStart, Running, OneStream, Ending
<1>6. StartFirst'
  BY <1>1, <1>2, <1>4 DEF IInv, Rest, StartFirst
<1>7. FirstBoot' /\ StoredFirst'
  BY <1>1, <1>2, <1>3, <1>4 DEF IInv, Rest, FirstBoot, StoredFirst
<1>8. Owned'
  <2>1. \A q \in Recordings : Ender(q) => Ender(q)'
    BY <1>1 DEF Ender
  <2> QED
    BY <1>1, <1>2, <1>3, <2>1 DEF IInv, Rest, Owned
<1> QED
  BY <1>1, <1>5, <1>6, <1>7, <1>8 DEF IInv, Rest

LEMMA HandlingPreserves ==
    ASSUME IInv, TypeOK', NEW i \in Ids,
           \/ StartChecks(i) \/ StartRefused(i) \/ StopHandled(i)
           \/ StartRegisters(i) /\ proc[Target(i)] # "none"
    PROVE  IInv'
<1>1. /\ hpc \in [1..MaxCommands ->
                     {"none", "begin", "register", "refuse", "ok", "error"}]
      /\ \A k \in Ids : k \in 1..MaxCommands
  BY Types DEF IInv
<1>2. CASE StartChecks(i)
  BY <1>1, <1>2, HandlerMoves
  DEF StartChecks, Handling, Goto, SameQueue, queueVars, Startable, Starts, Target
<1>3. CASE StartRefused(i)
  BY <1>1, <1>3, HandlerMoves
  DEF StartRefused, Handling, Goto, SameQueue, queueVars, rows, Starts
<1>4. CASE StopHandled(i)
  BY <1>1, <1>4, HandlerMoves
  DEF StopHandled, Handling, Goto, SameQueue, queueVars, rows, Starts
<1>5. CASE StartRegisters(i) /\ proc[Target(i)] # "none"
  <2>1. disk' = disk
    BY <1>5, Types DEF StartRegisters, Target, IInv
  <2> QED
    BY <1>1, <1>5, <2>1, HandlerMoves
    DEF StartRegisters, Handling, Goto, SameQueue, queueVars, rows, Starts, Target
<1> QED
  BY <1>2, <1>3, <1>4, <1>5

\* A refused start fails its row, a finished recording's too.
LEMMA StartFailsPreserves ==
    ASSUME IInv, TypeOK', NEW i \in Ids, StartFails(i)
    PROVE  IInv'
<1>0. PICK r : r = Target(i)
  OBVIOUS
<1>1. /\ hpc \in [1..MaxCommands ->
                     {"none", "begin", "register", "refuse", "ok", "error"}]
      /\ rec \in [Recordings -> Active \cup Terminal \cup {"none"}]
      /\ \A k \in Ids : k \in 1..MaxCommands /\ Target(k) \in Recordings
      /\ handlers \subseteq Ids /\ lost \in Nat
  BY Types, BoundsAssumption DEF IInv
<1>2. /\ i \in handlers /\ Starts(i) /\ hpc[i] = "refuse" /\ SameQueue
      /\ UNCHANGED <<tsRow, disk, path, proc, fin, todo, scanned>>
      /\ \A k \in Ids : hpc'[k] = IF k = i THEN "error" ELSE hpc[k]
      /\ \A q \in Recordings : q # r => rec'[q] = rec[q]
      /\ rec'[r] = "failed" \/ (rec'[r] = rec[r] /\ lost' # 0)
      /\ lost' = lost \/ lost' # 0
  BY <1>0, <1>1
  DEF StartFails, Handling, Goto, SetRec, Stored, Lose, SameQueue, queueVars, Starts, Target
<1>3. /\ Ids' = Ids /\ handlers' = handlers /\ worker' = worker /\ stops' = stops
      /\ \A k \in Ids : /\ (Starts(k)' <=> Starts(k)) /\ Target(k)' = Target(k)
                        /\ commands'[k].kind = commands[k].kind
                        /\ commands'[k].status = commands[k].status
      /\ QueueOwns' /\ (NothingLost' => NothingLost)
  BY <1>2, QueueSame DEF IInv
<1>4. /\ r = Target(i) /\ r \in Recordings /\ worker \notin {"down", "recovering"}
  BY <1>0, <1>1, <1>2 DEF IInv, QueueOwns
<1>5. \A q \in Recordings :
         /\ rec'[q] = rec[q] \/ (q = r /\ rec'[q] = "failed")
         /\ HasTs(q)' <=> HasTs(q)
         /\ Busy(q)' => Busy(q)
         /\ q # r => (Busy(q)' <=> Busy(q))
  BY <1>2 DEF HasTs, Busy, Active
<1>5b. NothingLost' => ~Busy(r)'
  BY <1>2 DEF NothingLost, Busy, Active
<1>6. \A k \in Ids : Starts(k) /\ Coming(k)' => Coming(k) /\ k # i
  BY <1>2, <1>3, <1>4 DEF Coming, IInv, QueueOwns
<1>7. proc[r] = "none" /\ fin[r] = "none" /\ r \notin todo
  BY <1>2, <1>4 DEF IInv, Rest, StartFirst, Memory, Coming
<1>8. \A k \in Ids : Starts(k) /\ k # i => Target(k) # r
  BY <1>2, <1>4 DEF IInv, Rest, OneStart
<1>9. Memory' /\ OneStart' /\ Running' /\ OneStream'
  BY <1>1, <1>2, <1>3, <1>4, <1>5, <1>5b, <1>7
  DEF IInv, Rest, Memory, OneStart, Running, OneStream
<1>10. StartFirst'
  BY <1>1, <1>2, <1>3, <1>6, <1>8 DEF IInv, Rest, StartFirst
<1>11. Ending'
  BY <1>2, <1>4, <1>5, <1>5b, <1>7 DEF IInv, Rest, Ending, Before
<1>12. FirstBoot'
  BY <1>1, <1>2, <1>3, <1>4, <1>5, <1>5b, <1>6 DEF IInv, Rest, FirstBoot
<1>13. StoredFirst'
  <2>1. stops = 0 => rec[r] # "ready"
    BY <1>2, <1>4 DEF IInv, Rest, FirstBoot, Coming
  <2> QED
    BY <1>1, <1>2, <1>3, <1>4, <1>5, <1>5b, <2>1 DEF IInv, Rest, StoredFirst
<1>14. Owned'
  <2> SUFFICES ASSUME NothingLost' PROVE Owned'
    BY DEF Owned
  <2>1. \A q \in Recordings : Ender(q) => Ender(q)'
    BY <1>2, <1>3 DEF Ender
  <2>2. \A q \in Recordings : fin'[q] \in {"queueing", "end"} => ~Busy(q)'
    BY <1>2, <1>3, <1>5 DEF IInv, Rest, Owned
  <2>3. ASSUME NEW k \in handlers, Starts(k)
        PROVE  /\ hpc'[k] = "ok" => proc[Target(k)] # "none" \/ rec'[Target(k)] \notin Active
               /\ hpc'[k] = "error" => rec'[Target(k)] \notin Active
    <3>1. k \in Ids /\ (k = i \/ hpc'[k] = hpc[k])
      BY <1>1, <1>2
    <3>2. CASE k = i
      BY <1>2, <1>4, <1>5, <1>5b, <3>1, <3>2 DEF Busy
    <3>3. CASE k # i
      <4>1. /\ hpc[k] = "ok" => proc[Target(k)] # "none" \/ ~Busy(Target(k))
            /\ hpc[k] = "error" => ~Busy(Target(k))
        BY <1>3, <2>3 DEF IInv, Rest, Owned
      <4> QED
        BY <1>1, <1>5, <1>5b, <3>1, <3>3, <4>1 DEF Busy
    <3> QED
      BY <3>2, <3>3
  <2> QED
    BY <1>1, <1>2, <1>3, <1>5, <1>5b, <2>1, <2>2, <2>3 DEF IInv, Rest, Owned, Busy
<1> QED
  BY <1>3, <1>9, <1>10, <1>11, <1>12, <1>13, <1>14 DEF IInv, Rest


\* A start registers its process.
LEMMA StartRegistersPreserves ==
    ASSUME IInv, TypeOK', NEW i \in Ids, StartRegisters(i), proc[Target(i)] = "none"
    PROVE  IInv'
<1>0. PICK r : r = Target(i)
  OBVIOUS
<1>1. /\ hpc \in [1..MaxCommands ->
                     {"none", "begin", "register", "refuse", "ok", "error"}]
      /\ proc \in [Recordings -> {"none", "run", "ending"}]
      /\ disk \in [Recordings -> Files]
      /\ \A k \in Ids : k \in 1..MaxCommands /\ Target(k) \in Recordings
      /\ handlers \subseteq Ids
  BY Types DEF IInv
<1>2. /\ i \in handlers /\ Starts(i) /\ hpc[i] = "register" /\ SameQueue
      /\ UNCHANGED <<rec, tsRow, path, fin, todo, scanned, lost>>
      /\ \A q \in Recordings : disk'[q] = "final" <=> disk[q] = "final"
      /\ \A k \in Ids : hpc'[k] = IF k = i THEN "ok" ELSE hpc[k]
      /\ \A q \in Recordings : proc'[q] = IF q = r THEN "run" ELSE proc[q]
  BY <1>0, <1>1
  DEF StartRegisters, Handling, Goto, SameQueue, queueVars, rows, Starts, Target
<1>3. /\ Ids' = Ids /\ handlers' = handlers /\ worker' = worker /\ stops' = stops
      /\ \A k \in Ids : /\ (Starts(k)' <=> Starts(k)) /\ Target(k)' = Target(k)
                        /\ commands'[k].kind = commands[k].kind
                        /\ commands'[k].status = commands[k].status
      /\ QueueOwns' /\ (NothingLost' => NothingLost)
  BY <1>2, QueueSame DEF IInv
<1>4. /\ r \in Recordings /\ worker \notin {"down", "recovering"}
      /\ rec[r] = "waiting_input" /\ proc[r] = "none" /\ fin[r] = "none"
  BY <1>0, <1>1, <1>2 DEF IInv, Rest, QueueOwns, StartFirst, Memory
<1>5. \A q \in Recordings : (HasTs(q)' <=> HasTs(q)) /\ (Busy(q)' <=> Busy(q))
  BY <1>2 DEF HasTs, Busy
<1>6. \A k \in Ids : Starts(k) /\ Coming(k)' => Coming(k) /\ Target(k) # r
  <2>1. \A k \in Ids : Starts(k) /\ k # i => Target(k) # r
    BY <1>0, <1>2 DEF IInv, Rest, OneStart
  <2> QED
    BY <1>2, <1>3, <2>1 DEF Coming, IInv, QueueOwns
<1>7. Memory' /\ OneStart' /\ Running' /\ OneStream' /\ Ending'
  BY <1>1, <1>2, <1>3, <1>4, <1>5
  DEF IInv, Rest, Memory, OneStart, Running, OneStream, Ending
<1>8. StartFirst'
  BY <1>1, <1>2, <1>3, <1>6 DEF IInv, Rest, StartFirst
<1>9. FirstBoot' /\ StoredFirst'
  BY <1>1, <1>2, <1>3, <1>4, <1>5, <1>6 DEF IInv, Rest, FirstBoot, StoredFirst
<1>10. Owned'
  <2> SUFFICES ASSUME NothingLost' PROVE Owned'
    BY DEF Owned
  <2>1. \A q \in Recordings : Ender(q) => Ender(q)'
    BY <1>2, <1>3 DEF Ender
  <2>2. \A q \in Recordings : proc[q] # "none" => proc'[q] # "none"
    BY <1>2
  <2> QED
    BY <1>0, <1>1, <1>2, <1>3, <1>4, <1>5, <2>1, <2>2 DEF IInv, Rest, Owned
<1> QED
  BY <1>3, <1>7, <1>8, <1>9, <1>10 DEF IInv, Rest

\* A step of the queue while the worker polls, or after which it polls or stops: no
\* recording moves, and no row comes but the one that gets a handler.
LEMMA QueueMoves ==
    ASSUME IInv, TypeOK', QueueOwns', Kept, NoneComes,
           faults' = faults \/ faults' # 0, stops' = stops \/ stops' # 0,
           UNCHANGED <<rec, tsRow, disk, proc, fin, todo, scanned, lost>>,
           worker' \in {"polling", "stopping"}, Memory',
           \A k \in handlers' :
              \/ k \in handlers /\ hpc'[k] = hpc[k]
              \/ k \in Ids /\ commands[k].status = "pending" /\ hpc'[k] = "begin",
           NothingLost' => \A q \in Recordings : Busy(q) => Ender(q)'
    PROVE  IInv'
<1>1. /\ Ids' = Ids /\ handlers \subseteq Ids /\ handlers' \subseteq Ids
      /\ \A k \in Ids : Target(k) \in Recordings
      /\ \A k \in Ids : /\ (Starts(k)' <=> Starts(k)) /\ Target(k)' = Target(k)
                        /\ commands'[k].kind = commands[k].kind
      /\ NothingLost' => NothingLost
  BY Types DEF IInv, Kept, Starts, Target, NothingLost
<1>2. \A q \in Recordings : (HasTs(q)' <=> HasTs(q)) /\ (Busy(q)' <=> Busy(q))
  BY DEF HasTs, Busy
<1>3. \A k \in Ids : Starts(k) /\ Coming(k)' => Coming(k)
  BY DEF Coming, Starts, NoneComes
<1>4. OneStart' /\ Running' /\ OneStream' /\ Ending'
  BY <1>1, <1>2 DEF IInv, Rest, OneStart, Running, OneStream, Ending
<1>5. StartFirst'
  BY <1>1, <1>3 DEF IInv, Rest, StartFirst
<1>6. FirstBoot' /\ StoredFirst'
  BY <1>1, <1>2, <1>3 DEF IInv, Rest, FirstBoot, StoredFirst
<1>7. Owned'
  <2> SUFFICES ASSUME NothingLost' PROVE Owned'
    BY DEF Owned
  <2>1. \A q \in Recordings : Busy(q) => Ender(q)'
    OBVIOUS
  <2> QED
    BY <1>1, <1>2, <2>1 DEF IInv, Rest, Owned
<1> QED
  BY <1>4, <1>5, <1>6, <1>7 DEF IInv, Rest


LEMMA EndersStay ==
    ASSUME IInv, NEW but, Kept, OpenKept(but), UNCHANGED <<proc, todo, scanned>>,
           worker' = worker \/ worker' = "stopping",
           \A i \in Ids : i \in but /\ Starts(i) /\ Busy(Target(i)) => proc[Target(i)] # "none"
    PROVE  NothingLost => \A q \in Recordings : Busy(q) => Ender(q)'
<1> SUFFICES ASSUME NothingLost, NEW q \in Recordings, Busy(q) PROVE Ender(q)'
  OBVIOUS
<1>1. \A k \in Ids : /\ (Starts(k)' <=> Starts(k)) /\ Target(k)' = Target(k)
  BY DEF Kept, Starts, Target
<1>2. Ender(q)
  BY DEF IInv, Rest, Owned
<1>3. CASE \E i \in Ids : Starts(i) /\ Target(i) = q /\ Open(commands[i].status)
  <2>1. PICK i \in Ids : Starts(i) /\ Target(i) = q /\ Open(commands[i].status)
    BY <1>3
  <2>2. i \in but => proc[q] # "none"
    BY <2>1
  <2>3. i \notin but => Open(commands'[i].status)
    BY <2>1 DEF OpenKept
  <2>4. Ids' = Ids
    BY DEF Kept
  <2> QED
    BY <1>1, <2>1, <2>2, <2>3, <2>4 DEF Ender
<1>4. CASE ~\E i \in Ids : Starts(i) /\ Target(i) = q /\ Open(commands[i].status)
  BY <1>2, <1>4 DEF Ender
<1> QED
  BY <1>3, <1>4

LEMMA QueuePreserves ==
    ASSUME IInv, TypeOK',
           \/ \E i \in Ids : Claim(i) \/ Complete(i)
           \/ QueueOnly \/ SettingsTick \/ Shutdown \/ RecoveryDone
    PROVE  IInv'
<1>1. /\ QueueOK /\ handlers \subseteq Ids
      /\ hpc \in [1..MaxCommands ->
                     {"none", "begin", "register", "refuse", "ok", "error"}]
      /\ \A k \in Ids : k \in 1..MaxCommands
      /\ worker \in {"down", "recovering", "polling", "stopping"}
  BY Types DEF IInv, QueueOK
<1>2. Memory /\ (handlers # {} => worker \in {"polling", "stopping"})
  BY <1>1 DEF IInv, Rest, QueueOwns
<1>3. ASSUME NEW i \in Ids, Claim(i) PROVE IInv'
  <2>1. /\ Queue!Dispatch(i)
        /\ UNCHANGED <<rec, path, tsRow, disk, proc, fin, todo, scanned, lost>>
        /\ \A k \in Ids : hpc'[k] = IF k = i THEN "begin" ELSE hpc[k]
    BY <1>1, <1>3 DEF Claim, Goto, rows
  <2>2. /\ QueueOwns' /\ Kept /\ OpenKept({}) /\ NoneComes
        /\ faults' # 0 \/ faults' = faults
        /\ worker = "polling" /\ worker' = worker /\ stops' = stops
        /\ commands[i].status = "pending"
        /\ handlers' = handlers \cup {i} /\ i \notin handlers
    BY <1>1, <2>1, QueueClaims DEF QueueOK
  <2>3. Memory' /\ (NothingLost' => NothingLost)
    BY <1>2, <2>1, <2>2 DEF Memory, NothingLost
  <2>4. NothingLost => \A q \in Recordings : Busy(q) => Ender(q)'
    BY <2>1, <2>2, EndersStay
  <2> QED
    BY <1>1, <2>1, <2>2, <2>3, <2>4, QueueMoves
<1>4. ASSUME NEW i \in Ids, Complete(i) PROVE IInv'
  <2>1. /\ \/ \E o \in {"done", "failed"} : Finished(i, o) /\ Queue!HandlerReturns(i, o)
           \/ hpc[i] \in {"ok", "error"} /\ Queue!CompletionLost(i)
        /\ UNCHANGED <<rec, path, tsRow, disk, proc, fin, todo, scanned, lost>>
        /\ \A k \in Ids : hpc'[k] = IF k = i THEN "none" ELSE hpc[k]
    BY <1>1, <1>4 DEF Complete, Goto, rows
  <2>2. /\ QueueOwns' /\ Kept /\ OpenKept({i}) /\ NoneComes
        /\ faults' # 0 \/ faults' = faults
        /\ worker' = worker /\ stops' = stops
        /\ i \in handlers /\ handlers' = handlers \ {i}
    BY <1>1, <2>1, QueueCompletes DEF QueueOK
  <2>3. Memory' /\ (NothingLost' => NothingLost) /\ worker' \in {"polling", "stopping"}
    BY <1>2, <2>1, <2>2 DEF Memory, NothingLost
  <2>4. Starts(i) => hpc[i] \in {"ok", "error"}
    BY <2>1 DEF Finished, Starts
  <2>5. NothingLost => (Starts(i) /\ Busy(Target(i)) => proc[Target(i)] # "none")
    BY <2>2, <2>4 DEF IInv, Rest, Owned
  <2>6. NothingLost => \A q \in Recordings : Busy(q) => Ender(q)'
    BY <2>1, <2>2, <2>5, EndersStay
  <2> QED
    BY <1>1, <2>1, <2>2, <2>3, <2>6, QueueMoves
<1>5. CASE QueueOnly
  <2>1. /\ \/ Queue!Requeue \/ Queue!RequeueLost
           \/ \E i \in Ids : Queue!ClaimWithoutSlot(i) \/ Queue!ClaimUncertain(i)
        /\ UNCHANGED <<rec, path, tsRow, disk, hpc, proc, fin, todo, scanned, lost>>
    BY <1>5 DEF QueueOnly, rows, memory, Ids
  <2>2. /\ QueueOwns' /\ Kept /\ OpenKept({}) /\ NoneComes
        /\ faults' # 0 \/ faults' = faults
        /\ worker = "polling" /\ worker' = worker /\ stops' = stops /\ handlers' = handlers
    BY <1>1, <2>1, QueueClaims, QueueRequeues DEF QueueOK
  <2>3. Memory' /\ (NothingLost' => NothingLost)
    BY <1>2, <2>1, <2>2 DEF Memory, NothingLost
  <2>4. NothingLost => \A q \in Recordings : Busy(q) => Ender(q)'
    BY <2>1, <2>2, EndersStay
  <2> QED
    BY <1>1, <2>1, <2>2, <2>3, <2>4, QueueMoves
<1>6. CASE SettingsTick \/ Shutdown
  <2>1. /\ (\E l \in Queue!Limits : Queue!SettingsTick(l)) \/ Queue!Shutdown
        /\ UNCHANGED <<rec, path, tsRow, disk, hpc, proc, fin, todo, scanned, lost>>
    BY <1>6 DEF SettingsTick, Shutdown, rows, memory
  <2>2. /\ QueueOwns' /\ Kept /\ OpenKept({}) /\ NoneComes
        /\ faults' = faults /\ handlers' = handlers
    BY <1>1, <2>1, QueueGoesOn DEF QueueOK
  <2>3. /\ worker' \in {"polling", "stopping"} /\ (worker' = worker \/ worker' = "stopping")
        /\ worker = "polling" /\ (stops' = stops \/ stops' # 0)
    BY <2>1, BoundsAssumption, <1>1
    DEF QueueOK, Queue!TypeOK, Queue!SettingsTick, Queue!Shutdown
  <2>4. Memory' /\ (NothingLost' => NothingLost)
    BY <1>2, <2>1, <2>2, <2>3 DEF Memory, NothingLost
  <2>5. NothingLost => \A q \in Recordings : Busy(q) => Ender(q)'
    BY <2>1, <2>2, <2>3, EndersStay
  <2> QED
    BY <1>1, <2>1, <2>2, <2>3, <2>4, <2>5, QueueMoves
<1>7. CASE RecoveryDone
  <2>1. /\ Queue!RecoveryDone /\ scanned /\ todo = {} /\ Idle
        /\ UNCHANGED <<rec, path, tsRow, disk, hpc, proc, fin, todo, scanned, lost>>
    BY <1>7 DEF RecoveryDone, rows, memory
  <2>2. /\ QueueOwns' /\ Kept /\ OpenKept({}) /\ NoneComes
        /\ faults' = faults /\ handlers' = handlers /\ worker = "recovering"
    BY <1>1, <2>1, QueueGoesOn DEF QueueOK
  <2>3. worker' = "polling" /\ stops' = stops
    BY <2>1 DEF Queue!RecoveryDone
  <2>4. Memory' /\ (NothingLost' => NothingLost)
    BY <1>2, <2>1, <2>2, <2>3 DEF Memory, NothingLost, Idle
  <2>5. ASSUME NothingLost, NEW q \in Recordings, Busy(q) PROVE Ender(q)'
    <3>1. \E i \in Ids : Starts(i) /\ Target(i) = q /\ Open(commands[i].status)
      BY <1>2, <2>1, <2>2, <2>5 DEF IInv, Rest, Owned, Ender, Memory
    <3> QED
      BY <2>2, <3>1 DEF Ender, Kept, OpenKept, Starts, Target
  <2> QED
    BY <1>1, <2>1, <2>2, <2>3, <2>4, <2>5, QueueMoves
<1> QED
  BY <1>3, <1>4, <1>5, <1>6, <1>7


\* The worker's process ends, and is started again.
LEMMA DiePreserves ==
    ASSUME IInv, TypeOK', Die
    PROVE  IInv'
<1>1. /\ QueueOK /\ \A k \in Ids : Target(k) \in Recordings
  BY Types DEF IInv, QueueOK
<1>2. /\ QueueOwns' /\ Kept /\ handlers' = {} /\ worker' = "down" /\ stops' # 0
      /\ faults' = faults
  BY <1>1, QueueDies DEF Die, QueueOK
<1>3. /\ UNCHANGED <<rec, path, tsRow, disk, lost>>
      /\ todo' = {} /\ ~scanned'
      /\ \A q \in Recordings : proc'[q] = "none" /\ fin'[q] = "none"
  BY DEF Die, MemoryLost, rows
<1>4. /\ Ids' = Ids
      /\ \A k \in Ids : /\ (Starts(k)' <=> Starts(k)) /\ Target(k)' = Target(k)
                        /\ commands'[k].kind = commands[k].kind
  BY <1>2 DEF Kept, Starts, Target
<1>5. \A q \in Recordings : (HasTs(q)' <=> HasTs(q)) /\ (Busy(q)' <=> Busy(q))
  BY <1>3 DEF HasTs, Busy
<1>6. Memory' /\ OneStart' /\ Running' /\ OneStream' /\ Ending'
  BY <1>1, <1>2, <1>3, <1>4, <1>5
  DEF IInv, Rest, Memory, OneStart, Running, OneStream, Ending, Before
<1>7. StartFirst' /\ FirstBoot' /\ StoredFirst'
  BY <1>1, <1>2, <1>3, <1>4, <1>5 DEF IInv, Rest, StartFirst, FirstBoot, StoredFirst
<1>8. Owned'
  BY <1>2, <1>3 DEF Owned, Ender
<1> QED
  BY <1>2, <1>6, <1>7, <1>8 DEF IInv, Rest

LEMMA RestartPreserves ==
    ASSUME IInv, TypeOK', Restart
    PROVE  IInv'
<1>1. QueueOK /\ \A k \in Ids : Target(k) \in Recordings
  BY Types DEF IInv, QueueOK
<1>2. /\ QueueOwns' /\ Kept /\ handlers' = {} /\ worker = "down" /\ worker' = "recovering"
      /\ stops' = stops /\ faults' = faults
      /\ \A k \in Ids : commands[k].status = "pending" => commands'[k].status = "pending"
  <2>1. PICK l \in Queue!Limits : Queue!Restart(l)
    BY DEF Restart
  <2> QED
    BY <1>1, <2>1, QueueStarts DEF QueueOK
<1>3. UNCHANGED <<rec, path, tsRow, disk, hpc, proc, fin, todo, scanned, lost>>
  BY DEF Restart, rows, memory
<1>4. /\ Ids' = Ids
      /\ \A k \in Ids : /\ (Starts(k)' <=> Starts(k)) /\ Target(k)' = Target(k)
                        /\ commands'[k].kind = commands[k].kind
  BY <1>2 DEF Kept, Starts, Target
<1>5. \A q \in Recordings : (HasTs(q)' <=> HasTs(q)) /\ (Busy(q)' <=> Busy(q))
  BY <1>3 DEF HasTs, Busy
<1>6. /\ ~scanned /\ todo = {} /\ \A q \in Recordings : proc[q] = "none" /\ fin[q] = "none"
  BY <1>2 DEF IInv, Rest, Memory
<1>7. Memory' /\ OneStart' /\ Running' /\ OneStream' /\ Ending'
  BY <1>1, <1>2, <1>3, <1>4, <1>5, <1>6
  DEF IInv, Rest, Memory, OneStart, Running, OneStream, Ending
<1>8. StartFirst' /\ StoredFirst'
  BY <1>1, <1>2, <1>3, <1>4, <1>5, <1>6 DEF IInv, Rest, StartFirst, StoredFirst
<1>9. FirstBoot'
  <2>1. stops = 0 => \A k \in Ids : Coming(k) /\ commands'[k].status = "pending"
    BY <1>2 DEF IInv, Rest, FirstBoot, Coming
  <2> QED
    BY <1>1, <1>2, <1>3, <1>4, <2>1 DEF IInv, Rest, FirstBoot
<1>10. Owned'
  BY <1>2, <1>3, <1>6 DEF Owned, Ender
<1> QED
  BY <1>2, <1>7, <1>8, <1>9, <1>10 DEF IInv, Rest

\* Nothing but a running FFmpeg's file and row move, if that.
LEMMA OnlyMediaMoves ==
    ASSUME IInv, TypeOK', SameQueue,
           UNCHANGED <<hpc, path, tsRow, proc, fin, todo, scanned, lost>>,
           \A q \in Recordings :
              /\ rec'[q] = rec[q] \/ (proc[q] = "run" /\ rec'[q] = "recording")
              /\ disk'[q] = disk[q] \/ proc[q] = "run"
    PROVE  IInv'
<1>1. /\ Ids' = Ids /\ handlers' = handlers /\ worker' = worker /\ stops' = stops
      /\ \A k \in Ids : /\ (Starts(k)' <=> Starts(k)) /\ Target(k)' = Target(k)
                        /\ commands'[k].kind = commands[k].kind
                        /\ commands'[k].status = commands[k].status
      /\ QueueOwns' /\ (NothingLost' => NothingLost)
  BY QueueSame DEF IInv
<1>2. handlers \subseteq Ids /\ \A k \in Ids : Target(k) \in Recordings
  BY Types DEF IInv
<1>3. \A q \in Recordings : /\ (HasTs(q)' <=> HasTs(q)) \/ proc[q] = "run"
                            /\ Busy(q)' <=> Busy(q)
                            /\ rec'[q] = "none" <=> rec[q] = "none"
                            /\ rec'[q] = "ready" <=> rec[q] = "ready"
                            /\ proc[q] = "none" => rec'[q] = rec[q]
  BY DEF HasTs, Busy, Active, IInv, Rest, Running
<1>4. /\ \A k \in Ids : Coming(k)' <=> Coming(k)
      /\ \A q \in Recordings :
            proc[q] = "run" => fin[q] = "none" /\ rec[q] \notin {"ready", "failed"}
  BY <1>1 DEF Coming, IInv, Rest, Memory, Running
<1>5. Memory' /\ OneStart' /\ OneStream' /\ Ending'
  BY <1>1, <1>2, <1>3, <1>4 DEF IInv, Rest, Memory, OneStart, OneStream, Ending
<1>6. Running'
  BY <1>3 DEF IInv, Rest, Running
<1>7. StartFirst'
  BY <1>1, <1>2, <1>3, <1>4 DEF IInv, Rest, StartFirst, Coming
<1>8. FirstBoot' /\ StoredFirst'
  BY <1>1, <1>2, <1>3, <1>4 DEF IInv, Rest, FirstBoot, StoredFirst
<1>9. Owned'
  <2>1. \A q \in Recordings : Ender(q) => Ender(q)'
    BY <1>1 DEF Ender
  <2> QED
    BY <1>1, <1>2, <1>3, <2>1 DEF IInv, Rest, Owned
<1> QED
  BY <1>1, <1>5, <1>6, <1>7, <1>8, <1>9 DEF IInv, Rest

LEMMA MediaPreserves ==
    ASSUME IInv, TypeOK',
           \/ \E r \in Recordings : Media(r) \/ Started(r) \/ AskStop(r)
           \/ DiskGuard \/ UNCHANGED vars
    PROVE  IInv'
<1>1. /\ rec \in [Recordings -> Active \cup Terminal \cup {"none"}]
      /\ disk \in [Recordings -> Files]
  BY Types DEF IInv
<1>2. ASSUME NEW r \in Recordings, Media(r) \/ Started(r) \/ AskStop(r) PROVE IInv'
  <2>1. /\ SameQueue /\ UNCHANGED <<hpc, path, tsRow, proc, fin, todo, scanned, lost>>
    BY <1>2 DEF Media, Started, AskStop, SameQueue, queueVars, rows, memory
  <2>2. \A q \in Recordings :
           /\ rec'[q] = rec[q] \/ (proc[q] = "run" /\ rec'[q] = "recording")
           /\ disk'[q] = disk[q] \/ proc[q] = "run"
    BY <1>1, <1>2 DEF Media, Started, AskStop, SetRec, rows
  <2> QED
    BY <2>1, <2>2, OnlyMediaMoves
<1>3. CASE DiskGuard
  BY <1>3, OnlyMediaMoves DEF DiskGuard, SameQueue, queueVars, rows
<1>4. CASE UNCHANGED vars
  BY <1>4, OnlyMediaMoves DEF vars, SameQueue, queueVars, rows, memory
<1> QED
  BY <1>2, <1>3, <1>4


\* A recording's goroutine, the recovery's scan or its work on one recording begins or
\* ends; no row moves.
LEMMA ScopeMoves ==
    ASSUME IInv, TypeOK', SameQueue, UNCHANGED <<rec, path, tsRow, disk, hpc>>,
           lost' = lost \/ lost' # 0, Memory',
           \A q \in Recordings :
              /\ proc[q] = "none" => proc'[q] = "none"
              /\ proc'[q] = "run" => proc[q] = "run"
              /\ \/ fin'[q] = fin[q]
                 \/ fin'[q] \in {"none", "closing", "failing"} \ {fin[q]}
              /\ fin'[q] # fin[q] /\ fin'[q] # "none" => Busy(q)
              /\ q \in todo' /\ fin'[q] = "none" => Busy(q)
              /\ stops = 0 /\ worker = "recovering" => fin'[q] # "closing" \/ fin[q] = "closing"
              /\ NothingLost' /\ Busy(q) => (proc[q] # "none" => proc'[q] # "none") /\ Ender(q)'
    PROVE  IInv'
<1>1. /\ Ids' = Ids /\ handlers' = handlers /\ worker' = worker /\ stops' = stops
      /\ \A k \in Ids : /\ (Starts(k)' <=> Starts(k)) /\ Target(k)' = Target(k)
                        /\ commands'[k].kind = commands[k].kind
                        /\ commands'[k].status = commands[k].status
      /\ QueueOwns' /\ (NothingLost' => NothingLost)
  BY QueueSame DEF IInv
<1>2. /\ handlers \subseteq Ids /\ \A k \in Ids : Target(k) \in Recordings
      /\ worker \in {"down", "recovering", "polling", "stopping"}
  BY Types DEF IInv
<1>3. \A q \in Recordings : (HasTs(q)' <=> HasTs(q)) /\ (Busy(q)' <=> Busy(q))
  BY DEF HasTs, Busy
<1>4. \A k \in Ids : Coming(k)' <=> Coming(k)
  BY <1>1 DEF Coming
<1>5. OneStart' /\ StartFirst' /\ OneStream' /\ StoredFirst'
  BY <1>1, <1>2, <1>3, <1>4
  DEF IInv, Rest, OneStart, StartFirst, OneStream, StoredFirst
<1>6. Running'
  <2>1. \A q \in Recordings : Busy(q) => rec[q] # "none"
    BY DEF Busy, Active
  <2> QED
    BY <2>1 DEF IInv, Rest, Running
<1>7. Ending'
  BY <1>3 DEF IInv, Rest, Ending, Before
<1>8. FirstBoot'
  <2>1. ASSUME stops = 0, worker \in {"down", "recovering"}, NEW q \in Recordings
        PROVE  fin'[q] \in {"none", "failing", "end"}
    <3>1. fin[q] \in {"none", "failing", "end"}
      BY <2>1 DEF IInv, Rest, FirstBoot
    <3>2. worker = "down" => fin'[q] = "none"
      BY <1>1, <1>2 DEF IInv, Rest, Memory
    <3> QED
      BY <2>1, <3>1, <3>2
  <2> QED
    BY <1>1, <1>2, <1>3, <1>4, <2>1 DEF IInv, Rest, FirstBoot
<1>9. Owned'
  <2> SUFFICES ASSUME NothingLost' PROVE Owned'
    BY DEF Owned
  <2>1. \A q \in Recordings : fin'[q] \in {"queueing", "end"} => ~Busy(q)'
    BY <1>1, <1>3 DEF IInv, Rest, Owned
  <2>2. \A q \in Recordings : Busy(q) => Ender(q)' /\ (proc[q] # "none" => proc'[q] # "none")
    OBVIOUS
  <2> QED
    BY <1>1, <1>2, <1>3, <2>1, <2>2 DEF IInv, Rest, Owned
<1> QED
  BY <1>1, <1>5, <1>6, <1>7, <1>8, <1>9 DEF IInv, Rest

LEMMA ScopesPreserve ==
    ASSUME IInv, TypeOK', NEW r \in Recordings,
           RunEnds(r) \/ Unregister(r) \/ Scan \/ Recover(r) \/ Recovered(r)
    PROVE  IInv'
<1>1. /\ proc \in [Recordings -> {"none", "run", "ending"}]
      /\ fin \in [Recordings -> {"none", "closing", "probing", "renaming", "saving",
                                 "marking", "queueing", "failing", "end"}]
      /\ lost \in Nat /\ worker \in {"down", "recovering", "polling", "stopping"}
  BY Types, BoundsAssumption DEF IInv
<1>2. /\ Memory /\ Running /\ Ending
      /\ NothingLost => \A q \in Recordings : /\ Busy(q) => Ender(q)
                                              /\ fin[q] = "end" => ~Busy(q)
  BY DEF IInv, Rest, Owned
<1>3. CASE RunEnds(r)
  <2>1. /\ SameQueue /\ UNCHANGED <<rec, path, tsRow, disk, hpc, todo, scanned, lost>>
        /\ proc[r] = "run" /\ fin'[r] \in {"closing", "failing"}
        /\ \A q \in Recordings : /\ proc'[q] = IF q = r THEN "ending" ELSE proc[q]
                                 /\ q # r => fin'[q] = fin[q]
    BY <1>1, <1>3 DEF RunEnds, SetFin, Finalizing, SameQueue, queueVars, rows
  <2>2. Busy(r) /\ worker \in {"polling", "stopping"} /\ fin[r] = "none"
    BY <1>1, <1>2, <2>1 DEF Memory, Running, Busy, Active
  <2>3. Memory'
    BY <1>2, <2>1, <2>2 DEF Memory, SameQueue
  <2>4. NothingLost' => \A q \in Recordings : Busy(q) => Ender(q)'
    BY <1>2, <2>1 DEF SameQueue, NothingLost, Ender, Ids, Starts, Target
  <2>5. \A q \in Recordings : q \in todo /\ fin'[q] = "none" => Busy(q)
    BY <1>2, <2>1 DEF Ending
  <2> QED
    BY <2>1, <2>2, <2>3, <2>4, <2>5, ScopeMoves
<1>4. CASE Unregister(r)
  <2>1. /\ SameQueue /\ UNCHANGED <<rec, path, tsRow, disk, hpc, todo, scanned, lost>>
        /\ proc[r] = "ending" /\ fin[r] = "end"
        /\ \A q \in Recordings : /\ proc'[q] = IF q = r THEN "none" ELSE proc[q]
                                 /\ fin'[q] = IF q = r THEN "none" ELSE fin[q]
    BY <1>1, <1>4 DEF Unregister, SetFin, SameQueue, queueVars, rows
  <2>2. worker \in {"polling", "stopping"} /\ todo = {}
    BY <1>1, <1>2, <2>1 DEF Memory
  <2>3. Memory'
    BY <1>2, <2>1, <2>2 DEF Memory, SameQueue
  <2>4. NothingLost' => \A q \in Recordings : Busy(q) => q # r /\ Ender(q)'
    BY <1>2, <2>1 DEF SameQueue, NothingLost, Ender, Ids, Starts, Target
  <2> QED
    BY <2>1, <2>2, <2>3, <2>4, ScopeMoves
<1>5. CASE Scan
  <2>1. /\ SameQueue /\ UNCHANGED <<rec, path, tsRow, disk, hpc, proc, fin>>
        /\ worker = "recovering" /\ ~scanned /\ scanned'
        /\ \/ todo' = ActiveSet /\ lost' = lost
           \/ todo' = {} /\ lost' # 0
    BY <1>1, <1>5 DEF Scan, ToRecover, Stored, Lose, SameQueue, queueVars, rows
  <2>2. Memory'
    BY <1>2, <2>1 DEF Memory, SameQueue
  <2>3. NothingLost' => \A q \in Recordings : Busy(q) => Ender(q)'
    BY <2>1 DEF SameQueue, NothingLost, Ender, ActiveSet, Busy
  <2>4. \A q \in Recordings : q \in todo' => Busy(q)
    BY <2>1 DEF ActiveSet, Busy
  <2> QED
    BY <2>1, <2>2, <2>3, <2>4, ScopeMoves
<1>6. CASE Recover(r)
  <2>1. /\ SameQueue
        /\ UNCHANGED <<rec, path, tsRow, disk, hpc, proc, todo, scanned, lost>>
        /\ worker = "recovering" /\ r \in todo /\ fin[r] = "none"
        /\ fin'[r] \in {"closing", "failing"} /\ (fin'[r] = "closing" => r \in path)
        /\ \A q \in Recordings : q # r => fin'[q] = fin[q]
    BY <1>1, <1>6 DEF Recover, Idle, SetFin, Finalizing, SameQueue, queueVars, rows
  <2>2. Busy(r) /\ (stops = 0 => fin'[r] # "closing")
    BY <1>2, <2>1 DEF Ending, IInv, Rest, FirstBoot
  <2>3. Memory'
    BY <1>2, <2>1 DEF Memory, SameQueue
  <2>4. NothingLost' => \A q \in Recordings : Busy(q) => Ender(q)'
    BY <1>2, <2>1 DEF SameQueue, NothingLost, Ender, Ids, Starts, Target
  <2>5. \A q \in Recordings : q \in todo /\ fin'[q] = "none" => Busy(q)
    BY <1>2, <2>1 DEF Ending
  <2> QED
    BY <2>1, <2>2, <2>3, <2>4, <2>5, ScopeMoves
<1>7. CASE Recovered(r)
  <2>1. /\ SameQueue
        /\ UNCHANGED <<rec, path, tsRow, disk, hpc, proc, scanned, lost>>
        /\ worker = "recovering" /\ fin[r] = "end" /\ todo' = todo \ {r}
        /\ \A q \in Recordings : fin'[q] = IF q = r THEN "none" ELSE fin[q]
    BY <1>1, <1>7 DEF Recovered, SetFin, SameQueue, queueVars, rows
  <2>2. Memory'
    BY <1>2, <2>1 DEF Memory, SameQueue
  <2>3. NothingLost' => \A q \in Recordings : Busy(q) => Ender(q)'
    BY <1>2, <2>1 DEF SameQueue, NothingLost, Ender, Ids, Starts, Target
  <2>4. \A q \in Recordings : q \in todo' /\ fin'[q] = "none" => Busy(q)
    BY <1>2, <2>1 DEF Ending
  <2> QED
    BY <2>1, <2>2, <2>3, <2>4, ScopeMoves
<1> QED
  BY <1>3, <1>4, <1>5, <1>6, <1>7


-----------------------------------------------------------------------------

Statuses  == Active \cup Terminal \cup {"none"}
Places    == {"none", "begin", "register", "refuse", "ok", "error"}
FinPlaces == {"none", "closing", "probing", "renaming", "saving", "marking", "queueing",
              "failing", "end"}

LEMMA SetTypes ==
    ASSUME TypeOK
    PROVE  /\ rec \in [Recordings -> Statuses] /\ hpc \in [1..MaxCommands -> Places]
           /\ fin \in [Recordings -> FinPlaces]
           /\ \A r, s : s \in Statuses /\ SetRec(r, s) => rec' \in [Recordings -> Statuses]
           /\ \A i, p : p \in Places /\ Goto(i, p) => hpc' \in [1..MaxCommands -> Places]
           /\ \A r, p : p \in FinPlaces /\ SetFin(r, p) => fin' \in [Recordings -> FinPlaces]
           /\ Lose \/ Stored => lost' \in 0..MaxLost
           /\ UNCHANGED queueVars => Queue!TypeOK'
<1>1. /\ rec \in [Recordings -> Statuses] /\ hpc \in [1..MaxCommands -> Places]
      /\ fin \in [Recordings -> FinPlaces] /\ lost \in 0..MaxLost
  BY Types DEF Statuses, Places, FinPlaces
<1>2. \A r, s : s \in Statuses /\ SetRec(r, s) => rec' \in [Recordings -> Statuses]
  BY <1>1 DEF SetRec
<1>3. \A i, p : p \in Places /\ Goto(i, p) => hpc' \in [1..MaxCommands -> Places]
  BY <1>1 DEF Goto
<1>4. \A r, p : p \in FinPlaces /\ SetFin(r, p) => fin' \in [Recordings -> FinPlaces]
  BY <1>1 DEF SetFin
<1>5. Lose \/ Stored => lost' \in 0..MaxLost
  BY <1>1, BoundsAssumption DEF Lose, Stored
<1>6. UNCHANGED queueVars => Queue!TypeOK'
  BY DEF queueVars, TypeOK, Queue!TypeOK, Queue!Ids
<1> QED
  BY <1>1, <1>2, <1>3, <1>4, <1>5, <1>6

\* TypeOK', with the sets named.
LEMMA TypesNext ==
    ASSUME Queue!TypeOK', rec' \in [Recordings -> Statuses],
           disk' \in [Recordings -> Files],
           path' \subseteq Recordings, tsRow' \subseteq Recordings,
           hpc' \in [1..MaxCommands -> Places],
           proc' \in [Recordings -> {"none", "run", "ending"}],
           fin' \in [Recordings -> FinPlaces],
           stop' \subseteq Recordings, todo' \subseteq Recordings,
           asked' \subseteq Recordings, scanned' \in BOOLEAN, lost' \in 0..MaxLost
    PROVE  TypeOK'
  BY Zenon DEF TypeOK, Statuses, Places, FinPlaces, Files

LEMMA WebTypes == ASSUME IInv, Api PROVE TypeOK'
<1>1. PICK r \in Recordings :
         StartRecording(r) \/ AskStop(r) \/ InsertStop(r) \/ QueueMP4(r)
  BY DEF Api
<1>2. UNCHANGED <<disk, path, tsRow, hpc, proc, fin, stop, todo, scanned, lost>>
  BY <1>1 DEF StartRecording, AskStop, InsertStop, QueueMP4, rows, memory
<1>3. Queue!TypeOK'
  <2>1. QueueOK
    BY Types DEF IInv, QueueOK
  <2>2. \/ UNCHANGED queueVars
        \/ \E k \in Queue!Kinds : Queue!Enqueue(k, r)
    BY <1>1 DEF StartRecording, AskStop, InsertStop, QueueMP4, Queue!Kinds
  <2> QED
    BY <2>1, <2>2, QueueGrows, SetTypes DEF IInv, QueueOK
<1>4. rec' \in [Recordings -> Statuses]
  <2>1. rec' = rec \/ SetRec(r, "waiting_input")
    BY <1>1 DEF StartRecording, AskStop, InsertStop, QueueMP4, rows
  <2>2. "waiting_input" \in Statuses
    BY DEF Statuses, Active
  <2> QED
    BY <2>1, <2>2, SetTypes DEF IInv
<1>5. asked' \subseteq Recordings
  BY <1>1, Types DEF StartRecording, AskStop, InsertStop, QueueMP4, IInv
<1> QED
  BY <1>2, <1>3, <1>4, <1>5, Types, SetTypes, TypesNext DEF IInv

LEMMA HandlerTypes ==
    ASSUME IInv, NEW i \in Ids,
           \/ StartChecks(i) \/ StartRefused(i) \/ StartFails(i) \/ StartRegisters(i)
           \/ StopHandled(i)
    PROVE  TypeOK'
<1>0. Target(i) \in Recordings
  BY Types DEF IInv
<1>1. UNCHANGED <<tsRow, fin, todo, scanned, asked>> /\ Queue!TypeOK'
  <2>1. UNCHANGED <<tsRow, fin, todo, scanned, asked>> /\ UNCHANGED queueVars
    BY DEF StartChecks, StartRefused, StartFails, StartRegisters, StopHandled, rows
  <2> QED
    BY <2>1, SetTypes DEF IInv
<1>2. hpc' \in [1..MaxCommands -> Places]
  <2>1. \E p \in Places : Goto(i, p)
    BY DEF StartChecks, StartRefused, StartFails, StartRegisters, StopHandled, Places
  <2> QED
    BY <2>1, SetTypes DEF IInv
<1>3. rec' \in [Recordings -> Statuses]
  <2>1. rec' = rec \/ SetRec(Target(i), "failed")
    BY DEF StartChecks, StartRefused, StartFails, StartRegisters, StopHandled, rows, Target
  <2>2. "failed" \in Statuses
    BY DEF Statuses, Terminal
  <2> QED
    BY <2>1, <2>2, SetTypes DEF IInv
<1>4. path' \subseteq Recordings /\ stop' \subseteq Recordings
  BY <1>0, Types
  DEF StartChecks, StartRefused, StartFails, StartRegisters, StopHandled, rows, Target, IInv
<1>5. proc' \in [Recordings -> {"none", "run", "ending"}]
  <2>1. proc \in [Recordings -> {"none", "run", "ending"}]
    BY Types DEF IInv
  <2>2. proc' = proc \/ proc' = [proc EXCEPT ![Target(i)] = "run"]
    BY DEF StartChecks, StartRefused, StartFails, StartRegisters, StopHandled, Target
  <2> QED
    BY <1>0, <2>1, <2>2
<1>6. lost' \in 0..MaxLost
  <2>1. lost' = lost \/ Lose \/ Stored
    BY DEF StartChecks, StartRefused, StartFails, StartRegisters, StopHandled
  <2> QED
    BY <2>1, Types, SetTypes DEF IInv
<1>7. disk' \in [Recordings -> Files]
  <2>1. disk \in [Recordings -> Files]
    BY Types DEF IInv
  <2>2. disk' = disk \/ \E f \in Files : disk' = [disk EXCEPT ![Target(i)] = f]
    <3>1. CASE StartRegisters(i)
      BY <1>0, <2>1, <3>1 DEF StartRegisters, Target, Files
    <3>2. CASE ~StartRegisters(i)
      BY <3>2 DEF StartChecks, StartRefused, StartFails, StopHandled
    <3> QED
      BY <3>1, <3>2
  <2> QED
    BY <1>0, <2>1, <2>2
<1> QED
  BY <1>1, <1>2, <1>3, <1>4, <1>5, <1>6, <1>7, Types, SetTypes, TypesNext DEF IInv

LEMMA QueueTypes ==
    ASSUME IInv,
           \/ \E i \in Ids : Claim(i) \/ Complete(i)
           \/ QueueOnly \/ SettingsTick \/ Shutdown \/ RecoveryDone \/ Restart \/ Die
    PROVE  TypeOK'
<1>0. QueueOK
  BY Types DEF IInv, QueueOK
<1>1. Queue!TypeOK'
  <2>1. ASSUME NEW i \in Ids, Claim(i) PROVE Queue!TypeOK'
    BY <1>0, <2>1, QueueClaims DEF Claim, QueueOK
  <2>2. ASSUME NEW i \in Ids, Complete(i) PROVE Queue!TypeOK'
    BY <1>0, <2>2, QueueCompletes DEF Complete, QueueOK
  <2>3. CASE QueueOnly
    BY <1>0, <2>3, QueueClaims, QueueRequeues DEF QueueOnly, QueueOK, Ids
  <2>4. CASE SettingsTick \/ Shutdown \/ RecoveryDone
    BY <1>0, <2>4, QueueGoesOn DEF SettingsTick, Shutdown, RecoveryDone, QueueOK
  <2>5. CASE Restart
    BY <1>0, <2>5, QueueStarts DEF Restart, QueueOK
  <2>6. CASE Die
    BY <1>0, <2>6, QueueDies DEF Die, QueueOK
  <2> QED
    BY <2>1, <2>2, <2>3, <2>4, <2>5, <2>6
<1>2. UNCHANGED <<rec, path, tsRow, disk, asked, lost>>
  BY DEF Claim, Complete, QueueOnly, SettingsTick, Shutdown, RecoveryDone, Restart, Die, rows
<1>3. hpc' \in [1..MaxCommands -> Places]
  <2>1. \/ hpc' = hpc \/ hpc' = [i \in 1..MaxCommands |-> "none"]
        \/ \E i \in Ids : Goto(i, "begin") \/ Goto(i, "none")
    BY DEF Claim, Complete, QueueOnly, SettingsTick, Shutdown, RecoveryDone, Restart, Die,
           MemoryLost, memory
  <2>2. "begin" \in Places /\ "none" \in Places
    BY DEF Places
  <2> QED
    BY <2>1, <2>2, SetTypes DEF IInv
<1>4. stop' \subseteq Recordings /\ todo' \subseteq Recordings /\ scanned' \in BOOLEAN
  <2>1. /\ stop' \in {stop, stop \cup Registered, {}} /\ todo' \in {todo, {}}
        /\ (scanned' <=> scanned) \/ ~scanned'
    BY DEF Claim, Complete, QueueOnly, SettingsTick, Shutdown, RecoveryDone, Restart, Die,
           MemoryLost, memory
  <2>2. scanned' \in BOOLEAN
    BY Types DEF Claim, Complete, QueueOnly, SettingsTick, Shutdown, RecoveryDone, Restart,
       Die, MemoryLost, memory, IInv
  <2> QED
    BY <2>1, <2>2, Types DEF IInv, Registered
<1>5. /\ proc' \in [Recordings -> {"none", "run", "ending"}]
      /\ fin' \in [Recordings -> FinPlaces]
  <2>1. \/ UNCHANGED <<proc, fin>>
        \/ /\ proc' = [r \in Recordings |-> "none"]
           /\ fin' = [r \in Recordings |-> "none"]
    BY DEF Claim, Complete, QueueOnly, SettingsTick, Shutdown, RecoveryDone, Restart, Die,
           MemoryLost, memory
  <2>2. "none" \in FinPlaces
    BY DEF FinPlaces
  <2> QED
    BY <2>1, <2>2, Types, SetTypes DEF IInv
<1> QED
  BY <1>1, <1>2, <1>3, <1>4, <1>5, Types, SetTypes, TypesNext DEF IInv


LEMMA FinTypes ==
    ASSUME IInv, NEW r \in Recordings,
           \/ FinClose(r) \/ FinSave(r) \/ FinReady(r) \/ FinFail(r) \/ FinQueueMP4(r)
           \/ \E ok \in BOOLEAN : FinProbe(r, ok) \/ FinRename(r, ok)
    PROVE  TypeOK'
<1>1. UNCHANGED <<path, hpc, proc, stop, todo, scanned, asked>>
  BY DEF FinClose, FinSave, FinReady, FinFail, FinQueueMP4, FinProbe, FinRename, rows
<1>2. Queue!TypeOK'
  <2>1. QueueOK
    BY Types DEF IInv, QueueOK
  <2>2. UNCHANGED queueVars \/ Queue!Enqueue("generate_mp4", r)
    BY DEF FinClose, FinSave, FinReady, FinFail, FinQueueMP4, FinProbe, FinRename
  <2>3. "generate_mp4" \in Queue!Kinds
    BY DEF Queue!Kinds
  <2> QED
    BY <2>1, <2>2, <2>3, QueueGrows, SetTypes DEF IInv, QueueOK
<1>3. rec' \in [Recordings -> Statuses]
  <2>1. rec' = rec \/ \E s \in Statuses : SetRec(r, s)
    BY DEF FinClose, FinSave, FinReady, FinFail, FinQueueMP4, FinProbe, FinRename, rows,
           Statuses, Active, Terminal
  <2> QED
    BY <2>1, SetTypes DEF IInv
<1>4. fin' \in [Recordings -> FinPlaces]
  <2>1. \E p \in FinPlaces : SetFin(r, p)
    BY DEF FinClose, FinSave, FinReady, FinFail, FinQueueMP4, FinProbe, FinRename, FinPlaces,
           AfterReady, AfterSaveError
  <2> QED
    BY <2>1, SetTypes DEF IInv
<1>5. /\ disk' \in [Recordings -> Files]
      /\ tsRow' \subseteq Recordings
  <2>1. /\ disk' = disk \/ disk' = [disk EXCEPT ![r] = "final"]
        /\ tsRow' \in {tsRow, tsRow \cup {r}}
    BY DEF FinClose, FinSave, FinReady, FinFail, FinQueueMP4, FinProbe, FinRename, rows
  <2> QED
    BY <2>1, Types DEF IInv, Files
<1>6. lost' \in 0..MaxLost
  <2>1. lost' = lost \/ Lose \/ Stored
    BY DEF FinClose, FinSave, FinReady, FinFail, FinQueueMP4, FinProbe, FinRename
  <2> QED
    BY <2>1, Types, SetTypes DEF IInv
<1> QED
  BY <1>1, <1>2, <1>3, <1>4, <1>5, <1>6, Types, SetTypes, TypesNext DEF IInv

LEMMA GoroutineTypes ==
    ASSUME IInv, NEW r \in Recordings,
           \/ Media(r) \/ Started(r) \/ RunEnds(r) \/ Unregister(r) \/ DiskGuard
           \/ Scan \/ Recover(r) \/ Recovered(r) \/ UNCHANGED vars
    PROVE  TypeOK'
<1>1. UNCHANGED <<path, tsRow, hpc>> /\ Queue!TypeOK'
  <2>1. UNCHANGED <<path, tsRow, hpc>> /\ UNCHANGED queueVars
    BY DEF Media, Started, RunEnds, Unregister, DiskGuard, Scan, Recover, Recovered, rows,
           memory, vars
  <2> QED
    BY <2>1, SetTypes DEF IInv
<1>2. rec' \in [Recordings -> Statuses]
  <2>1. rec' = rec \/ SetRec(r, "recording")
    BY DEF Media, Started, RunEnds, Unregister, DiskGuard, Scan, Recover, Recovered, rows, vars
  <2>2. "recording" \in Statuses
    BY DEF Statuses, Active
  <2> QED
    BY <2>1, <2>2, SetTypes DEF IInv
<1>3. fin' \in [Recordings -> FinPlaces]
  <2>1. fin' = fin \/ \E p \in FinPlaces : SetFin(r, p)
    BY DEF Media, Started, RunEnds, Unregister, DiskGuard, Scan, Recover, Recovered, memory,
           vars, FinPlaces, Finalizing
  <2> QED
    BY <2>1, SetTypes DEF IInv
<1>4. /\ disk' \in [Recordings -> Files]
      /\ proc' \in [Recordings -> {"none", "run", "ending"}]
  <2>1. /\ disk' = disk \/ \E f \in Files : disk' = [disk EXCEPT ![r] = f]
        /\ \/ proc' = proc \/ proc' = [proc EXCEPT ![r] = "ending"]
           \/ proc' = [proc EXCEPT ![r] = "none"]
    BY DEF Media, Started, RunEnds, Unregister, DiskGuard, Scan, Recover, Recovered, memory,
           vars, Files
  <2> QED
    BY <2>1, Types DEF IInv
<1>5. stop' \subseteq Recordings /\ todo' \subseteq Recordings /\ asked' \subseteq Recordings
  BY Types
  DEF Media, Started, RunEnds, Unregister, DiskGuard, Scan, Recover, Recovered, memory, vars,
      Registered, ToRecover, ActiveSet, IInv
<1>6. scanned' \in BOOLEAN
  <2>1. CASE Scan
    BY <2>1 DEF Scan
  <2>2. CASE ~Scan
    BY <2>2, Types
    DEF Media, Started, RunEnds, Unregister, DiskGuard, Recover, Recovered, memory, vars, IInv
  <2> QED
    BY <2>1, <2>2
<1>7. lost' \in 0..MaxLost
  <2>1. lost' = lost \/ Lose \/ Stored
    BY DEF Media, Started, RunEnds, Unregister, DiskGuard, Scan, Recover, Recovered, vars
  <2> QED
    BY <2>1, Types, SetTypes DEF IInv
<1> QED
  BY <1>1, <1>2, <1>3, <1>4, <1>5, <1>6, <1>7, Types, SetTypes, TypesNext DEF IInv

\* What can happen, as the lemmas above divide it.
LEMMA StepCases ==
    ASSUME [Next]_vars
    PROVE  \/ Api
           \/ \E i \in Ids : \/ StartChecks(i) \/ StartRefused(i) \/ StartFails(i)
                             \/ StartRegisters(i) \/ StopHandled(i)
           \/ \/ \E i \in Ids : Claim(i) \/ Complete(i)
              \/ QueueOnly \/ SettingsTick \/ Shutdown \/ RecoveryDone
           \/ Restart \/ Die
           \/ \E r \in Recordings : FinalizeStep(r)
           \/ \E r \in Recordings :
                 RunEnds(r) \/ Unregister(r) \/ Scan \/ Recover(r) \/ Recovered(r)
           \/ \E r \in Recordings : Media(r) \/ Started(r)
           \/ DiskGuard \/ UNCHANGED vars
<1>1. PICK r : r \in Recordings
  BY RecordingsAssumption
<1> QED
  BY <1>1 DEF Next, HandlerStep, RecoveryStep, Ids

LEMMA StepTypeOK == IInv /\ [Next]_vars => TypeOK'
<1> SUFFICES ASSUME IInv, [Next]_vars PROVE TypeOK'
  OBVIOUS
<1>1. PICK r : r \in Recordings
  BY RecordingsAssumption
<1>2. ASSUME NEW q \in Recordings, FinalizeStep(q) PROVE TypeOK'
  BY <1>2, FinTypes DEF FinalizeStep
<1> QED
  BY <1>1, <1>2, StepCases, WebTypes, HandlerTypes, QueueTypes, GoroutineTypes

LEMMA InitIInv == Init => IInv
<1> SUFFICES ASSUME Init PROVE IInv
  OBVIOUS
<1>1. /\ commands = <<>> /\ handlers = {} /\ requeue = 0 /\ worker = "down"
      /\ path = {} /\ tsRow = {} /\ todo = {} /\ ~scanned
      /\ \A r \in Recordings : /\ rec[r] = "none" /\ disk[r] = "none"
                               /\ proc[r] = "none" /\ fin[r] = "none"
  BY DEF Init, Queue!Init
<1>2. Ids = {}
  BY <1>1 DEF Ids
<1>3. TypeOK
  <2>1. Queue!TypeOK
    BY <1>1, BoundsAssumption DEF Init, Queue!Init, Queue!TypeOK, Queue!Ids
  <2>2. /\ rec \in [Recordings -> Statuses] /\ hpc \in [1..MaxCommands -> Places]
        /\ fin \in [Recordings -> FinPlaces]
    BY DEF Init, Statuses, Places, FinPlaces
  <2>3. /\ disk \in [Recordings -> Files]
        /\ proc \in [Recordings -> {"none", "run", "ending"}]
        /\ path \subseteq Recordings /\ tsRow \subseteq Recordings
        /\ stop \subseteq Recordings /\ todo \subseteq Recordings
        /\ asked \subseteq Recordings /\ scanned \in BOOLEAN
    BY DEF Init, Files
  <2>4. lost \in 0..MaxLost
    BY BoundsAssumption DEF Init
  <2> QED
    BY <2>1, <2>2, <2>3, <2>4, Zenon DEF TypeOK, Statuses, Places, FinPlaces, Files
<1>4. \A r \in Recordings : ~Busy(r)
  BY <1>1 DEF Busy, Active
<1>5. QueueOwns /\ Memory /\ OneStart /\ StartFirst /\ Running
  BY <1>1, <1>2 DEF QueueOwns, Memory, OneStart, StartFirst, Running
<1>6. OneStream /\ Ending /\ FirstBoot /\ StoredFirst /\ Owned
  BY <1>1, <1>2, <1>4 DEF OneStream, Ending, FirstBoot, StoredFirst, Owned, Before
<1> QED
  BY <1>3, <1>5, <1>6 DEF IInv, Rest

LEMMA StepIInv == IInv /\ [Next]_vars => IInv'
<1> SUFFICES ASSUME IInv, [Next]_vars PROVE IInv'
  OBVIOUS
<1>0. TypeOK'
  BY StepTypeOK
<1>1. CASE Api
  <2>1. PICK r \in Recordings :
           StartRecording(r) \/ AskStop(r) \/ InsertStop(r) \/ QueueMP4(r)
    BY <1>1 DEF Api
  <2> QED
    BY <1>0, <2>1, StartRecordingPreserves, MediaPreserves, InsertsPreserve
<1>2. ASSUME NEW i \in Ids,
             \/ StartChecks(i) \/ StartRefused(i) \/ StartFails(i)
             \/ StartRegisters(i) \/ StopHandled(i)
      PROVE  IInv'
  BY <1>0, <1>2, HandlingPreserves, StartFailsPreserves, StartRegistersPreserves
<1>3. CASE \/ \E i \in Ids : Claim(i) \/ Complete(i)
           \/ QueueOnly \/ SettingsTick \/ Shutdown \/ RecoveryDone
  BY <1>0, <1>3, QueuePreserves
<1>4. CASE Restart \/ Die
  BY <1>0, <1>4, RestartPreserves, DiePreserves
<1>5. ASSUME NEW r \in Recordings, FinalizeStep(r) PROVE IInv'
  <2>1. FinQueueMP4(r) => \/ UNCHANGED queueVars
                          \/ Convertible(r) /\ Queue!Enqueue("generate_mp4", r) /\ Stored
    BY DEF FinQueueMP4
  <2> QED
    BY <1>0, <1>5, <2>1, FinPreserves, InsertsPreserve DEF FinalizeStep
<1>6. ASSUME NEW r \in Recordings,
             RunEnds(r) \/ Unregister(r) \/ Scan \/ Recover(r) \/ Recovered(r)
      PROVE  IInv'
  BY <1>0, <1>6, ScopesPreserve
<1>7. CASE (\E r \in Recordings : Media(r) \/ Started(r)) \/ DiskGuard \/ UNCHANGED vars
  BY <1>0, <1>7, MediaPreserves
<1> QED
  BY <1>1, <1>2, <1>3, <1>4, <1>5, <1>6, <1>7, StepCases

LEMMA IInvSays == IInv => ReadyHasFile /\ ActiveIsOwned
<1> SUFFICES ASSUME IInv PROVE ReadyHasFile /\ ActiveIsOwned
  OBVIOUS
<1>1. ReadyHasFile
  <2>1. \A r \in Recordings : \A i \in Of(r, "generate_mp4") :
           i \in Ids /\ commands[i].kind = "generate_mp4" /\ Target(i) = r
    BY DEF Of, Ids, Target
  <2>2. \A i \in Ids : Target(i) \in Recordings
    BY Types DEF IInv
  <2>3. stops # 0 => stops > 0
    BY BoundsAssumption DEF IInv, TypeOK, Queue!TypeOK
  <2> QED
    BY <2>1, <2>2, <2>3 DEF IInv, Rest, StoredFirst, ReadyHasFile
<1>2. ActiveIsOwned
  <2> SUFFICES ASSUME NothingLost, worker = "polling", NEW r \in Recordings, Busy(r)
               PROVE  \/ proc[r] # "none"
                      \/ \E i \in Of(r, "start_recording") : Unfinished(i)
    BY DEF ActiveIsOwned, Busy
  <2>1. Ender(r)
    BY DEF IInv, Rest, Owned
  <2> QED
    BY <2>1 DEF Ender, Of, Unfinished, Open, Starts, Target, Ids
<1> QED
  BY <1>1, <1>2

\* The invariant holds in every reachable state.
THEOREM LifecycleInvariant == Spec => []IInv
<1>1. Init => IInv
  BY InitIInv
<1>2. IInv /\ [Next]_vars => IInv'
  BY StepIInv
<1> QED
  BY <1>1, <1>2, PTL DEF Spec

\* Every variable, the queue's rows included, keeps its type.
THEOREM LifecycleTypeOK == Spec => []TypeOK
<1>1. IInv => TypeOK
  BY DEF IInv
<1> QED
  BY <1>1, LifecycleInvariant, PTL

\* "ready" is never stored before the final file and its row, nor is a conversion
\* queued for a recording without them (worker.go:478-504, store_recordings.go:83).
THEOREM LifecycleReadyHasFile == Spec => []ReadyHasFile
<1>1. IInv => ReadyHasFile
  BY IInvSays
<1> QED
  BY <1>1, LifecycleInvariant, PTL

\* Unless a write is lost, an active row has a start that will be handled or a goroutine
\* that will end it, whenever the worker polls: recovery leaves none behind
\* (worker.go:638-652).
THEOREM LifecycleActiveIsOwned == Spec => []ActiveIsOwned
<1>1. IInv => ActiveIsOwned
  BY IInvSays
<1> QED
  BY <1>1, LifecycleInvariant, PTL

-----------------------------------------------------------------------------

\* What RowsFollowContract speaks of: the worker has not stopped, no write was lost.
Quiet == stops = 0 /\ NothingLost

\* Then where finalizeRecording is tells the row's status, and a started row has its
\* goroutine.
Told(r) ==
    /\ fin[r] \in {"probing", "renaming", "saving", "marking"} => rec[r] = "finalizing"
    /\ fin[r] = "failing" => rec[r] \in {"waiting_input", "finalizing"}
    /\ rec[r] \in {"recording", "finalizing"} => proc[r] # "none"

Follows == Quiet => \A r \in Recordings : Told(r)

Contract(r) ==
    \/ rec'[r] = rec[r]
    \/ rec[r] = "waiting_input" /\ rec'[r] = "recording"
    \/ rec[r] \in {"waiting_input", "recording"} /\ rec'[r] = "finalizing"
    \/ rec[r] = "finalizing" /\ rec'[r] = "ready"
    \/ rec[r] \in {"waiting_input", "finalizing"} /\ rec'[r] = "failed"

\* Where a recording that moves may get.
Moved(r) == Told(r)' /\ (rec[r] # "none" => Contract(r))

\* The steps that move a recording, its row, its file or its goroutine; the others
\* stay as they are.
Moves(r) ==
    \/ StartRecording(r) \/ Media(r) \/ Started(r) \/ FinalizeStep(r)
    \/ RunEnds(r) \/ Unregister(r) \/ Recover(r) \/ Recovered(r)
    \/ \E i \in Ids : Target(i) = r /\ (StartFails(i) \/ StartRegisters(i))

Still(r) == /\ rec'[r] = rec[r] /\ fin'[r] = fin[r]
            /\ proc'[r] = proc[r] /\ disk'[r] = disk[r]

LEMMA OthersStay ==
    ASSUME IInv, NEW r \in Recordings, Moves(r)
    PROVE  \A q \in Recordings : q # r => Still(q)
<1>1. /\ rec \in [Recordings -> Active \cup Terminal \cup {"none"}]
      /\ disk \in [Recordings -> Files]
      /\ proc \in [Recordings -> {"none", "run", "ending"}]
      /\ fin \in [Recordings -> {"none", "closing", "probing", "renaming", "saving",
                                 "marking", "queueing", "failing", "end"}]
  BY Types DEF IInv
<1>2. CASE StartRecording(r) \/ Media(r) \/ Started(r)
  BY <1>1, <1>2 DEF StartRecording, Media, Started, SetRec, rows, memory, Still
<1>3. CASE FinClose(r) \/ FinSave(r) \/ FinReady(r) \/ FinFail(r) \/ FinQueueMP4(r)
  BY <1>1, <1>3
  DEF FinClose, FinSave, FinReady, FinFail, FinQueueMP4, SetRec, SetFin, rows, Still
<1>4. CASE \E ok \in BOOLEAN : FinProbe(r, ok) \/ FinRename(r, ok)
  BY <1>1, <1>4 DEF FinProbe, FinRename, SetFin, rows, Still
<1>5. CASE RunEnds(r) \/ Unregister(r) \/ Recover(r) \/ Recovered(r)
  BY <1>1, <1>5 DEF RunEnds, Unregister, Recover, Recovered, SetFin, rows, Still
<1>6. ASSUME NEW i \in Ids, Target(i) = r, StartFails(i) \/ StartRegisters(i)
      PROVE  \A q \in Recordings : q # r => Still(q)
  BY <1>1, <1>6 DEF StartFails, StartRegisters, SetRec, rows, Target, Still
<1> QED
  BY <1>2, <1>3, <1>4, <1>5, <1>6 DEF Moves, FinalizeStep

LEMMA OneMoves ==
    ASSUME IInv, [Next]_vars
    PROVE  \/ \E r \in Recordings : Moves(r)
           \/ \A q \in Recordings : Still(q)
           \/ Die
<1> DEFINE Goal == \/ \E r \in Recordings : Moves(r)
                   \/ \A q \in Recordings : Still(q)
                   \/ Die
<1>1. CASE Api
  <2>1. PICK r \in Recordings :
           StartRecording(r) \/ AskStop(r) \/ InsertStop(r) \/ QueueMP4(r)
    BY <1>1 DEF Api
  <2> QED
    BY <2>1 DEF AskStop, InsertStop, QueueMP4, rows, memory, Moves, Still
<1>2. ASSUME NEW i \in Ids,
             \/ StartChecks(i) \/ StartRefused(i) \/ StartFails(i)
             \/ StartRegisters(i) \/ StopHandled(i)
      PROVE  Goal
  <2>1. Target(i) \in Recordings
    BY Types DEF IInv
  <2> QED
    BY <1>2, <2>1 DEF StartChecks, StartRefused, StopHandled, rows, Moves, Still
<1>3. CASE \/ \E i \in Ids : Claim(i) \/ Complete(i)
           \/ QueueOnly \/ SettingsTick \/ Shutdown \/ RecoveryDone
  BY <1>3
  DEF Claim, Complete, QueueOnly, SettingsTick, Shutdown, RecoveryDone, rows, memory, Still
<1>4. CASE Restart \/ Die
  BY <1>4 DEF Restart, rows, memory, Still
<1>5. CASE \E r \in Recordings : FinalizeStep(r) \/ Media(r) \/ Started(r)
  BY <1>5 DEF Moves
<1>6. CASE \E r \in Recordings :
              RunEnds(r) \/ Unregister(r) \/ Scan \/ Recover(r) \/ Recovered(r)
  BY <1>6 DEF Scan, rows, Moves, Still
<1>7. CASE DiskGuard \/ UNCHANGED vars
  BY <1>7 DEF DiskGuard, vars, rows, memory, Still
<1> QED
  BY <1>1, <1>2, <1>3, <1>4, <1>5, <1>6, <1>7, StepCases

\* Stops and lost writes are only ever counted up.
LEMMA CountsUp ==
    ASSUME IInv, [Next]_vars
    PROVE  /\ Quiet' => Quiet
           /\ NothingLost' => NothingLost
           /\ (stops' = 0 => stops = 0) /\ (lost' = 0 => lost = 0)
<1> DEFINE Up == /\ stops' = stops \/ stops' # 0
                 /\ faults' = faults \/ faults' # 0
                 /\ lost' = lost \/ lost' # 0
<1>0. /\ stops \in Nat /\ faults \in Nat /\ lost \in Nat /\ QueueOK
  BY BoundsAssumption DEF IInv, TypeOK, Queue!TypeOK, QueueOK
<1>1. ASSUME Api PROVE Up
  <2>1. PICK r \in Recordings :
           StartRecording(r) \/ AskStop(r) \/ InsertStop(r) \/ QueueMP4(r)
    BY <1>1 DEF Api
  <2> QED
    BY <1>0, <2>1
    DEF StartRecording, AskStop, InsertStop, QueueMP4, Queue!Enqueue, queueVars
<1>2. ASSUME NEW i \in Ids,
             \/ StartChecks(i) \/ StartRefused(i) \/ StartFails(i)
             \/ StartRegisters(i) \/ StopHandled(i)
      PROVE  Up
  BY <1>0, <1>2
  DEF StartChecks, StartRefused, StartFails, StartRegisters, StopHandled, queueVars, Lose,
      Stored
<1>3. ASSUME NEW i \in Ids, Claim(i) \/ Complete(i) PROVE Up
  <2>1. lost' = lost
    BY <1>3 DEF Claim, Complete
  <2>2. \/ Queue!Dispatch(i)
        \/ \E o \in {"done", "failed"} : Queue!HandlerReturns(i, o)
        \/ Queue!CompletionLost(i)
    BY <1>3 DEF Claim, Complete
  <2> QED
    BY <1>0, <2>1, <2>2, QueueClaims, QueueCompletes
<1>4. ASSUME QueueOnly \/ SettingsTick \/ Shutdown \/ RecoveryDone \/ Restart \/ Die
      PROVE  Up
  <2>1. lost' = lost
    BY <1>4 DEF QueueOnly, SettingsTick, Shutdown, RecoveryDone, Restart, Die
  <2>2. \/ Queue!Requeue \/ Queue!RequeueLost
        \/ \E i \in Ids : Queue!ClaimWithoutSlot(i) \/ Queue!ClaimUncertain(i)
        \/ \E l \in Queue!Limits : Queue!SettingsTick(l)
        \/ Queue!Shutdown \/ Queue!RecoveryDone
        \/ \E l \in Queue!Limits : Queue!Restart(l)
        \/ Queue!Crash \/ Queue!Exit
    BY <1>4 DEF QueueOnly, SettingsTick, Shutdown, RecoveryDone, Restart, Die, Ids
  <2>3. CASE Queue!Requeue \/ Queue!RequeueLost
    BY <1>0, <2>1, <2>3, QueueRequeues
  <2>4. CASE \E i \in Ids : Queue!ClaimWithoutSlot(i) \/ Queue!ClaimUncertain(i)
    BY <1>0, <2>1, <2>4, QueueClaims
  <2>5. CASE \/ \E l \in Queue!Limits : Queue!SettingsTick(l)
             \/ Queue!Shutdown \/ Queue!RecoveryDone
    BY <1>0, <2>1, <2>5, QueueGoesOn
  <2>6. CASE Queue!Crash \/ Queue!Exit
    BY <1>0, <2>1, <2>6, QueueDies
  <2>7. CASE \E l \in Queue!Limits : Queue!Restart(l)
    BY <1>0, <2>1, <2>7, QueueStarts
  <2> QED
    BY <2>2, <2>3, <2>4, <2>5, <2>6, <2>7
<1>5. ASSUME NEW r \in Recordings, FinalizeStep(r) PROVE Up
  <2>1. CASE FinQueueMP4(r)
    BY <1>0, <2>1 DEF FinQueueMP4, Queue!Enqueue, queueVars, Lose, Stored
  <2>2. CASE ~FinQueueMP4(r)
    BY <1>0, <1>5, <2>2
    DEF FinalizeStep, FinClose, FinSave, FinReady, FinFail, FinProbe, FinRename, queueVars,
        Lose, Stored
  <2> QED
    BY <2>1, <2>2
<1>6. ASSUME NEW r \in Recordings,
             RunEnds(r) \/ Unregister(r) \/ Scan \/ Recover(r) \/ Recovered(r)
      PROVE  Up
  BY <1>0, <1>6 DEF RunEnds, Unregister, Scan, Recover, Recovered, queueVars, Lose, Stored
<1>7. ASSUME (\E r \in Recordings : Media(r) \/ Started(r)) \/ DiskGuard \/ UNCHANGED vars
      PROVE  Up
  BY <1>7 DEF Media, Started, DiskGuard, vars, queueVars
<1>8. Up
  BY <1>1, <1>2, <1>3, <1>4, <1>5, <1>6, <1>7, StepCases
<1> QED
  BY <1>0, <1>8 DEF Quiet, NothingLost

\* What finalizeRecording does to its recording's row.
LEMMA FinFollows ==
    ASSUME IInv, Follows, Quiet, Quiet', NEW r \in Recordings, FinalizeStep(r)
    PROVE  Moved(r)
<1>1. /\ rec \in [Recordings -> Active \cup Terminal \cup {"none"}]
      /\ disk \in [Recordings -> Files]
      /\ fin \in [Recordings -> {"none", "closing", "probing", "renaming", "saving",
                                 "marking", "queueing", "failing", "end"}]
      /\ lost \in Nat
  BY Types, BoundsAssumption DEF IInv
<1>2. Told(r)
  BY DEF Follows
<1>3. /\ fin[r] = "closing" => Busy(r)
      /\ fin[r] \notin {"none", "failing", "end"} => proc[r] = "ending"
      /\ lost' = 0
  BY DEF IInv, Rest, Ending, Before, Memory, FirstBoot, Quiet, NothingLost
<1>4. CASE FinClose(r)
  BY <1>1, <1>2, <1>3, <1>4
  DEF FinClose, SetRec, SetFin, Lose, Moved, Told, Contract, Busy, Active
<1>5. CASE \E ok \in BOOLEAN : FinProbe(r, ok) \/ FinRename(r, ok)
  BY <1>1, <1>2, <1>3, <1>5
  DEF FinProbe, FinRename, SetFin, rows, Moved, Told, Contract
<1>6. CASE FinSave(r)
  BY <1>1, <1>2, <1>3, <1>6 DEF FinSave, Lose, SetFin, Moved, Told, Contract
<1>7. CASE FinReady(r)
  BY <1>1, <1>2, <1>3, <1>7
  DEF FinReady, AfterReady, SetRec, SetFin, Lose, Moved, Told, Contract
<1>8. CASE FinQueueMP4(r)
  BY <1>1, <1>2, <1>3, <1>8
  DEF FinQueueMP4, SetFin, Lose, rows, Moved, Told, Contract
<1>9. CASE FinFail(r)
  BY <1>1, <1>2, <1>3, <1>9
  DEF FinFail, SetRec, SetFin, Lose, Moved, Told, Contract
<1> QED
  BY <1>4, <1>5, <1>6, <1>7, <1>8, <1>9 DEF FinalizeStep

\* A refused start, or one that registers its process.
LEMMA StartFollows ==
    ASSUME IInv, Follows, Quiet, Quiet', NEW r \in Recordings, NEW i \in Ids, r = Target(i),
           StartFails(i) \/ StartRegisters(i)
    PROVE  Moved(r)
<1>1. r = Target(i)
  OBVIOUS
<1>2. /\ rec \in [Recordings -> Active \cup Terminal \cup {"none"}]
      /\ proc \in [Recordings -> {"none", "run", "ending"}]
      /\ r \in Recordings /\ lost \in Nat
  BY <1>1, Types, BoundsAssumption DEF IInv
<1>3. Told(r) /\ lost' = 0
  BY <1>2 DEF Follows, Quiet, NothingLost
<1>4. /\ i \in handlers /\ Starts(i) /\ hpc[i] \in {"refuse", "register"}
  BY DEF StartFails, StartRegisters, Handling, Starts
<1>5. /\ proc[r] = "none" /\ rec[r] \notin {"none", "ready"} /\ fin[r] = "none"
      /\ hpc[i] = "register" => rec[r] = "waiting_input"
  BY <1>1, <1>2, <1>4
  DEF IInv, Rest, QueueOwns, StartFirst, OneStart, FirstBoot, Memory, Coming, Quiet
<1> QED
  BY <1>1, <1>2, <1>3, <1>4, <1>5
  DEF StartFails, StartRegisters, SetRec, Lose, Moved, Told, Contract, rows, Target,
      Active, Terminal

\* A recording's request, its data, its start, the begin and the end of its goroutine
\* and of the recovery's work on it.
LEMMA ScopeFollows ==
    ASSUME IInv, Follows, Quiet, Quiet', NEW r \in Recordings,
           \/ StartRecording(r) \/ Media(r) \/ Started(r)
           \/ RunEnds(r) \/ Unregister(r) \/ Recover(r) \/ Recovered(r)
    PROVE  Moved(r)
<1>1. /\ rec \in [Recordings -> Active \cup Terminal \cup {"none"}]
      /\ disk \in [Recordings -> Files]
      /\ proc \in [Recordings -> {"none", "run", "ending"}]
      /\ fin \in [Recordings -> {"none", "closing", "probing", "renaming", "saving",
                                 "marking", "queueing", "failing", "end"}]
  BY Types DEF IInv
<1>2. Told(r)
  BY DEF Follows
<1>3. /\ proc[r] = "run" => rec[r] \in {"waiting_input", "recording"} /\ fin[r] = "none"
      /\ rec[r] = "none" => proc[r] = "none" /\ fin[r] = "none"
      /\ fin[r] = "end" => ~Busy(r)
      /\ worker = "recovering" => proc[r] = "none" /\ path = {}
      /\ r \in todo /\ fin[r] = "none" => Busy(r)
  BY <1>1 DEF IInv, Rest, Running, Memory, Ending, Owned, FirstBoot, Quiet
<1>4. CASE StartRecording(r)
  BY <1>1, <1>2, <1>3, <1>4
  DEF StartRecording, SetRec, memory, Moved, Told, Contract
<1>5. CASE Media(r)
  BY <1>1, <1>2, <1>3, <1>5 DEF Media, rows, memory, Moved, Told, Contract
<1>6. CASE Started(r)
  BY <1>1, <1>2, <1>3, <1>6 DEF Started, SetRec, memory, Moved, Told, Contract
<1>7. CASE RunEnds(r)
  BY <1>1, <1>2, <1>3, <1>7
  DEF RunEnds, SetFin, Finalizing, rows, Moved, Told, Contract
<1>8. CASE Unregister(r)
  BY <1>1, <1>2, <1>3, <1>8
  DEF Unregister, SetFin, rows, Moved, Told, Contract, Busy, Active
<1>9. CASE Recover(r)
  BY <1>1, <1>2, <1>3, <1>9
  DEF Recover, Idle, SetFin, rows, Moved, Told, Contract, Busy, Active
<1>10. CASE Recovered(r)
  BY <1>1, <1>2, <1>3, <1>10
  DEF Recovered, SetFin, rows, Moved, Told, Contract
<1> QED
  BY <1>4, <1>5, <1>6, <1>7, <1>8, <1>9, <1>10

LEMMA StepFollows ==
    ASSUME IInv, Follows, [Next]_vars, Quiet'
    PROVE  \A r \in Recordings : Moved(r)
<1>1. Quiet
  BY CountsUp
<1>2. \A r \in Recordings : Told(r)
  BY <1>1 DEF Follows
<1>3. \A q \in Recordings : Still(q) => Moved(q)
  BY <1>2 DEF Still, Moved, Told, Contract
<1>4. ~Die
  <2>1. Die => stops' # 0
    BY QueueDies DEF Die, IInv, TypeOK, QueueOK
  <2> QED
    BY <2>1 DEF Quiet
<1>5. ASSUME NEW r \in Recordings, Moves(r) PROVE Moved(r)
  BY <1>1, <1>5, FinFollows, StartFollows, ScopeFollows DEF Moves
<1> QED
  BY <1>3, <1>4, <1>5, OneMoves, OthersStay

\* A step that loses a write, or stops the worker, moves no row.
LEMMA LossMovesNoRow ==
    ASSUME [Next]_vars, Quiet, ~Quiet'
    PROVE  rec' = rec
<1> SUFFICES ASSUME rec' # rec PROVE Quiet'
  OBVIOUS
<1>1. CASE Api
  BY <1>1
  DEF Api, StartRecording, AskStop, InsertStop, QueueMP4, rows, Queue!Enqueue, Quiet,
      NothingLost
<1>2. ASSUME NEW i \in Ids,
             \/ StartChecks(i) \/ StartRefused(i) \/ StartFails(i)
             \/ StartRegisters(i) \/ StopHandled(i)
      PROVE  Quiet'
  BY <1>2
  DEF StartChecks, StartRefused, StartFails, StartRegisters, StopHandled, rows, queueVars,
      Stored, Quiet, NothingLost
<1>3. ASSUME NEW r \in Recordings, FinalizeStep(r) PROVE Quiet'
  BY <1>3
  DEF FinalizeStep, FinClose, FinSave, FinReady, FinFail, FinProbe, FinRename, FinQueueMP4,
      rows, queueVars, Stored, Quiet, NothingLost
<1>4. CASE \E r \in Recordings : Media(r) \/ Started(r)
  BY <1>4 DEF Media, Started, rows, queueVars, Quiet, NothingLost
<1>5. ~ \/ \E i \in Ids : Claim(i) \/ Complete(i)
        \/ QueueOnly \/ SettingsTick \/ Shutdown \/ RecoveryDone
        \/ Restart \/ Die \/ DiskGuard \/ UNCHANGED vars
  BY DEF Claim, Complete, QueueOnly, SettingsTick, Shutdown, RecoveryDone, Restart, Die,
         DiskGuard, vars, rows
<1>6. ~ \E r \in Recordings :
           RunEnds(r) \/ Unregister(r) \/ Scan \/ Recover(r) \/ Recovered(r)
  BY DEF RunEnds, Unregister, Scan, Recover, Recovered, rows
<1> QED
  BY <1>1, <1>2, <1>3, <1>4, <1>5, <1>6, StepCases

-----------------------------------------------------------------------------

\* A start after a restart meets no file of an earlier run: recovery has ended the
\* recordings that had one, unless it was lost what it read or wrote.
Waits(r) == \/ worker = "down"
            \/ worker = "recovering" /\ (~scanned \/ r \in todo)

Clean(r) ==
    /\ rec[r] = "none" => disk[r] = "none"
    /\ rec[r] = "waiting_input" /\ proc[r] = "none" /\ fin[r] = "none" =>
          disk[r] = "none" \/ Waits(r)

Fresh == NothingLost => \A r \in Recordings : Clean(r)

LEMMA StillWaits ==
    ASSUME IInv, [Next]_vars, NothingLost', NEW r \in Recordings, Busy(r),
           fin[r] # "end", Waits(r)
    PROVE  Waits(r)'
<1>1. /\ worker \in {"down", "recovering", "polling", "stopping"} /\ QueueOK /\ lost \in Nat
      /\ fin \in [Recordings -> FinPlaces]
  BY Types, SetTypes, BoundsAssumption DEF IInv, QueueOK
<1>2. worker = "down" => ~scanned
  BY DEF IInv, Rest, Memory
<1>3. CASE UNCHANGED <<worker, scanned, todo>>
  BY <1>3 DEF Waits
<1>4. ASSUME Api PROVE UNCHANGED <<worker, scanned, todo>>
  BY <1>4
  DEF Api, StartRecording, AskStop, InsertStop, QueueMP4, Queue!Enqueue, queueVars, memory
<1>5. ASSUME NEW i \in Ids,
             \/ StartChecks(i) \/ StartRefused(i) \/ StartFails(i)
             \/ StartRegisters(i) \/ StopHandled(i)
      PROVE  UNCHANGED <<worker, scanned, todo>>
  BY <1>5
  DEF StartChecks, StartRefused, StartFails, StartRegisters, StopHandled, queueVars
<1>6. ASSUME \/ \E i \in Ids : Claim(i) \/ Complete(i)
             \/ QueueOnly \/ SettingsTick \/ Shutdown
      PROVE  UNCHANGED <<worker, scanned, todo>>
  <2>1. UNCHANGED <<scanned, todo>>
    BY <1>6 DEF Claim, Complete, QueueOnly, SettingsTick, Shutdown, memory
  <2>2. CASE (\E i \in Ids : Claim(i)) \/ QueueOnly
    BY <1>1, <2>1, <2>2, QueueClaims, QueueRequeues DEF Claim, QueueOnly, Ids
  <2>3. ASSUME NEW i \in Ids, Complete(i) PROVE worker' = worker
    BY <1>1, <2>3, QueueCompletes DEF Complete
  <2>4. CASE SettingsTick \/ Shutdown
    BY <1>1, <2>4 DEF SettingsTick, Shutdown, Queue!SettingsTick, Queue!Shutdown, Waits
  <2> QED
    BY <1>6, <2>1, <2>2, <2>3, <2>4
<1>7. CASE RecoveryDone
  BY <1>7 DEF RecoveryDone, Queue!RecoveryDone, Waits
<1>8. CASE Restart \/ Die
  BY <1>1, <1>2, <1>8, QueueStarts, QueueDies DEF Restart, Die, memory, Waits
<1>9. ASSUME NEW q \in Recordings, FinalizeStep(q) PROVE UNCHANGED <<worker, scanned, todo>>
  BY <1>9
  DEF FinalizeStep, FinClose, FinSave, FinReady, FinFail, FinQueueMP4, FinProbe, FinRename,
      Queue!Enqueue, queueVars
<1>10. ASSUME NEW q \in Recordings, RunEnds(q) \/ Unregister(q) \/ Recover(q)
       PROVE  UNCHANGED <<worker, scanned, todo>>
  BY <1>10 DEF RunEnds, Unregister, Recover, queueVars
<1>11. ASSUME NEW q \in Recordings, Recovered(q) PROVE Waits(r)'
  <2>1. q # r /\ todo' = todo \ {q} /\ UNCHANGED <<worker, scanned>>
    BY <1>11 DEF Recovered, queueVars
  <2> QED
    BY <2>1 DEF Waits
<1>12. CASE Scan
  BY <1>1, <1>12
  DEF Scan, Lose, Stored, ToRecover, ActiveSet, Busy, NothingLost, queueVars, Waits
<1>13. ASSUME (\E q \in Recordings : Media(q) \/ Started(q)) \/ DiskGuard \/ UNCHANGED vars
       PROVE  UNCHANGED <<worker, scanned, todo>>
  BY <1>13 DEF Media, Started, DiskGuard, vars, queueVars, memory
<1> QED
  BY <1>3, <1>4, <1>5, <1>6, <1>7, <1>8, <1>9, <1>10, <1>11, <1>12, <1>13, StepCases

\* What a recording's own steps do to its file, and to what its run promises.
Keeps(r) ==
    /\ EndedStaysEnded(r)
    /\ RunKeepsPromise(r)
    /\ NothingLost' => Clean(r)'

\* What is known of a recording before its step.
LEMMA Known ==
    ASSUME IInv, Fresh, NEW r \in Recordings
    PROVE  /\ rec[r] \in Active \cup Terminal \cup {"none"}
           /\ disk[r] \in Files /\ proc[r] \in {"none", "run", "ending"}
           /\ fin[r] \in FinPlaces
           /\ proc[r] = "run" => rec[r] \in {"waiting_input", "recording"}
           /\ rec[r] = "none" => proc[r] = "none" /\ fin[r] = "none"
           /\ fin[r] # "none" => proc[r] # "run"
           /\ fin[r] \in Before => Busy(r)
           /\ NothingLost => Clean(r)
           /\ NothingLost /\ fin[r] = "end" => rec[r] # "waiting_input"
<1>1. /\ rec[r] \in Active \cup Terminal \cup {"none"}
      /\ disk[r] \in Files /\ proc[r] \in {"none", "run", "ending"}
      /\ fin[r] \in FinPlaces
  BY Types, SetTypes DEF IInv
<1>2. /\ proc[r] = "run" => rec[r] \in {"waiting_input", "recording"}
      /\ rec[r] = "none" => proc[r] = "none" /\ fin[r] = "none"
  BY DEF IInv, Rest, Running
<1>3. /\ fin[r] # "none" => proc[r] # "run"
      /\ fin[r] \in Before => Busy(r)
      /\ NothingLost /\ fin[r] = "end" => rec[r] # "waiting_input"
  BY DEF IInv, Rest, Memory, Ending, Owned, Busy, Active
<1> QED
  BY <1>1, <1>2, <1>3 DEF Fresh

LEMMA FinKeeps ==
    ASSUME IInv, Fresh, [Next]_vars, NEW r \in Recordings, FinalizeStep(r)
    PROVE  Keeps(r)
<1>1. /\ rec \in [Recordings -> Active \cup Terminal \cup {"none"}]
      /\ disk \in [Recordings -> Files] /\ fin \in [Recordings -> FinPlaces]
      /\ lost \in Nat
  BY Types, SetTypes, BoundsAssumption DEF IInv
<1>2. /\ rec[r] # "none" /\ proc[r] # "run" /\ proc' = proc
      /\ fin[r] \in Before => Busy(r)
  BY Known
  DEF FinalizeStep, FinClose, FinSave, FinReady, FinFail, FinQueueMP4, FinProbe, FinRename
<1>3. fin'[r] # "none" /\ rec'[r] # "none"
  BY <1>1, <1>2
  DEF FinalizeStep, FinClose, FinSave, FinReady, FinFail, FinQueueMP4, FinProbe, FinRename,
      SetFin, SetRec, AfterReady, AfterSaveError, rows
<1>4. NothingLost' => Clean(r)'
  BY <1>3 DEF Clean
<1>5. EndedStaysEnded(r)
  <2>1. fin[r] \in Before \/ rec' = rec
    BY DEF FinalizeStep, FinClose, FinSave, FinReady, FinFail, FinQueueMP4, FinProbe,
           FinRename, rows, Before
  <2> QED
    BY <1>2, <2>1 DEF EndedStaysEnded, Busy, Active, Terminal
<1>6. RunKeepsPromise(r)
  <2>1. fin[r] = "closing" => FinClose(r)
    BY DEF FinalizeStep, FinClose, FinSave, FinReady, FinFail, FinQueueMP4, FinProbe,
           FinRename
  <2>2. CASE FinClose(r)
    BY <1>1, <1>2, <2>2
    DEF FinClose, SetRec, SetFin, RunKeepsPromise, RunPlace, Run!Next, Run!Close
  <2>3. CASE fin[r] # "closing"
    BY <1>2, <2>3 DEF RunKeepsPromise
  <2> QED
    BY <2>1, <2>2, <2>3
<1> QED
  BY <1>4, <1>5, <1>6 DEF Keeps

LEMMA StartKeeps ==
    ASSUME IInv, Fresh, [Next]_vars, NEW r \in Recordings, NEW i \in Ids, r = Target(i),
           StartFails(i) \/ StartRegisters(i)
    PROVE  Keeps(r)
<1>1. r = Target(i)
  OBVIOUS
<1>2. /\ rec \in [Recordings -> Active \cup Terminal \cup {"none"}]
      /\ disk \in [Recordings -> Files]
      /\ proc \in [Recordings -> {"none", "run", "ending"}]
      /\ r \in Recordings
  BY <1>1, Types DEF IInv
<1>3. /\ i \in handlers /\ Starts(i) /\ hpc[i] \in {"refuse", "register"}
  BY DEF StartFails, StartRegisters, Handling, Starts
<1>4. /\ proc[r] = "none" /\ fin[r] = "none"
      /\ rec[r] \in Active \cup Terminal /\ worker \notin {"down", "recovering"}
      /\ hpc[i] = "register" => rec[r] = "waiting_input"
  BY <1>1, <1>2, <1>3
  DEF IInv, Rest, QueueOwns, StartFirst, OneStart, Memory, Coming
<1>5. NothingLost' => NothingLost
  BY CountsUp
<1>6. NothingLost /\ rec[r] = "waiting_input" => disk[r] = "none"
  BY <1>2, <1>4, Known DEF Clean, Waits
<1>7. CASE StartFails(i)
  <2>1. /\ rec'[r] = "failed" \/ rec'[r] = rec[r]
        /\ UNCHANGED <<proc, fin, disk>>
    BY <1>1, <1>2, <1>7 DEF StartFails, SetRec, Target
  <2> QED
    BY <1>1, <1>4, <1>5, <1>6, <2>1
    DEF Keeps, EndedStaysEnded, RunKeepsPromise, Clean, Active, Terminal
<1>8. CASE StartRegisters(i)
  <2>1. /\ rec'[r] = "waiting_input" /\ rec[r] = "waiting_input"
        /\ proc'[r] = "run" /\ UNCHANGED fin
        /\ disk'[r] = IF disk[r] = "part" THEN "old" ELSE disk[r]
    BY <1>1, <1>2, <1>4, <1>8 DEF StartRegisters, Handling, rows, Target
  <2> QED
    BY <1>1, <1>4, <1>5, <1>6, <2>1
    DEF Keeps, EndedStaysEnded, RunKeepsPromise, RunPlace, Run!Init, Clean, Terminal
<1> QED
  BY <1>7, <1>8

LEMMA ScopeKeeps ==
    ASSUME IInv, Fresh, [Next]_vars, NEW r \in Recordings,
           \/ StartRecording(r) \/ Media(r) \/ Started(r)
           \/ RunEnds(r) \/ Unregister(r) \/ Recover(r) \/ Recovered(r)
    PROVE  Keeps(r)
<1>1. /\ rec \in [Recordings -> Active \cup Terminal \cup {"none"}]
      /\ disk \in [Recordings -> Files]
      /\ proc \in [Recordings -> {"none", "run", "ending"}]
      /\ fin \in [Recordings -> FinPlaces]
  BY Types, SetTypes DEF IInv
<1>2. /\ proc[r] = "run" => rec[r] \in {"waiting_input", "recording"}
      /\ rec[r] = "none" => proc[r] = "none" /\ fin[r] = "none"
      /\ fin[r] # "none" => proc[r] # "run"
      /\ NothingLost => Clean(r)
      /\ NothingLost /\ fin[r] = "end" => rec[r] # "waiting_input"
      /\ NothingLost' => NothingLost
  BY Known, CountsUp
<1>3. CASE StartRecording(r)
  BY <1>1, <1>2, <1>3
  DEF StartRecording, SetRec, memory, Keeps, EndedStaysEnded, RunKeepsPromise, Clean,
      Terminal
<1>4. CASE Media(r)
  <2>1. /\ proc[r] = "run" /\ UNCHANGED <<rec, proc, fin>>
        /\ \/ disk'[r] = "part"
           \/ disk[r] = "old" /\ disk'[r] = "none"
    BY <1>1, <1>4 DEF Media, rows, memory
  <2> QED
    BY <1>2, <2>1
    DEF Keeps, EndedStaysEnded, RunKeepsPromise, RunPlace, Clean, Run!Next, Run!Write,
        Run!vars
<1>5. CASE Started(r)
  <2>1. /\ proc[r] = "run" /\ rec[r] = "waiting_input" /\ rec'[r] = "recording"
        /\ UNCHANGED <<disk, proc, fin>>
    BY <1>1, <1>2, <1>5 DEF Started, SetRec, memory
  <2> QED
    BY <2>1
    DEF Keeps, EndedStaysEnded, RunKeepsPromise, RunPlace, Clean, Run!Next, Run!Report,
        Terminal
<1>6. CASE RunEnds(r)
  <2>1. /\ proc[r] = "run" /\ proc'[r] = "ending" /\ UNCHANGED <<rec, disk>>
        /\ \/ fin'[r] = "closing"
           \/ fin'[r] = "failing" /\ disk[r] # "part" /\ rec[r] = "waiting_input"
    BY <1>1, <1>2, <1>6 DEF RunEnds, SetFin, Finalizing, rows
  <2> QED
    BY <1>2, <2>1
    DEF Keeps, EndedStaysEnded, RunKeepsPromise, RunPlace, Clean, Run!Next, Run!End,
        Run!GiveUp, Terminal
<1>7. CASE Unregister(r) \/ Recovered(r)
  <2>1. /\ fin[r] = "end" /\ proc'[r] # "run" /\ UNCHANGED <<rec, disk>>
    BY <1>1, <1>2, <1>7 DEF Unregister, Recovered, rows
  <2> QED
    BY <1>2, <2>1
    DEF Keeps, EndedStaysEnded, RunKeepsPromise, Clean, Terminal
<1>8. CASE Recover(r)
  <2>1. /\ fin[r] = "none" /\ fin'[r] # "none" /\ UNCHANGED <<rec, disk, proc>>
        /\ proc[r] = "none"
    BY <1>1, <1>8 DEF Recover, Idle, SetFin, Finalizing, rows, IInv, Rest, Memory
  <2> QED
    BY <1>2, <2>1
    DEF Keeps, EndedStaysEnded, RunKeepsPromise, Clean, Terminal
<1> QED
  BY <1>3, <1>4, <1>5, <1>6, <1>7, <1>8

LEMMA StepKeeps ==
    ASSUME IInv, Fresh, [Next]_vars
    PROVE  \A r \in Recordings : Keeps(r)
<1>0. NothingLost' => NothingLost
  BY CountsUp
<1>1. ASSUME NEW q \in Recordings, Still(q) PROVE Keeps(q)
  <2>1. EndedStaysEnded(q) /\ RunKeepsPromise(q)
    BY <1>1 DEF Still, EndedStaysEnded, RunKeepsPromise, RunPlace, Run!vars
  <2>2. NothingLost' => Clean(q)'
    BY <1>0, <1>1, Known, StillWaits DEF Still, Clean, Busy, Active
  <2> QED
    BY <2>1, <2>2 DEF Keeps
<1>2. ASSUME Die, NEW q \in Recordings PROVE Keeps(q)
  <2>1. /\ worker' = "down" /\ UNCHANGED <<rec, disk>> /\ proc'[q] = "none"
    BY <1>2, QueueDies DEF Die, MemoryLost, rows, IInv, TypeOK, QueueOK
  <2>2. EndedStaysEnded(q) /\ RunKeepsPromise(q)
    BY <2>1 DEF EndedStaysEnded, RunKeepsPromise
  <2>3. NothingLost' => Clean(q)'
    BY <1>0, <2>1, Known DEF Clean, Waits
  <2> QED
    BY <2>2, <2>3 DEF Keeps
<1>3. ASSUME NEW r \in Recordings, Moves(r) PROVE Keeps(r)
  BY <1>3, FinKeeps, StartKeeps, ScopeKeeps DEF Moves
<1> QED
  BY <1>1, <1>2, <1>3, OneMoves, OthersStay

LEMMA LifecycleIsFresh == Spec => []Fresh
<1>1. Init => Fresh
  BY DEF Init, Fresh, Clean
<1>2. IInv /\ Fresh /\ [Next]_vars => Fresh'
  BY StepKeeps DEF Fresh, Keeps
<1> QED
  BY <1>1, <1>2, LifecycleInvariant, PTL DEF Spec

\* A recording that has ended never becomes active again, and one that failed never
\* "ready": no replayed start, recovery or retried write undoes an end
\* (worker.go:145-158,638-652, store_worker.go:52-95).
THEOREM LifecycleEndedStaysEnded ==
    Spec => [][\A r \in Recordings : EndedStaysEnded(r)]_vars
<1>1. IInv /\ Fresh /\ [Next]_vars => [\A r \in Recordings : EndedStaysEnded(r)]_vars
  BY StepKeeps DEF Keeps
<1> QED
  BY <1>1, LifecycleInvariant, LifecycleIsFresh, PTL DEF Spec

\* What happens to a recording while its goroutine runs is a run of RecordingRun, which
\* is what RecordingProcess is proved to implement; and a run finds no file of an
\* earlier one, unless a read or a write was lost (worker.go:227-270,452-456).
THEOREM LifecycleRunsKeepPromise ==
    Spec => [][\A r \in Recordings : RunKeepsPromise(r)]_vars
<1>1. IInv /\ Fresh /\ [Next]_vars => [\A r \in Recordings : RunKeepsPromise(r)]_vars
  BY StepKeeps DEF Keeps
<1> QED
  BY <1>1, LifecycleInvariant, LifecycleIsFresh, PTL DEF Spec

\* A step of the run of r and of nothing else: as the place of a run is a recording's
\* proc and fin, and its data a disk that is "part".
OnlyRun(r) ==
    /\ UNCHANGED <<queueVars, path, tsRow, hpc, stop, todo, scanned, asked, lost>>
    /\ \E s \in Statuses : SetRec(r, s)
    /\ disk' \in {disk, [disk EXCEPT ![r] = "part"]}
    /\ \/ UNCHANGED <<proc, fin>>
       \/ /\ proc' = [proc EXCEPT ![r] = "ending"]
          /\ SetFin(r, "closing") \/ SetFin(r, "failing")

\* Conversely the lifecycle leaves out nothing a run may do: whatever RecordingRun, and
\* so RecordingProcess, lets a running recording do next is a step of the lifecycle
\* (worker.go:227-270).
THEOREM LifecycleAdmitsRuns ==
    ASSUME TypeOK, NEW r \in Recordings, proc[r] = "run", OnlyRun(r), Run(r)!Next
    PROVE  Next \/ UNCHANGED vars
<1>1. /\ rec \in [Recordings -> Active \cup Terminal \cup {"none"}]
      /\ disk \in [Recordings -> Files]
      /\ proc \in [Recordings -> {"none", "run", "ending"}]
      /\ fin \in [Recordings -> FinPlaces]
  BY Types, SetTypes
<1>2. RunPlace(r) = "run"
  BY DEF RunPlace
<1>3. rec'[r] = rec[r] => rec' = rec
  BY <1>1 DEF OnlyRun, SetRec
<1>4. (disk'[r] = "part") = (disk[r] = "part") => disk' = disk
  BY <1>1 DEF OnlyRun
<1>5. /\ RunPlace(r)' = "run" => UNCHANGED <<proc, fin>>
      /\ RunPlace(r)' = "closing" /\ proc' # proc =>
            proc' = [proc EXCEPT ![r] = "ending"] /\ SetFin(r, "closing")
      /\ RunPlace(r)' = "failing" /\ proc' # proc =>
            proc' = [proc EXCEPT ![r] = "ending"] /\ SetFin(r, "failing")
      /\ RunPlace(r)' # "run" => proc' # proc
  BY <1>1 DEF OnlyRun, RunPlace, SetFin
<1>6. CASE Run(r)!Write
  <2>1. /\ disk'[r] = "part" /\ rec'[r] = rec[r] /\ RunPlace(r)' = "run"
    BY <1>2, <1>6 DEF Run!Write
  <2>2. rec' = rec /\ UNCHANGED <<proc, fin>>
    BY <1>3, <1>5, <2>1
  <2>3. CASE disk[r] = "part"
    <3>1. disk' = disk
      BY <1>4, <2>1, <2>3
    <3> QED
      BY <2>2, <3>1 DEF OnlyRun, vars, queueVars, rows, memory
  <2>4. CASE disk[r] # "part"
    <3>1. disk' = [disk EXCEPT ![r] = "part"]
      BY <2>1, <2>4 DEF OnlyRun
    <3>2. Media(r)
      BY <2>2, <2>4, <3>1 DEF OnlyRun, Media, rows, memory, queueVars
    <3> QED
      BY <3>2 DEF Next
  <2> QED
    BY <2>3, <2>4
<1>7. CASE Run(r)!Report
  <2>1. /\ rec[r] # "recording" /\ rec'[r] = "recording"
        /\ (disk'[r] = "part") = (disk[r] = "part") /\ RunPlace(r)' = "run"
    BY <1>2, <1>7 DEF Run!Report
  <2>2. disk' = disk /\ UNCHANGED <<proc, fin>> /\ SetRec(r, "recording")
    BY <1>1, <1>4, <1>5, <2>1 DEF OnlyRun, SetRec
  <2>3. Started(r)
    BY <2>1, <2>2 DEF OnlyRun, Started, memory, queueVars
  <2> QED
    BY <2>3 DEF Next
<1>8. CASE Run(r)!End
  <2>1. /\ rec'[r] = rec[r] /\ (disk'[r] = "part") = (disk[r] = "part")
        /\ RunPlace(r)' = "closing"
    BY <1>2, <1>8 DEF Run!End
  <2>2. /\ rec' = rec /\ disk' = disk /\ proc' = [proc EXCEPT ![r] = "ending"]
        /\ SetFin(r, Finalizing)
    BY <1>3, <1>4, <1>5, <2>1 DEF Finalizing
  <2>3. RunEnds(r)
    BY <2>2 DEF OnlyRun, RunEnds, rows, queueVars
  <2> QED
    BY <2>3 DEF Next
<1>9. CASE Run(r)!GiveUp
  <2>1. /\ rec[r] = "waiting_input" /\ disk[r] # "part" /\ rec'[r] = rec[r]
        /\ (disk'[r] = "part") = (disk[r] = "part") /\ RunPlace(r)' = "failing"
    BY <1>2, <1>9 DEF Run!GiveUp
  <2>2. /\ rec' = rec /\ disk' = disk /\ proc' = [proc EXCEPT ![r] = "ending"]
        /\ SetFin(r, "failing")
    BY <1>3, <1>4, <1>5, <2>1
  <2>3. RunEnds(r)
    BY <2>1, <2>2 DEF OnlyRun, RunEnds, rows, queueVars
  <2> QED
    BY <2>3 DEF Next
<1>10. ~Run(r)!Close
  BY <1>2 DEF Run!Close
<1> QED
  BY <1>6, <1>7, <1>8, <1>9, <1>10 DEF Run!Next

\* Every step of the web process, the handlers, the goroutines and the recovery keeps
\* both, and as long as the worker does not stop and no write is lost it is a step of
\* each row's contract or leaves the row alone (store_worker.go:52-70,
\* worker.go:638-652).
THEOREM LifecycleFollowsContract == Spec => RowsFollowContract
<1>1. Init => Follows
  BY DEF Init, Follows, Told
<1>2. IInv /\ Follows /\ [Next]_vars => Follows'
  BY StepFollows DEF Follows, Moved
<1>3. IInv /\ Follows /\ Fresh /\ [Next]_vars =>
         [\A r \in Recordings :
             /\ EndedStaysEnded(r)
             /\ RunKeepsPromise(r)
             /\ rec[r] # "none" /\ stops = 0 /\ NothingLost =>
                   RC(r)!Next \/ UNCHANGED rec[r]]_vars
  <2>1. ASSUME IInv, Follows, [Next]_vars, Quiet, NEW r \in Recordings, rec[r] # "none"
        PROVE  RC(r)!Next \/ rec'[r] = rec[r]
    <3>1. Contract(r)
      BY <2>1, StepFollows, LossMovesNoRow DEF Contract, Moved
    <3> QED
      BY <3>1 DEF Contract, RC!Next, RC!Begin, RC!Close, RC!Complete, RC!Fail
  <2> QED
    BY <2>1, StepKeeps DEF Quiet, Keeps
<1> QED
  BY <1>1, <1>2, <1>3, LifecycleInvariant, LifecycleIsFresh, PTL DEF Spec, RowsFollowContract

-----------------------------------------------------------------------------

LEMMA StepOfQueue ==
    ASSUME IInv, [Next]_vars
    PROVE  Queue!Next \/ UNCHANGED queueVars
<1> DEFINE Goal == Queue!Next \/ UNCHANGED queueVars
<1>1. ASSUME NEW r \in Recordings, NEW kind \in Queue!Kinds, Queue!Enqueue(kind, r)
      PROVE  Queue!Next
  BY <1>1 DEF Queue!Next
<1>2. CASE Api
  BY <1>1, <1>2
  DEF Api, StartRecording, AskStop, InsertStop, QueueMP4, Queue!Kinds
<1>3. ASSUME NEW i \in Ids,
             \/ StartChecks(i) \/ StartRefused(i) \/ StartFails(i)
             \/ StartRegisters(i) \/ StopHandled(i)
      PROVE  Goal
  BY <1>3 DEF StartChecks, StartRefused, StartFails, StartRegisters, StopHandled
<1>4. ASSUME NEW i \in Ids, Claim(i) \/ Complete(i) PROVE Goal
  BY <1>4 DEF Claim, Complete, Queue!Next, Queue!Ids, Ids
<1>5. CASE QueueOnly
  BY <1>5 DEF QueueOnly, Queue!Next, Queue!Ids
<1>6. CASE SettingsTick \/ Shutdown \/ RecoveryDone \/ Restart \/ Die
  BY <1>6 DEF SettingsTick, Shutdown, RecoveryDone, Restart, Die, Queue!Next
<1>7. ASSUME NEW r \in Recordings, FinalizeStep(r) PROVE Goal
  BY <1>1, <1>7
  DEF FinalizeStep, FinClose, FinSave, FinReady, FinFail, FinQueueMP4, FinProbe, FinRename,
      Queue!Kinds
<1>8. ASSUME NEW r \in Recordings,
             \/ RunEnds(r) \/ Unregister(r) \/ Scan \/ Recover(r) \/ Recovered(r)
             \/ Media(r) \/ Started(r)
      PROVE  Goal
  BY <1>8 DEF RunEnds, Unregister, Scan, Recover, Recovered, Media, Started
<1>9. CASE DiskGuard \/ UNCHANGED vars
  BY <1>9 DEF DiskGuard, vars
<1> QED
  BY <1>2, <1>3, <1>4, <1>5, <1>6, <1>7, <1>8, <1>9, StepCases

\* The recordings' side does nothing to the queue that CommandQueue does not allow: what
\* CommandQueueProofs shows of it, in particular that every claimed row has its one
\* handler, holds while recordings are started, stopped and recovered
\* (worker.go:99-126, store_worker.go:12-45).
THEOREM LifecycleRunsQueue == Spec => Queue!Spec
<1>1. Init => Queue!Init
  BY DEF Init
<1>2. IInv /\ [Next]_vars => [Queue!Next]_(Queue!vars)
  BY StepOfQueue DEF queueVars, Queue!vars
<1> QED
  BY <1>1, <1>2, LifecycleInvariant, PTL DEF Spec, Queue!Spec

\* A finished recording with automatic conversion has its conversion, or the goroutine
\* is about to queue it, until the worker first stops or a write is lost.
Promised ==
    stops = 0 /\ lost = 0 =>
        \A r \in AutoMP4 :
            rec[r] = "ready" => fin[r] = "queueing" \/ Of(r, "generate_mp4") # {}

LEMMA RowsKept ==
    ASSUME IInv, [Next]_vars, NEW r \in Recordings, Of(r, "generate_mp4") # {}
    PROVE  Of(r, "generate_mp4")' # {}
<1>1. QueueOK
  BY Types DEF IInv, QueueOK
<1> DEFINE Grows == \A k \in Ids : /\ k \in Ids'
                                   /\ commands'[k].kind = commands[k].kind
                                   /\ commands'[k].target = commands[k].target
<1>2. Kept => Grows
  BY DEF Kept
<1>3. Grows
  <2>1. CASE UNCHANGED queueVars
    BY <2>1 DEF queueVars, Ids
  <2>2. ASSUME NEW kind \in Queue!Kinds, NEW t \in Recordings, Queue!Enqueue(kind, t)
        PROVE  Grows
    BY <1>1, <2>2, QueueGrows
  <2>3. ASSUME NEW i \in Ids,
               \/ Queue!Dispatch(i) \/ Queue!ClaimWithoutSlot(i) \/ Queue!ClaimUncertain(i)
               \/ \E o \in {"done", "failed"} : Queue!HandlerReturns(i, o)
               \/ Queue!CompletionLost(i)
        PROVE  Kept
    BY <1>1, <2>3, QueueClaims, QueueCompletes
  <2>4. ASSUME NEW l \in Queue!Limits, Queue!SettingsTick(l) \/ Queue!Restart(l)
        PROVE  Kept
    BY <1>1, <2>4, QueueGoesOn, QueueStarts
  <2>5. ASSUME \/ Queue!Requeue \/ Queue!RequeueLost \/ Queue!Shutdown \/ Queue!Exit
               \/ Queue!Crash \/ Queue!RecoveryDone
        PROVE  Kept
    BY <1>1, <2>5, QueueRequeues, QueueGoesOn, QueueDies
  <2> QED
    BY <1>2, <2>1, <2>2, <2>3, <2>4, <2>5, StepOfQueue DEF Queue!Next, Queue!Ids, Ids
<1> QED
  BY <1>3 DEF Of, Ids

LEMMA PromiseKept ==
    ASSUME IInv, Promised, [Next]_vars
    PROVE  Promised'
<1> SUFFICES ASSUME stops' = 0, lost' = 0, NEW r \in AutoMP4, rec'[r] = "ready"
             PROVE  fin'[r] = "queueing" \/ Of(r, "generate_mp4")' # {}
  BY DEF Promised
<1>1. /\ rec \in [Recordings -> Active \cup Terminal \cup {"none"}]
      /\ fin \in [Recordings -> FinPlaces] /\ r \in Recordings /\ lost \in Nat
  BY Types, SetTypes, RecordingsAssumption, BoundsAssumption DEF IInv
<1>2. rec[r] = "ready" => fin[r] = "queueing" \/ Of(r, "generate_mp4") # {}
  BY CountsUp DEF Promised
<1>3. Of(r, "generate_mp4") # {} => Of(r, "generate_mp4")' # {}
  BY <1>1, RowsKept
<1>4. ~Die
  <2>1. Die => stops' # 0
    BY QueueDies DEF Die, IInv, TypeOK, QueueOK
  <2> QED
    BY <2>1
<1>5. CASE Still(r)
  BY <1>2, <1>3, <1>5 DEF Still
<1>6. CASE FinQueueMP4(r)
  <2>1. rec' = rec
    BY <1>6 DEF FinQueueMP4, rows
  <2>2. CASE Queue!Enqueue("generate_mp4", r)
    <3>1. QueueOK /\ "generate_mp4" \in Queue!Kinds
      BY Types DEF IInv, QueueOK, Queue!Kinds
    <3>2. PICK n : /\ n \in Ids' /\ commands'[n].kind = "generate_mp4"
                   /\ commands'[n].target = r
      BY <1>1, <2>2, <3>1, QueueGrows
    <3> QED
      BY <3>2 DEF Of, Ids
  <2>3. CASE (Convertible(r) => Of(r, "generate_mp4") # {}) /\ UNCHANGED queueVars
    <3>1. Of(r, "generate_mp4") # {}
      BY <2>1, <2>3 DEF Convertible
    <3> QED
      BY <1>3, <3>1
  <2> QED
    BY <1>1, <1>6, <2>2, <2>3 DEF FinQueueMP4, Lose
<1>7. CASE FinReady(r)
  BY <1>1, <1>7 DEF FinReady, SetFin, AfterReady
<1>8. CASE FinClose(r) \/ FinSave(r) \/ FinFail(r)
           \/ \E ok \in BOOLEAN : FinProbe(r, ok) \/ FinRename(r, ok)
  <2>1. fin[r] # "queueing" /\ rec[r] = "ready"
    BY <1>1, <1>8 DEF FinClose, FinSave, FinFail, FinProbe, FinRename, SetRec, rows
  <2> QED
    BY <1>2, <1>3, <2>1
<1>9. CASE \/ StartRecording(r) \/ Media(r) \/ Started(r)
           \/ RunEnds(r) \/ Unregister(r) \/ Recover(r) \/ Recovered(r)
  <2>1. rec[r] = "ready" /\ (fin'[r] = fin[r] \/ fin[r] # "queueing")
    BY <1>1, <1>9
    DEF StartRecording, Media, Started, RunEnds, Unregister, Recover, Recovered, Idle, SetRec,
        rows, memory, IInv, Rest, Memory
  <2> QED
    BY <1>2, <1>3, <2>1
<1>10. ASSUME NEW i \in Ids, r = Target(i), StartFails(i) \/ StartRegisters(i)
       PROVE  fin'[r] = "queueing" \/ Of(r, "generate_mp4")' # {}
  <2>1. rec[r] = "ready" /\ fin' = fin
    BY <1>1, <1>10 DEF StartFails, StartRegisters, SetRec, Target, rows
  <2> QED
    BY <1>2, <1>3, <2>1
<1> QED
  BY <1>1, <1>4, <1>5, <1>6, <1>7, <1>8, <1>9, <1>10, OneMoves, OthersStay
  DEF Moves, FinalizeStep

\* The safety half of AutoConversionIsQueued: until the worker first stops or loses a
\* write (the conversion's own is tried once), no finished recording is without its
\* automatic conversion, through conversions asked for by hand at the same time and
\* refusals that are only logged (worker.go:499-504).
THEOREM LifecycleAutoIsPromised == Spec => []Promised
<1>1. Init => Promised
  BY RecordingsAssumption DEF Init, Promised
<1>2. IInv /\ Promised /\ [Next]_vars => Promised'
  BY PromiseKept
<1> QED
  BY <1>1, <1>2, LifecycleInvariant, PTL DEF Spec

-----------------------------------------------------------------------------

\* A stop that was, or is about to be, reported done.
Taken(i) ==
    /\ commands[i].kind = "stop_recording"
    /\ commands[i].status = "done" \/ (i \in handlers /\ hpc[i] = "ok")

\* Nobody is told to stop before its start is through, nor while there is no process.
StopAfterStart ==
    /\ worker \in {"down", "recovering"} => stop = {}
    /\ \A r \in stop : rec[r] # "none"
    /\ \A i \in Ids : Starts(i) /\ Coming(i) => Target(i) \notin stop

\* The recording of a stop that was taken is told to stop, has ended, or is one that
\* recovery will end.
Over(r) == rec[r] # "none" /\ (r \in stop \/ rec[r] \in Terminal \/ Waits(r))

Stopped ==
    /\ StopAfterStart
    /\ NothingLost => \A i \in Ids : Taken(i) => Over(Target(i))

\* What a step may do to a row and its handler.
RowMoves(k) ==
    /\ k \in Ids' /\ Target(k)' = Target(k) /\ (Starts(k)' <=> Starts(k))
    /\ Starts(k) /\ Coming(k)' => Coming(k) \/ Restart
    /\ Taken(k)' => Taken(k) \/ StopHandled(k)

RowsMove == /\ \A k \in Ids : RowMoves(k)
            /\ \A k \in Ids' \ Ids :
                  /\ ~Taken(k)'
                  /\ Starts(k)' => rec[Target(k)'] = "none"

LEMMA HandlerOnly ==
    ASSUME IInv, UNCHANGED <<commands, handlers>>, NEW i \in handlers,
           \A k \in Ids : k # i => hpc'[k] = hpc[k],
           Starts(i) => hpc[i] \in {"begin", "register", "refuse"},
           commands[i].kind = "stop_recording" => StopHandled(i)
    PROVE  RowsMove
<1>1. Ids' = Ids /\ i \in Ids
  BY Types DEF Ids, IInv
<1> QED
  BY <1>1 DEF RowsMove, RowMoves, Taken, Coming, Starts, Target

LEMMA RowsOnly ==
    ASSUME IInv, Kept, NoneComes, OpenKept({}), UNCHANGED hpc,
           handlers' = handlers \/ handlers' = {}
    PROVE  RowsMove
  BY DEF Kept, NoneComes, OpenKept, RowsMove, RowMoves, Taken, Coming, Starts, Target

LEMMA NewRowOnly ==
    ASSUME IInv, NEW kind \in Queue!Kinds, NEW r \in Recordings,
           Queue!Enqueue(kind, r), UNCHANGED hpc,
           kind = "start_recording" => rec[r] = "none"
    PROVE  RowsMove
<1>1. QueueOK /\ handlers \subseteq Ids
  BY Types DEF IInv, QueueOK
<1>2. handlers' = handlers
  BY <1>1, QueueGrows
<1>3. PICK n : /\ n \notin Ids /\ Ids' = Ids \cup {n}
               /\ commands'[n].kind = kind /\ commands'[n].target = r
               /\ commands'[n].status = "pending"
               /\ \A k \in Ids : commands'[k] = commands[k]
  BY <1>1, QueueGrows
<1>4. \A k \in Ids : RowMoves(k)
  BY <1>2, <1>3 DEF RowMoves, Taken, Coming, Starts, Target
<1>5. ~Taken(n)' /\ Target(n)' = r /\ (Starts(n)' => kind = "start_recording")
  BY <1>1, <1>2, <1>3 DEF Taken, Starts, Target
<1> QED
  BY <1>3, <1>4, <1>5 DEF RowsMove

LEMMA StepRows ==
    ASSUME IInv, [Next]_vars
    PROVE  RowsMove
<1>0. /\ QueueOK /\ handlers \subseteq Ids /\ \A k \in Ids : k \in 1..MaxCommands
      /\ hpc \in [1..MaxCommands -> Places]
  BY Types, SetTypes DEF IInv, QueueOK
<1>1. ASSUME UNCHANGED <<commands, handlers, hpc>> PROVE RowsMove
  BY <1>1 DEF RowsMove, RowMoves, Taken, Coming, Starts, Target, Ids
<1>2. CASE Api
  <2>1. PICK r \in Recordings :
           StartRecording(r) \/ AskStop(r) \/ InsertStop(r) \/ QueueMP4(r)
    BY <1>2 DEF Api
  <2>2. CASE AskStop(r)
    BY <1>1, <2>2 DEF AskStop, queueVars, memory
  <2>3. CASE StartRecording(r) \/ InsertStop(r) \/ QueueMP4(r)
    BY <2>3, NewRowOnly DEF StartRecording, InsertStop, QueueMP4, memory, Queue!Kinds
  <2> QED
    BY <2>1, <2>2, <2>3
<1>3. ASSUME NEW i \in Ids,
             \/ StartChecks(i) \/ StartRefused(i) \/ StartFails(i)
             \/ StartRegisters(i) \/ StopHandled(i)
      PROVE  RowsMove
  <2>1. /\ i \in handlers /\ UNCHANGED <<commands, handlers>>
        /\ \A k \in Ids : k # i => hpc'[k] = hpc[k]
    BY <1>0, <1>3
    DEF StartChecks, StartRefused, StartFails, StartRegisters, StopHandled, Handling, Goto,
        queueVars
  <2>2. /\ Starts(i) => hpc[i] \in {"begin", "register", "refuse"}
        /\ commands[i].kind = "stop_recording" => StopHandled(i)
    BY <1>3
    DEF StartChecks, StartRefused, StartFails, StartRegisters, StopHandled, Handling, Starts
  <2> QED
    BY <2>1, <2>2, HandlerOnly
<1>4. ASSUME NEW i \in Ids, Claim(i) PROVE RowsMove
  <2>1. /\ Queue!Dispatch(i) /\ \A k \in Ids : hpc'[k] = IF k = i THEN "begin" ELSE hpc[k]
    BY <1>0, <1>4 DEF Claim, Goto
  <2>2. /\ Kept /\ OpenKept({}) /\ NoneComes /\ commands[i].status = "pending"
        /\ commands'[i].status = "claimed" /\ handlers' = handlers \cup {i}
    BY <1>0, <2>1, QueueClaims
  <2> QED
    BY <2>1, <2>2
    DEF Kept, OpenKept, NoneComes, RowsMove, RowMoves, Taken, Coming, Starts, Target
<1>5. ASSUME NEW i \in Ids, Complete(i) PROVE RowsMove
  <2>1. /\ \/ \E o \in {"done", "failed"} : Finished(i, o) /\ Queue!HandlerReturns(i, o)
           \/ hpc[i] \in {"ok", "error"} /\ Queue!CompletionLost(i)
        /\ \A k \in Ids : hpc'[k] = IF k = i THEN "none" ELSE hpc[k]
    BY <1>0, <1>5 DEF Complete, Goto
  <2>2. /\ Kept /\ OpenKept({i}) /\ NoneComes /\ i \in handlers
        /\ handlers' = handlers \ {i}
        /\ commands'[i].status = "done" => Queue!HandlerReturns(i, "done")
    BY <1>0, <2>1, QueueCompletes
  <2>3. commands'[i].status = "done" /\ commands[i].kind = "stop_recording" => hpc[i] = "ok"
    <3>1. CASE Queue!CompletionLost(i)
      BY <1>0, <2>2, <3>1 DEF Queue!CompletionLost, QueueOK, QueueOwns
    <3>2. CASE Queue!HandlerReturns(i, "failed")
      BY <1>0, <3>2, OneRow DEF Queue!HandlerReturns, QueueOK, Queue!Statuses
    <3> QED
      BY <2>1, <3>1, <3>2 DEF Finished
  <2> QED
    BY <2>1, <2>2, <2>3
    DEF Kept, OpenKept, NoneComes, RowsMove, RowMoves, Taken, Coming, Starts, Target
<1>6. CASE QueueOnly \/ SettingsTick \/ Shutdown \/ RecoveryDone
  <2>1. /\ UNCHANGED hpc
        /\ \/ Queue!Requeue \/ Queue!RequeueLost \/ Queue!Shutdown \/ Queue!RecoveryDone
           \/ \E i \in Ids : Queue!ClaimWithoutSlot(i) \/ Queue!ClaimUncertain(i)
           \/ \E l \in Queue!Limits : Queue!SettingsTick(l)
    BY <1>6 DEF QueueOnly, SettingsTick, Shutdown, RecoveryDone, memory, Ids
  <2>2. Kept /\ OpenKept({}) /\ NoneComes /\ handlers' = handlers
    BY <1>0, <2>1, QueueClaims, QueueRequeues, QueueGoesOn
  <2> QED
    BY <2>1, <2>2, RowsOnly
<1>7. CASE Die
  <2>1. Kept /\ OpenKept({}) /\ NoneComes /\ handlers' = {}
    BY <1>0, <1>7, QueueDies DEF Die
  <2> QED
    BY <2>1 DEF Kept, OpenKept, NoneComes, RowsMove, RowMoves, Taken, Coming, Starts, Target
<1>8. CASE Restart
  <2>1. Kept /\ OpenKept({}) /\ handlers' = {}
    BY <1>0, <1>8, QueueStarts DEF Restart
  <2> QED
    BY <1>8, <2>1 DEF Kept, OpenKept, RowsMove, RowMoves, Taken, Coming, Starts, Target
<1>9. ASSUME NEW r \in Recordings, FinalizeStep(r) PROVE RowsMove
  <2>1. UNCHANGED hpc
    BY <1>9
    DEF FinalizeStep, FinClose, FinSave, FinReady, FinFail, FinQueueMP4, FinProbe, FinRename
  <2>2. Queue!Enqueue("generate_mp4", r) \/ UNCHANGED queueVars
    BY <1>9
    DEF FinalizeStep, FinClose, FinSave, FinReady, FinFail, FinQueueMP4, FinProbe, FinRename
  <2> QED
    BY <1>1, <2>1, <2>2, NewRowOnly DEF queueVars, Queue!Kinds
<1>10. CASE \/ \E r \in Recordings :
                  \/ RunEnds(r) \/ Unregister(r) \/ Scan \/ Recover(r) \/ Recovered(r)
                  \/ Media(r) \/ Started(r)
            \/ DiskGuard \/ UNCHANGED vars
  BY <1>1, <1>10
  DEF RunEnds, Unregister, Scan, Recover, Recovered, Media, Started, DiskGuard, vars,
      queueVars, memory
<1> QED
  BY <1>2, <1>3, <1>4, <1>5, <1>6, <1>7, <1>8, <1>9, <1>10, StepCases

\* What a step may do to the reasons: only a registered process is given one, and none is
\* taken back but by the process's end with the worker, or by a new registration.
StopMoves ==
    /\ \A r \in stop' : r \in stop \/ proc[r] # "none"
    /\ \/ stop \subseteq stop'
       \/ Die /\ stop' = {}
       \/ \E i \in Ids : /\ StartRegisters(i) /\ proc[Target(i)] = "none"
                         /\ stop' = stop \ {Target(i)}

LEMMA StepStops ==
    ASSUME IInv, [Next]_vars
    PROVE  StopMoves
<1>1. ASSUME UNCHANGED stop PROVE StopMoves
  BY <1>1 DEF StopMoves
<1>2. CASE Api
  BY <1>1, <1>2 DEF Api, StartRecording, AskStop, InsertStop, QueueMP4, memory
<1>3. ASSUME NEW i \in Ids, StartChecks(i) \/ StartRefused(i) \/ StartFails(i)
      PROVE  StopMoves
  BY <1>1, <1>3 DEF StartChecks, StartRefused, StartFails
<1>4. ASSUME NEW i \in Ids, StartRegisters(i) PROVE StopMoves
  BY <1>4 DEF StartRegisters, StopMoves, Target
<1>5. CASE (\E i \in Ids : StopHandled(i)) \/ DiskGuard \/ Shutdown
  BY <1>5 DEF StopHandled, DiskGuard, Shutdown, Registered, StopMoves
<1>6. CASE \/ \E i \in Ids : Claim(i) \/ Complete(i)
           \/ QueueOnly \/ SettingsTick \/ RecoveryDone \/ Restart \/ UNCHANGED vars
  BY <1>1, <1>6
  DEF Claim, Complete, QueueOnly, SettingsTick, RecoveryDone, Restart, memory, vars
<1>7. CASE Die
  BY <1>7 DEF Die, MemoryLost, StopMoves
<1>8. ASSUME NEW r \in Recordings,
             \/ FinalizeStep(r) \/ Media(r) \/ Started(r)
             \/ RunEnds(r) \/ Unregister(r) \/ Scan \/ Recover(r) \/ Recovered(r)
      PROVE  StopMoves
  BY <1>1, <1>8
  DEF FinalizeStep, FinClose, FinSave, FinReady, FinFail, FinQueueMP4, FinProbe, FinRename,
      Media, Started, RunEnds, Unregister, Scan, Recover, Recovered, memory
<1> QED
  BY <1>2, <1>3, <1>4, <1>5, <1>6, <1>7, <1>8, StepCases

LEMMA RowStays ==
    ASSUME IInv, [Next]_vars, NEW r \in Recordings, rec[r] # "none"
    PROVE  rec'[r] # "none"
<1>1. rec \in [Recordings -> Active \cup Terminal \cup {"none"}]
  BY Types DEF IInv
<1>2. CASE Still(r) \/ Die
  BY <1>2 DEF Still, Die, rows
<1>3. CASE Moves(r)
  <2>1. CASE StartRecording(r) \/ Media(r) \/ Started(r)
    BY <1>1, <2>1 DEF StartRecording, Media, Started, SetRec, rows
  <2>2. CASE FinalizeStep(r)
    BY <1>1, <2>2
    DEF FinalizeStep, FinClose, FinSave, FinReady, FinFail, FinQueueMP4, FinProbe, FinRename,
        SetRec, rows
  <2>3. CASE RunEnds(r) \/ Unregister(r) \/ Recover(r) \/ Recovered(r)
    BY <2>3 DEF RunEnds, Unregister, Recover, Recovered, rows
  <2>4. ASSUME NEW i \in Ids, Target(i) = r, StartFails(i) \/ StartRegisters(i)
        PROVE  rec'[r] # "none"
    BY <1>1, <2>4 DEF StartFails, StartRegisters, SetRec, rows, Target
  <2> QED
    BY <1>3, <2>1, <2>2, <2>3, <2>4 DEF Moves
<1> QED
  BY <1>2, <1>3, OneMoves, OthersStay

\* A worker is up to work by its own recovery alone.
LEMMA WorkerStays ==
    ASSUME IInv, [Next]_vars, ~Die, worker' \in {"down", "recovering"}
    PROVE  worker \in {"down", "recovering"}
<1>0. QueueOK
  BY DEF IInv, TypeOK, QueueOK
<1>1. CASE Api
  BY <1>1
  DEF Api, StartRecording, AskStop, InsertStop, QueueMP4, Queue!Enqueue, queueVars
<1>2. ASSUME NEW i \in Ids,
             \/ StartChecks(i) \/ StartRefused(i) \/ StartFails(i)
             \/ StartRegisters(i) \/ StopHandled(i)
      PROVE  worker' = worker
  BY <1>2 DEF StartChecks, StartRefused, StartFails, StartRegisters, StopHandled, queueVars
<1>3. ASSUME (\E i \in Ids : Claim(i) \/ Complete(i)) \/ QueueOnly PROVE worker' = worker
  <2>1. \/ \E i \in Ids : \/ Queue!Dispatch(i)
                          \/ Queue!ClaimWithoutSlot(i) \/ Queue!ClaimUncertain(i)
                          \/ \E o \in {"done", "failed"} : Queue!HandlerReturns(i, o)
                          \/ Queue!CompletionLost(i)
        \/ Queue!Requeue \/ Queue!RequeueLost
    BY <1>3 DEF Claim, Complete, QueueOnly, Ids
  <2> QED
    BY <1>0, <2>1, QueueClaims, QueueRequeues, QueueCompletes
<1>4. CASE SettingsTick \/ Shutdown \/ RecoveryDone \/ Restart
  BY <1>0, <1>4, QueueStarts
  DEF SettingsTick, Shutdown, RecoveryDone, Restart, Queue!SettingsTick, Queue!Shutdown,
      Queue!RecoveryDone
<1>5. ASSUME NEW r \in Recordings, FinalizeStep(r) PROVE worker' = worker
  BY <1>5
  DEF FinalizeStep, FinClose, FinSave, FinReady, FinFail, FinQueueMP4, FinProbe, FinRename,
      Queue!Enqueue, queueVars
<1>6. CASE \/ \E r \in Recordings :
                 \/ RunEnds(r) \/ Unregister(r) \/ Scan \/ Recover(r) \/ Recovered(r)
                 \/ Media(r) \/ Started(r)
           \/ DiskGuard \/ UNCHANGED vars
  BY <1>6
  DEF RunEnds, Unregister, Scan, Recover, Recovered, Media, Started, DiskGuard, vars,
      queueVars
<1> QED
  BY <1>1, <1>2, <1>3, <1>4, <1>5, <1>6, StepCases

LEMMA StepStopAfterStart ==
    ASSUME IInv, StopAfterStart, [Next]_vars
    PROVE  StopAfterStart'
<1>1. StopMoves /\ RowsMove
  BY StepStops, StepRows
<1>2. \A r \in Recordings : proc[r] # "none" => rec[r] # "none"
  BY DEF IInv, Rest, Running
<1>3. stop \subseteq Recordings /\ stop' \subseteq Recordings
      /\ (\A k \in Ids : Target(k) \in Recordings) /\ \A k \in Ids' : Target(k)' \in Recordings
  <2>1. TypeOK /\ TypeOK'
    BY StepTypeOK DEF IInv
  <2>2. \A k \in Ids : Target(k) \in Recordings
    BY <2>1, Types
  <2>3. ASSUME NEW k \in Ids' PROVE Target(k)' \in Recordings
    <3>1. commands'[k] \in Queue!Command
      BY <2>1 DEF TypeOK, Queue!TypeOK, Ids
    <3> QED
      BY <3>1 DEF Queue!Command, Target
  <2> QED
    BY <2>1, <2>2, <2>3 DEF TypeOK
<1>4. ASSUME worker' \in {"down", "recovering"} PROVE stop' = {}
  <2>1. CASE Die
    BY <2>1 DEF Die, MemoryLost
  <2>2. CASE ~Die
    <3>1. stop = {} /\ \A r \in Recordings : proc[r] = "none"
      BY <1>4, <2>2, WorkerStays DEF StopAfterStart, IInv, Rest, Memory
    <3> QED
      BY <1>1, <1>3, <3>1 DEF StopMoves
  <2> QED
    BY <2>1, <2>2
<1>5. ASSUME NEW r \in stop' PROVE rec'[r] # "none"
  <2>1. r \in Recordings /\ rec[r] # "none"
    BY <1>1, <1>2, <1>3 DEF StopMoves, StopAfterStart
  <2> QED
    BY <2>1, RowStays
<1>6. ASSUME NEW k \in Ids', Starts(k)', Coming(k)' PROVE Target(k)' \notin stop'
  <2>1. CASE Restart
    <3>1. worker' = "recovering"
      BY <2>1 DEF Restart, Queue!Restart
    <3> QED
      BY <1>4, <3>1
  <2>2. CASE k \in Ids /\ ~Restart
    <3>1. Starts(k) /\ Coming(k) /\ Target(k)' = Target(k)
      BY <1>1, <1>6, <2>2 DEF RowsMove, RowMoves
    <3>2. Target(k) \notin stop /\ proc[Target(k)] = "none"
      BY <2>2, <3>1 DEF StopAfterStart, IInv, Rest, StartFirst
    <3> QED
      BY <1>1, <3>1, <3>2 DEF StopMoves
  <2>3. CASE k \notin Ids
    <3>1. rec[Target(k)'] = "none"
      BY <1>1, <1>6, <2>3 DEF RowsMove
    <3>2. Target(k)' \notin stop /\ proc[Target(k)'] = "none"
      BY <1>2, <1>3, <3>1 DEF StopAfterStart
    <3> QED
      BY <1>1, <3>2 DEF StopMoves
  <2> QED
    BY <2>1, <2>2, <2>3
<1> QED
  BY <1>4, <1>5, <1>6 DEF StopAfterStart

LEMMA OverStays ==
    ASSUME IInv, Fresh, StopAfterStart, [Next]_vars, NothingLost',
           NEW r \in Recordings, Over(r)
    PROVE  Over(r)'
<1>1. rec'[r] # "none"
  BY RowStays DEF Over
<1>2. CASE r \in stop
  <2>1. CASE stop \subseteq stop'
    BY <1>1, <1>2, <2>1 DEF Over
  <2>2. CASE Die
    <3>1. worker' = "down"
      BY <2>2, QueueDies DEF Die, IInv, TypeOK, QueueOK
    <3> QED
      BY <1>1, <3>1 DEF Over, Waits
  <2>3. ASSUME NEW i \in Ids, StartRegisters(i), stop' = stop \ {Target(i)} PROVE r \in stop'
    <3>1. Starts(i) /\ Coming(i)
      BY <2>3 DEF StartRegisters, Handling, Starts, Coming
    <3> QED
      BY <1>2, <2>3, <3>1 DEF StopAfterStart
  <2> QED
    BY <1>1, <2>1, <2>2, <2>3, StepStops DEF StopMoves, Over
<1>3. CASE rec[r] \in Terminal
  <2>1. EndedStaysEnded(r)
    BY StepKeeps DEF Keeps
  <2> QED
    BY <1>1, <1>3, <2>1 DEF EndedStaysEnded, Terminal, Over
<1>4. CASE Waits(r) /\ rec[r] \notin Terminal
  <2>1. Busy(r)
    BY <1>4, Types DEF Over, Busy, IInv
  <2>2. fin[r] # "end"
    BY <2>1, CountsUp DEF IInv, Rest, Owned
  <2> QED
    BY <1>1, <1>4, <2>1, <2>2, StillWaits DEF Over
<1> QED
  BY <1>2, <1>3, <1>4 DEF Over

LEMMA StepStopped ==
    ASSUME IInv, Fresh, Stopped, [Next]_vars
    PROVE  Stopped'
<1>1. StopAfterStart'
  BY StepStopAfterStart DEF Stopped
<1>2. ASSUME NothingLost', NEW k \in Ids', Taken(k)' PROVE Over(Target(k))'
  <2>1. k \in Ids /\ Target(k)' = Target(k) /\ (Taken(k) \/ StopHandled(k))
    BY <1>2, StepRows DEF RowsMove, RowMoves
  <2>2. PICK r \in Recordings : r = Target(k)
    BY <2>1, Types DEF IInv
  <2>3. CASE Taken(k)
    <3>1. Over(r)
      BY <1>2, <2>1, <2>2, <2>3, CountsUp DEF Stopped
    <3>2. Over(r)'
      BY <1>2, <3>1, OverStays DEF Stopped
    <3> QED
      BY <2>1, <2>2, <3>2 DEF Over, Waits
  <2>4. CASE StopHandled(k) /\ ~Taken(k)
    <3>1. /\ k \in handlers /\ UNCHANGED <<commands, handlers, rec>>
          /\ k \in 1..MaxCommands /\ hpc \in [1..MaxCommands -> Places]
      BY <2>1, <2>4, Types, SetTypes DEF StopHandled, Handling, queueVars, rows, IInv
    <3>2. hpc'[k] = "ok"
      BY <1>2, <2>4, <3>1 DEF Taken
    <3>3. r \in Registered \/ rec[r] \in Terminal
      BY <2>2, <2>4, <3>1, <3>2 DEF StopHandled, Goto, Target
    <3>4. r \in Registered => r \in stop' /\ rec[r] # "none"
      BY <2>2, <2>4 DEF StopHandled, Target, Registered, IInv, Rest, Running
    <3>5. rec'[r] # "none" /\ (r \in stop' \/ rec'[r] \in Terminal)
      BY <3>1, <3>3, <3>4 DEF Terminal
    <3> QED
      BY <2>1, <2>2, <3>5 DEF Over
  <2> QED
    BY <2>1, <2>3, <2>4
<1> QED
  BY <1>1, <1>2 DEF Stopped

LEMMA LifecycleIsStopped == Spec => []Stopped
<1>1. Init => Stopped
  BY DEF Init, Queue!Init, Stopped, StopAfterStart, Ids
<1>2. IInv /\ Fresh /\ Stopped /\ [Next]_vars => Stopped'
  BY StepStopped
<1> QED
  BY <1>1, <1>2, LifecycleInvariant, LifecycleIsFresh, PTL DEF Spec

\* A recording whose FFmpeg runs is active in the database and is the only one of its
\* stream, for any number of recordings, crashes, replayed starts and lost writes; and a
\* stop reported done is true: its recording neither runs on nor is ever run again, though
\* the worker may crash before the row of its start, or of the stop, is completed
\* (worker.go:145-225,395-415,638-652, store_recordings.go:16-51).
THEOREM LifecycleRunningIsActive == Spec => []RunningIsActive
<1>1. ASSUME IInv, Stopped PROVE RunningIsActive
  <2>1. \A r \in Recordings : proc[r] = "run" => rec[r] \in {"waiting_input", "recording"}
    BY <1>1 DEF IInv, Rest, Running
  <2>2. \A r \in Recordings : proc[r] = "run" => Busy(r)
    BY <2>1 DEF Busy, Active
  <2>3. ASSUME NothingLost, NEW r \in Recordings, proc[r] = "run", r \notin stop,
               NEW i \in Of(r, "stop_recording")
        PROVE  commands[i].status # "done"
    <3>1. i \in Ids /\ commands[i].kind = "stop_recording" /\ Target(i) = r
      BY DEF Of, Ids, Target
    <3>2. ~Over(r)
      BY <1>1, <2>1, <2>3 DEF Over, Waits, Terminal, IInv, Rest, Memory
    <3> QED
      BY <1>1, <2>3, <3>1, <3>2 DEF Stopped, Taken
  <2> QED
    BY <1>1, <2>1, <2>2, <2>3 DEF IInv, Rest, OneStream, RunningIsActive
<1> QED
  BY <1>1, LifecycleInvariant, LifecycleIsStopped, PTL

=============================================================================
