---------------------------- MODULE MediaJobsProofs ----------------------------
(***************************************************************************)
(* Proofs about MediaJobs, for every set of conversions and every number   *)
(* of commands, slots, crashes and lost reads and writes.                  *)
(*                                                                         *)
(* First what a step of the queue does to the rows of commands and to the  *)
(* handlers, as far as conversions depend on it; then the invariant.       *)
(***************************************************************************)
EXTENDS MediaJobs, FiniteSetTheorems, SequenceTheorems, TLAPS

Ids == DOMAIN commands

\* A live handler has a claimed row, and nothing but the poll loop holds another one.
QueueOwns ==
    /\ \A i \in handlers : commands[i].status = "claimed"
    /\ requeue # 0 => /\ commands[requeue].status = "claimed" /\ requeue \notin handlers
                      /\ worker = "polling"
    /\ worker \in {"down", "recovering"} => handlers = {}

QueueOK == Queue!TypeOK /\ QueueOwns

\* Rows keep what they ask for; "Ended" says which of them are finished.
Kept ==
    /\ Ids' = Ids
    /\ \A k \in Ids : /\ commands'[k].kind = commands[k].kind
                      /\ commands'[k].target = commands[k].target

Open(s) == s \in {"pending", "claimed"}

OpenKept(but) ==
    \A k \in Ids \ but : Open(commands'[k].status) <=> Open(commands[k].status)

LEMMA OneRow ==
    ASSUME Queue!TypeOK, NEW i \in Ids, NEW s \in Queue!Statuses, Queue!SetStatus(i, s)
    PROVE  /\ commands' \in Seq(Queue!Command) /\ Len(commands') = Len(commands)
           /\ Kept
           /\ \A k \in Ids :
                 commands'[k].status = IF k = i THEN s ELSE commands[k].status
<1> DEFINE made == [commands[i] EXCEPT !.status = s]
<1>1. /\ commands \in Seq(Queue!Command) /\ commands[i] \in Queue!Command
      /\ i \in DOMAIN commands
  BY DEF Queue!TypeOK, Ids
<1>2. /\ made \in Queue!Command /\ made.status = s
      /\ made.kind = commands[i].kind /\ made.target = commands[i].target
  BY <1>1 DEF Queue!Command
<1>3. commands' = [commands EXCEPT ![i] = made]
  BY DEF Queue!SetStatus
<1> HIDE DEF made
<1>4. /\ commands' \in Seq(Queue!Command) /\ Len(commands') = Len(commands)
      /\ DOMAIN commands' = DOMAIN commands
  BY <1>1, <1>2, <1>3
<1>5. \A k \in DOMAIN commands : commands'[k] = IF k = i THEN made ELSE commands[k]
  BY <1>1, <1>3
<1> QED
  BY <1>2, <1>4, <1>5 DEF Kept, Ids

LEMMA ResetRows ==
    ASSUME Queue!TypeOK, commands' = Queue!ResetStaleWork(commands)
    PROVE  /\ commands' \in Seq(Queue!Command) /\ Len(commands') = Len(commands)
           /\ Kept /\ OpenKept({})
<1> DEFINE made(j) == [commands[j] EXCEPT !.status = IF @ = "claimed" THEN "pending" ELSE @]
<1>1. /\ commands \in Seq(Queue!Command) /\ DOMAIN commands = 1..Len(commands)
      /\ Len(commands) \in Nat /\ \A j \in DOMAIN commands : commands[j] \in Queue!Command
  BY DEF Queue!TypeOK
<1>2. \A j \in DOMAIN commands :
         /\ made(j) \in Queue!Command
         /\ made(j).kind = commands[j].kind /\ made(j).target = commands[j].target
         /\ made(j).status = IF commands[j].status = "claimed" THEN "pending"
                                                              ELSE commands[j].status
  BY <1>1 DEF Queue!Command, Queue!Statuses
<1>3. commands' = [j \in 1..Len(commands) |-> made(j)]
  BY <1>1 DEF Queue!ResetStaleWork
<1> HIDE DEF made
<1>4. /\ commands' \in Seq(Queue!Command) /\ Len(commands') = Len(commands)
      /\ DOMAIN commands' = DOMAIN commands
      /\ \A j \in DOMAIN commands : commands'[j] = made(j)
  BY <1>1, <1>2, <1>3
<1> QED
  BY <1>2, <1>4 DEF Kept, OpenKept, Open, Ids

\* The web process inserts a row.
LEMMA QueueGrows ==
    ASSUME QueueOK, NEW kind \in Queue!Kinds, NEW t \in Jobs \cup Kinds,
           Queue!Enqueue(kind, t)
    PROVE  /\ QueueOK' /\ handlers' = handlers /\ faults' = faults
           /\ \E n : /\ n \notin Ids /\ Ids' = Ids \cup {n}
                     /\ commands'[n].kind = kind /\ commands'[n].target = t
                     /\ commands'[n].status = "pending"
                     /\ \A k \in Ids : commands'[k] = commands[k]
<1> USE DEF QueueOK
<1> DEFINE made == [kind |-> kind, target |-> t, status |-> "pending"]
<1>1. made \in Queue!Command
  BY DEF Queue!Command, Queue!Statuses
<1>2. /\ commands' = Append(commands, made)
      /\ commands' \in Seq(Queue!Command)
      /\ Len(commands') = Len(commands) + 1
      /\ Len(commands) \in Nat
      /\ \A j \in Ids : commands'[j] = commands[j]
      /\ commands'[Len(commands) + 1] = made
      /\ Len(commands) + 1 \notin Ids
      /\ Ids' = Ids \cup {Len(commands) + 1}
  BY <1>1 DEF Queue!Enqueue, Queue!NewRow, Queue!TypeOK, Ids
<1>3. Queue!TypeOK'
  BY <1>2, BoundsAssumption DEF Queue!Enqueue, Queue!TypeOK, Queue!Ids, Ids
<1>4. QueueOwns' /\ handlers' = handlers /\ faults' = faults
  <2>1. /\ handlers' = handlers /\ requeue' = requeue /\ worker' = worker
        /\ faults' = faults /\ handlers \subseteq Ids /\ requeue \in Ids \cup {0}
    BY DEF Queue!Enqueue, Queue!TypeOK, Queue!Ids, Ids
  <2>2. \A j \in Ids : commands'[j].status = commands[j].status
    BY <1>2
  <2> QED
    BY <2>1, <2>2 DEF QueueOwns
<1>5. PICK n : n = Len(commands) + 1
  OBVIOUS
<1>6. /\ n \notin Ids /\ Ids' = Ids \cup {n} /\ \A j \in Ids : commands'[j] = commands[j]
      /\ commands'[n] = made
  BY <1>2, <1>5, Zenon
<1>7. commands'[n].kind = kind /\ commands'[n].target = t /\ commands'[n].status = "pending"
  BY <1>6
<1> QED
  BY <1>3, <1>4, <1>6, <1>7

\* The poll loop claims a row, with a handler or without one.
LEMMA QueueClaims ==
    ASSUME QueueOK, NEW i \in Ids,
           Queue!Dispatch(i) \/ Queue!ClaimWithoutSlot(i) \/ Queue!ClaimUncertain(i)
    PROVE  /\ QueueOK' /\ Kept /\ OpenKept({})
           /\ faults' # 0 \/ faults' = faults
           /\ Queue!Dispatch(i) => handlers' = handlers \cup {i} /\ i \notin handlers
           /\ Queue!ClaimWithoutSlot(i) \/ Queue!ClaimUncertain(i) => handlers' = handlers
<1> USE DEF QueueOK
<1>1. /\ i \notin handlers /\ Queue!SetStatus(i, "claimed") /\ "claimed" \in Queue!Statuses
      /\ commands[i].status = "pending" /\ i # 0
  BY DEF Queue!Dispatch, Queue!ClaimWithoutSlot, Queue!ClaimUncertain, Queue!IsNext,
         QueueOwns, Queue!Statuses, Queue!Status, Queue!TypeOK, Ids
<1>2. /\ commands' \in Seq(Queue!Command) /\ Len(commands') = Len(commands) /\ Kept
      /\ \A k \in Ids : commands'[k].status = IF k = i THEN "claimed" ELSE commands[k].status
  BY <1>1, OneRow
<1>3. Queue!TypeOK'
  BY <1>2, BoundsAssumption
  DEF Queue!TypeOK, Queue!Dispatch, Queue!ClaimWithoutSlot, Queue!ClaimUncertain, Kept,
      Queue!Ids, Ids
<1>4. QueueOwns'
  BY <1>1, <1>2
  DEF Queue!TypeOK, Queue!Dispatch, Queue!ClaimWithoutSlot, Queue!ClaimUncertain, QueueOwns,
      Kept, Queue!Ids, Ids
<1>5. OpenKept({})
  BY <1>1, <1>2 DEF OpenKept, Open
<1>6. /\ faults' # 0 \/ faults' = faults
      /\ Queue!Dispatch(i) => handlers' = handlers \cup {i} /\ i \notin handlers
      /\ Queue!ClaimWithoutSlot(i) \/ Queue!ClaimUncertain(i) => handlers' = handlers
  BY <1>1
  DEF Queue!TypeOK, Queue!Dispatch, Queue!ClaimWithoutSlot, Queue!ClaimUncertain
<1> QED
  BY <1>2, <1>3, <1>4, <1>5, <1>6

\* It puts a row back.
LEMMA QueueRequeues ==
    ASSUME QueueOK, Queue!Requeue \/ Queue!RequeueLost
    PROVE  /\ QueueOK' /\ Kept /\ OpenKept({}) /\ handlers' = handlers
           /\ faults' # 0 \/ faults' = faults
<1> USE DEF QueueOK
<1>1. CASE Queue!Requeue
  <2>1. /\ requeue \in Ids /\ Queue!SetStatus(requeue, "pending")
        /\ "pending" \in Queue!Statuses /\ commands[requeue].status = "claimed"
        /\ requeue \notin handlers
    BY <1>1 DEF Queue!Requeue, Queue!TypeOK, Queue!Statuses, QueueOwns, Queue!Ids, Ids
  <2>2. /\ commands' \in Seq(Queue!Command) /\ Len(commands') = Len(commands) /\ Kept
        /\ \A k \in Ids :
              commands'[k].status = IF k = requeue THEN "pending" ELSE commands[k].status
    BY <2>1, OneRow
  <2>3. Queue!TypeOK' /\ QueueOwns'
    BY <1>1, <2>1, <2>2 DEF Queue!Requeue, Queue!TypeOK, QueueOwns, Kept, Queue!Ids, Ids
  <2>4. OpenKept({})
    BY <2>1, <2>2 DEF OpenKept, Open
  <2> QED
    BY <1>1, <2>2, <2>3, <2>4 DEF Queue!Requeue
<1>2. CASE Queue!RequeueLost
  <2>1. Queue!TypeOK' /\ QueueOwns'
    BY <1>2, BoundsAssumption DEF Queue!RequeueLost, Queue!TypeOK, QueueOwns, Queue!Ids
  <2> QED
    BY <1>2, <2>1 DEF Queue!RequeueLost, Queue!TypeOK, Kept, OpenKept, Ids
<1> QED
  BY <1>1, <1>2

\* A handler returns; its row ends, or a write of the worker was lost.
LEMMA QueueCompletes ==
    ASSUME QueueOK, NEW i \in Ids,
           \/ \E o \in {"done", "failed"} : Queue!HandlerReturns(i, o)
           \/ Queue!CompletionLost(i)
    PROVE  /\ QueueOK' /\ Kept /\ i \in handlers /\ handlers' = handlers \ {i}
           /\ OpenKept({i}) /\ (faults' = faults \/ faults' # 0)
<1> USE DEF QueueOK
<1>1. CASE \E o \in {"done", "failed"} : Queue!HandlerReturns(i, o)
  <2>1. PICK o \in {"done", "failed"} : Queue!HandlerReturns(i, o)
    BY <1>1
  <2>2. i \in handlers /\ Queue!SetStatus(i, o) /\ o \in Queue!Statuses
    BY <2>1 DEF Queue!HandlerReturns, Queue!Statuses
  <2>3. /\ commands' \in Seq(Queue!Command) /\ Len(commands') = Len(commands) /\ Kept
        /\ \A k \in Ids : commands'[k].status = IF k = i THEN o ELSE commands[k].status
    BY <2>2, OneRow
  <2>4. Queue!TypeOK' /\ QueueOwns'
    BY <2>1, <2>2, <2>3
    DEF Queue!HandlerReturns, Queue!ReleaseSlot, Queue!TypeOK, QueueOwns, Kept, Queue!Ids,
        Ids
  <2>5. OpenKept({i}) /\ handlers' = handlers \ {i} /\ faults' = faults
    BY <2>1, <2>3 DEF OpenKept, Queue!HandlerReturns
  <2> QED
    BY <2>2, <2>3, <2>4, <2>5
<1>2. CASE Queue!CompletionLost(i)
  <2>1. Queue!TypeOK' /\ QueueOwns'
    BY <1>2, BoundsAssumption
    DEF Queue!CompletionLost, Queue!ReleaseSlot, Queue!TypeOK, QueueOwns, Queue!Ids, Ids
  <2> QED
    BY <1>2, <2>1 DEF Queue!CompletionLost, Queue!TypeOK, Kept, OpenKept, Ids
<1> QED
  BY <1>1, <1>2

\* The process is told to stop, ends, or is started again.
LEMMA QueueRestarts ==
    ASSUME QueueOK,
           \/ Queue!Shutdown \/ Queue!Exit \/ Queue!Crash \/ Queue!RecoveryDone
           \/ \E l \in Queue!Limits : Queue!Restart(l)
    PROVE  /\ QueueOK' /\ Kept /\ OpenKept({}) /\ faults' = faults
           /\ handlers' = handlers \/ handlers' = {}
           /\ Queue!Exit \/ Queue!Crash => handlers' = {}
<1> USE DEF QueueOK
<1>1. CASE Queue!Shutdown \/ Queue!RecoveryDone
  <2>1. Queue!TypeOK' /\ QueueOwns'
    BY <1>1, BoundsAssumption
    DEF Queue!Shutdown, Queue!RecoveryDone, Queue!TypeOK, QueueOwns, Queue!Ids
  <2> QED
    BY <1>1, <2>1
    DEF Queue!Shutdown, Queue!RecoveryDone, Queue!Exit, Queue!Crash, Queue!ProcessGone,
        Kept, OpenKept, Ids
<1>2. CASE Queue!Exit \/ Queue!Crash
  <2>1. Queue!TypeOK' /\ QueueOwns' /\ handlers' = {}
    BY <1>2, BoundsAssumption
    DEF Queue!Exit, Queue!Crash, Queue!ProcessGone, Queue!TypeOK, QueueOwns, Queue!Ids
  <2> QED
    BY <1>2, <2>1 DEF Queue!Exit, Queue!Crash, Kept, OpenKept, Ids
<1>3. CASE \E l \in Queue!Limits : Queue!Restart(l)
  <2>1. PICK l \in Queue!Limits : Queue!Restart(l)
    BY <1>3
  <2>2. /\ commands' = Queue!ResetStaleWork(commands) /\ handlers = {} /\ handlers' = {}
        /\ requeue = 0 /\ requeue' = 0 /\ faults' = faults /\ worker' = "recovering"
    BY <2>1 DEF Queue!Restart, QueueOwns
  <2>3. /\ commands' \in Seq(Queue!Command) /\ Len(commands') = Len(commands)
        /\ Kept /\ OpenKept({})
    BY <2>2, ResetRows
  <2>4. Queue!TypeOK'
    BY <2>1, <2>2, <2>3 DEF Queue!Restart, Queue!TypeOK, Queue!Ids
  <2> QED
    BY <2>2, <2>3, <2>4 DEF QueueOwns
<1> QED
  BY <1>1, <1>2, <1>3

-----------------------------------------------------------------------------

\* The invariant.  Each job has one command, at most one job is active, and from
\* SetMP4Running to FinishMP4 the handler's own job is the running one: so two
\* handlers that far would be one.  A handler that is through has ended its job,
\* unless the recording was hidden or an error ended its handler early.
Generates(i) == commands[i].kind = "generate_mp4"
Target(i)    == commands[i].target
Busy(s)      == s \in {"queued", "running"}
Far          == {"open", "encode", "rename", "save", "finish"}

OwnCommands ==
    /\ \A i \in Ids : IF Generates(i) THEN Target(i) \in Jobs /\ job[Target(i)] # "none"
                                      ELSE Target(i) \in Kinds
    /\ \A i, k \in Ids : Generates(i) /\ Generates(k) /\ Target(i) = Target(k) => i = k

OneActive == \A j, k \in Jobs : Busy(job[j]) /\ Busy(job[k]) => j = k

ConvertingRuns ==
    \A i \in handlers : hpc[i] \in Far => Generates(i) /\ job[Target(i)] = "running"

EndedIsOver ==
    NothingLost /\ ~hidden =>
        \A i \in handlers :
            Generates(i) /\ hpc[i] \in {"ok", "error"} => ~Busy(job[Target(i)])

Owned ==
    NothingLost /\ ~hidden =>
        \A j \in Jobs : Busy(job[j]) => \E i \in Ids : Target(i) = j /\ Open(commands[i].status)

IInv ==
    TypeOK /\ QueueOwns /\ OwnCommands /\ OneActive /\ ConvertingRuns /\ EndedIsOver /\ Owned

\* The variables but for the queue's.
LEMMA Types ==
    ASSUME TypeOK
    PROVE  /\ Queue!TypeOK
           /\ row \in [Kinds -> {"none", "ready", "deleted"}]
           /\ file \subseteq Kinds \cup {"part"}
           /\ job \in [Jobs -> {"none", "queued", "running", "ready", "failed"}]
           /\ hpc \in [1..MaxCommands -> Places]
           /\ asked \subseteq Kinds
           /\ status \in {"ready", "failed"} /\ hidden \in BOOLEAN /\ hiding \in Hiding
           /\ lost \in 0..MaxLost /\ faults \in Nat
           /\ handlers \subseteq Ids /\ \A i \in Ids : i \in 1..MaxCommands
           /\ Kinds \cap Jobs = {}
<1>1. faults \in Nat /\ handlers \subseteq Ids
  BY BoundsAssumption DEF TypeOK, Queue!TypeOK, Queue!Ids, Ids
<1>2. \A i \in Ids : i \in 1..MaxCommands
  BY BoundsAssumption DEF TypeOK, Queue!TypeOK, Ids
<1>3. Kinds \cap Jobs = {}
  BY JobsAssumption DEF Kinds
<1> QED
  BY <1>1, <1>2, <1>3, Zenon DEF TypeOK

\* A step of the queue alone: it ends no command, and starts none.
LEMMA QueueMoves ==
    ASSUME IInv, TypeOK', QueueOwns', Kept, OpenKept({}),
           faults' # 0 \/ faults' = faults, lost' = lost,
           UNCHANGED <<job, hidden>>,
           \/ handlers' = {}
           \/ handlers' = handlers /\ UNCHANGED hpc
    PROVE  IInv'
<1>1. /\ Ids' = Ids
      /\ \A k \in Ids : /\ commands'[k].kind = commands[k].kind
                        /\ commands'[k].target = commands[k].target
                        /\ Open(commands'[k].status) <=> Open(commands[k].status)
  BY DEF Kept, OpenKept
<1>2. handlers \subseteq Ids /\ (NothingLost' => NothingLost)
  BY Types DEF IInv, NothingLost
<1>3. OwnCommands'
  BY <1>1 DEF IInv, OwnCommands, Generates, Target
<1>4. OneActive'
  BY DEF IInv, OneActive
<1>5. ConvertingRuns'
  BY <1>1, <1>2 DEF IInv, ConvertingRuns, Generates, Target
<1>6. EndedIsOver'
  BY <1>1, <1>2 DEF IInv, EndedIsOver, Generates, Target
<1>7. Owned'
  BY <1>1, <1>2 DEF IInv, Owned, Target
<1> QED
  BY <1>3, <1>4, <1>5, <1>6, <1>7 DEF IInv

\* A step of a handler.
Moves(i) ==
    /\ UNCHANGED <<commands, handlers, requeue, worker, faults, hidden>>
    /\ lost' = lost \/ lost' # 0
    /\ \A k \in Ids \ {i} : hpc'[k] = hpc[k]
    /\ \A j \in Jobs : j # Target(i) => job'[j] = job[j]

LEMMA HandlerMoves ==
    ASSUME IInv, TypeOK', NEW i \in handlers, Moves(i),
           hpc'[i] \in Far => Generates(i) /\ job'[Target(i)] = "running",
           Generates(i) => job'[Target(i)] # "none",
           Generates(i) /\ Busy(job'[Target(i)]) =>
               \A j \in Jobs : Busy(job[j]) => j = Target(i),
           Generates(i) /\ hpc'[i] \in {"ok", "error"} /\ NothingLost' /\ ~hidden =>
               ~Busy(job'[Target(i)])
    PROVE  IInv'
<1>1. /\ handlers \subseteq Ids /\ i \in Ids /\ Open(commands[i].status)
      /\ Kinds \cap Jobs = {}
  BY Types DEF IInv, QueueOwns, Open
<1>2. /\ commands' = commands /\ handlers' = handlers /\ Ids' = Ids
      /\ (hidden' <=> hidden) /\ (NothingLost' => NothingLost)
  BY DEF Moves, NothingLost, Ids
<1>3. /\ \A k \in Ids \ {i} : hpc'[k] = hpc[k]
      /\ \A j \in Jobs : j # Target(i) => job'[j] = job[j]
  BY DEF Moves
<1>4. /\ \A k \in Ids : IF Generates(k) THEN Target(k) \in Jobs /\ job[Target(k)] # "none"
                                        ELSE Target(k) \in Kinds
      /\ \A k, l \in Ids : Generates(k) /\ Generates(l) /\ Target(k) = Target(l) => k = l
  BY DEF IInv, OwnCommands
<1>5. \A k \in Ids : (Generates(k)' <=> Generates(k)) /\ Target(k)' = Target(k)
  BY <1>2 DEF Generates, Target
<1>6. OwnCommands'
  BY <1>1, <1>2, <1>3, <1>4, <1>5 DEF OwnCommands
<1>7. OneActive'
  <2> SUFFICES ASSUME NEW j \in Jobs, NEW k \in Jobs, Busy(job'[j]), Busy(job'[k])
               PROVE  j = k
    BY DEF OneActive
  <2>1. Target(i) \in Jobs => Generates(i)
    BY <1>1, <1>4
  <2>2. CASE j # Target(i) /\ k # Target(i)
    BY <1>3, <2>2 DEF IInv, OneActive
  <2>3. CASE j = Target(i) \/ k = Target(i)
    BY <1>3, <2>1, <2>3
  <2> QED
    BY <2>2, <2>3
<1>8. ConvertingRuns'
  <2> SUFFICES ASSUME NEW k \in handlers, hpc'[k] \in Far
               PROVE  Generates(k) /\ job'[Target(k)] = "running"
    BY <1>1, <1>2, <1>5 DEF ConvertingRuns
  <2>1. CASE k # i
    <3>1. Generates(k) /\ job[Target(k)] = "running" /\ Target(k) \in Jobs
      BY <1>1, <1>3, <1>4, <2>1 DEF IInv, ConvertingRuns
    <3>2. Target(k) # Target(i)
      BY <1>1, <1>4, <2>1, <3>1
    <3> QED
      BY <1>3, <3>1, <3>2
  <2> QED
    BY <2>1
<1>9. EndedIsOver'
  <2> SUFFICES ASSUME NothingLost', ~hidden, NEW k \in handlers, Generates(k),
                      hpc'[k] \in {"ok", "error"}
               PROVE  ~Busy(job'[Target(k)])
    BY <1>1, <1>2, <1>5 DEF EndedIsOver
  <2>1. CASE k # i
    <3>1. ~Busy(job[Target(k)]) /\ Target(k) \in Jobs
      BY <1>1, <1>2, <1>3, <1>4, <2>1 DEF IInv, EndedIsOver
    <3>2. Target(k) # Target(i)
      BY <1>1, <1>4, <2>1, <3>1
    <3> QED
      BY <1>3, <3>1, <3>2
  <2> QED
    BY <2>1
<1>10. Owned'
  <2> SUFFICES ASSUME NothingLost', ~hidden, NEW j \in Jobs, Busy(job'[j])
               PROVE  \E k \in Ids : Target(k) = j /\ Open(commands[k].status)
    BY <1>2, <1>5 DEF Owned
  <2>1. CASE j = Target(i)
    BY <1>1, <2>1
  <2>2. CASE j # Target(i)
    BY <1>2, <1>3, <2>2 DEF IInv, Owned
  <2> QED
    BY <2>1, <2>2
<1>11. QueueOwns'
  BY <1>2 DEF IInv, QueueOwns, Moves
<1> QED
  BY <1>6, <1>7, <1>8, <1>9, <1>10, <1>11 DEF IInv

(* The web process ------------------------------------------------------------- *)

\* A new row asks for a conversion nobody asked for yet, or for a deletion.
LEMMA RowAdded ==
    ASSUME IInv, TypeOK', NEW kind \in Queue!Kinds, NEW t \in Jobs \cup Kinds,
           Queue!Enqueue(kind, t), UNCHANGED <<hpc, hidden, lost>>,
           \/ t \in Kinds /\ kind # "generate_mp4" /\ UNCHANGED job
           \/ /\ t \in Jobs /\ kind = "generate_mp4" /\ job[t] = "none"
              /\ \A j \in Jobs : ~Busy(job[j])
              /\ job' = [job EXCEPT ![t] = "queued"]
    PROVE  IInv'
<1>0. QueueOK /\ job \in [Jobs -> {"none", "queued", "running", "ready", "failed"}]
      /\ handlers \subseteq Ids /\ Kinds \cap Jobs = {}
  BY Types DEF IInv, QueueOK
<1>1. QueueOK' /\ handlers' = handlers /\ faults' = faults
  BY <1>0, QueueGrows
<1>2. PICK n : /\ n \notin Ids /\ Ids' = Ids \cup {n}
               /\ commands'[n].kind = kind /\ commands'[n].target = t
               /\ commands'[n].status = "pending"
               /\ \A k \in Ids : commands'[k] = commands[k]
  BY <1>0, QueueGrows
<1>3. /\ \A j \in Jobs : j # t => job'[j] = job[j]
      /\ t \in Jobs => /\ kind = "generate_mp4" /\ job'[t] = "queued" /\ job[t] = "none"
                       /\ \A j \in Jobs : ~Busy(job[j])
      /\ t \notin Jobs => t \in Kinds /\ kind # "generate_mp4"
  BY <1>0
<1>4. \A k \in Ids : IF Generates(k) THEN Target(k) \in Jobs /\ job[Target(k)] # "none"
                                     ELSE Target(k) \in Kinds
  BY DEF IInv, OwnCommands
<1>5. /\ \A k \in Ids : (Generates(k)' <=> Generates(k)) /\ Target(k)' = Target(k)
      /\ (Generates(n)' <=> kind = "generate_mp4") /\ Target(n)' = t
  BY <1>2 DEF Generates, Target
<1>6. \A k \in Ids : Target(k) # t \/ t \in Kinds
  BY <1>0, <1>3, <1>4
<1>7. OwnCommands'
  <2>1. ASSUME NEW k \in Ids'
        PROVE  IF Generates(k)' THEN Target(k)' \in Jobs /\ job'[Target(k)'] # "none"
                                ELSE Target(k)' \in Kinds
    <3>1. CASE k \in Ids
      BY <1>0, <1>3, <1>4, <1>5, <1>6, <3>1
    <3>2. CASE k = n
      BY <1>0, <1>3, <1>5, <3>2
    <3> QED
      BY <1>2, <3>1, <3>2
  <2>2. ASSUME NEW k \in Ids', NEW l \in Ids', Generates(k)', Generates(l)',
               Target(k)' = Target(l)'
        PROVE  k = l
    <3>1. k = n \/ l = n => t \in Jobs
      BY <1>0, <1>3, <1>5, <2>2
    <3>2. CASE k \in Ids /\ l \in Ids
      BY <1>5, <2>2, <3>2 DEF IInv, OwnCommands
    <3>3. CASE k = n \/ l = n
      BY <1>0, <1>2, <1>5, <1>6, <2>2, <3>1, <3>3
    <3> QED
      BY <1>2, <3>2, <3>3
  <2> QED
    BY <2>1, <2>2 DEF OwnCommands
<1>8. OneActive'
  BY <1>3 DEF IInv, OneActive
<1>9. ConvertingRuns' /\ EndedIsOver'
  <2>1. \A k \in handlers : /\ (Generates(k)' <=> Generates(k)) /\ Target(k)' = Target(k)
                            /\ Generates(k) => job'[Target(k)] = job[Target(k)]
    BY <1>0, <1>3, <1>4, <1>5, <1>6
  <2>2. (NothingLost' => NothingLost) /\ (hidden' <=> hidden) /\ hpc' = hpc
    BY <1>1 DEF NothingLost
  <2> QED
    BY <1>1, <2>1, <2>2 DEF IInv, ConvertingRuns, EndedIsOver
<1>10. Owned'
  <2> SUFFICES ASSUME NothingLost', ~hidden', NEW j \in Jobs, Busy(job'[j])
               PROVE  \E k \in Ids' : Target(k)' = j /\ Open(commands'[k].status)
    BY DEF Owned
  <2>1. CASE j = t
    BY <1>2, <1>5, <2>1 DEF Open
  <2>2. CASE j # t
    <3>1. PICK k \in Ids : Target(k) = j /\ Open(commands[k].status)
      BY <1>1, <1>3, <2>2 DEF IInv, Owned, NothingLost
    <3> QED
      BY <1>2, <1>5, <3>1
  <2> QED
    BY <2>1, <2>2
<1> QED
  BY <1>1, <1>7, <1>8, <1>9, <1>10 DEF IInv, QueueOK

LEMMA WebKeeps == ASSUME IInv, TypeOK', Api PROVE IInv'
<1>0. job \in [Jobs -> {"none", "queued", "running", "ready", "failed"}]
  BY Types DEF IInv
<1>1. ASSUME NEW j \in Jobs, QueueMP4(j) PROVE IInv'
  <2>1. /\ Queue!Enqueue("generate_mp4", j) /\ job[j] = "none"
        /\ \A k \in Jobs : ~Busy(job[k])
        /\ job' = [job EXCEPT ![j] = "queued"] /\ UNCHANGED <<hpc, hidden, lost>>
    BY <1>1 DEF QueueMP4, ActiveJobs, Busy, SetJob, media
  <2>2. "generate_mp4" \in Queue!Kinds
    BY DEF Queue!Kinds
  <2> QED
    BY <2>1, <2>2, RowAdded
<1>2. ASSUME NEW k \in Kinds, InsertDelete(k) PROVE IInv'
  <2>1. Queue!Enqueue("delete_file", k) /\ UNCHANGED <<job, hpc, hidden, lost>>
    BY <1>2 DEF InsertDelete, media
  <2>2. "delete_file" \in Queue!Kinds
    BY DEF Queue!Kinds
  <2> QED
    BY <2>1, <2>2, RowAdded
<1>3. CASE \/ \E k \in Kinds : AskDelete(k)
           \/ AskHide \/ AskHideJobs
           \/ Hide
  <2>1. UNCHANGED <<queueVars, job, hpc, lost>> /\ (hidden => hidden')
    <3>1. CASE \E k \in Kinds : AskDelete(k)
      BY <3>1 DEF AskDelete, media
    <3>2. CASE AskHide \/ AskHideJobs
      BY <3>2 DEF AskHide, AskHideJobs, media
    <3>3. CASE Hide
      BY <3>3 DEF Hide
    <3> QED
      BY <1>3, <3>1, <3>2, <3>3
  <2>2. /\ commands' = commands /\ handlers' = handlers /\ requeue' = requeue
        /\ worker' = worker /\ faults' = faults /\ job' = job /\ hpc' = hpc /\ lost' = lost
    BY <2>1 DEF queueVars
  <2>3. QueueOwns' /\ OwnCommands' /\ OneActive' /\ ConvertingRuns'
    BY <2>2 DEF IInv, QueueOwns, OwnCommands, OneActive, ConvertingRuns, Ids, Generates,
                Target
  <2>4. EndedIsOver' /\ Owned'
    BY <2>1, <2>2 DEF IInv, EndedIsOver, Owned, NothingLost, Ids, Generates, Target
  <2> QED
    BY <2>3, <2>4 DEF IInv
<1> QED
  BY <1>1, <1>2, <1>3 DEF Api

(* The queue --------------------------------------------------------------------- *)

LEMMA ClaimKeeps == ASSUME IInv, TypeOK', NEW i \in Ids, Claim(i) PROVE IInv'
<1>0. QueueOK /\ hpc \in [1..MaxCommands -> Places] /\ i \in 1..MaxCommands
      /\ handlers \subseteq Ids /\ \A k \in Ids : k \in 1..MaxCommands
  BY Types DEF IInv, QueueOK
<1>1. /\ Queue!Dispatch(i) /\ hpc' = [hpc EXCEPT ![i] = "begin"]
      /\ UNCHANGED <<job, hidden, lost>>
  BY DEF Claim, Goto, media
<1>2. /\ QueueOwns' /\ Kept /\ OpenKept({}) /\ handlers' = handlers \cup {i}
      /\ faults' # 0 \/ faults' = faults
  BY <1>0, <1>1, QueueClaims DEF QueueOK
<1>3. /\ hpc'[i] = "begin"
      /\ \A k \in handlers : k # i => hpc'[k] = hpc[k]
  BY <1>0, <1>1
<1>4. /\ Ids' = Ids /\ (NothingLost' => NothingLost)
      /\ \A k \in Ids : /\ (Generates(k)' <=> Generates(k)) /\ Target(k)' = Target(k)
                        /\ Open(commands'[k].status) <=> Open(commands[k].status)
  BY <1>1, <1>2 DEF Kept, OpenKept, Generates, Target, NothingLost
<1>5. OwnCommands' /\ OneActive' /\ Owned'
  BY <1>1, <1>4 DEF IInv, OwnCommands, OneActive, Owned
<1>6. ConvertingRuns'
  BY <1>0, <1>1, <1>2, <1>3, <1>4 DEF IInv, ConvertingRuns, Far
<1>7. EndedIsOver'
  BY <1>0, <1>1, <1>2, <1>3, <1>4 DEF IInv, EndedIsOver
<1> QED
  BY <1>2, <1>5, <1>6, <1>7 DEF IInv

\* A conversion's handler returns when its job is over.
LEMMA CompleteKeeps == ASSUME IInv, TypeOK', NEW i \in Ids, Complete(i) PROVE IInv'
<1>0. QueueOK /\ hpc \in [1..MaxCommands -> Places] /\ i \in 1..MaxCommands
      /\ handlers \subseteq Ids /\ \A k \in Ids : k \in 1..MaxCommands
      /\ Kinds \cap Jobs = {}
  BY Types DEF IInv, QueueOK
<1>1. /\ \/ \E o \in {"done", "failed"} : Queue!HandlerReturns(i, o)
         \/ Queue!CompletionLost(i)
      /\ hpc[i] \in {"ok", "error"} /\ hpc' = [hpc EXCEPT ![i] = "none"]
      /\ UNCHANGED <<job, hidden, lost>>
  BY DEF Complete, Goto, media
<1>2. /\ QueueOwns' /\ Kept /\ OpenKept({i}) /\ i \in handlers /\ handlers' = handlers \ {i}
      /\ faults' # 0 \/ faults' = faults
  BY <1>0, <1>1, QueueCompletes DEF QueueOK
<1>3. /\ hpc'[i] = "none"
      /\ \A k \in handlers : k # i => hpc'[k] = hpc[k]
  BY <1>0, <1>1
<1>4. /\ Ids' = Ids /\ (NothingLost' => NothingLost)
      /\ \A k \in Ids : /\ (Generates(k)' <=> Generates(k)) /\ Target(k)' = Target(k)
                        /\ k # i => (Open(commands'[k].status) <=> Open(commands[k].status))
  BY <1>1, <1>2 DEF Kept, OpenKept, Generates, Target, NothingLost
<1>5. OwnCommands' /\ OneActive'
  BY <1>1, <1>4 DEF IInv, OwnCommands, OneActive
<1>6. ConvertingRuns'
  BY <1>0, <1>1, <1>2, <1>3, <1>4 DEF IInv, ConvertingRuns
<1>7. EndedIsOver'
  BY <1>0, <1>1, <1>2, <1>3, <1>4 DEF IInv, EndedIsOver
<1>8. Owned'
  <2> SUFFICES ASSUME NothingLost', ~hidden, NEW j \in Jobs, Busy(job[j])
               PROVE  \E k \in Ids : Target(k)' = j /\ Open(commands'[k].status)
    BY <1>1, <1>4 DEF Owned
  <2>1. PICK k \in Ids : Target(k) = j /\ Open(commands[k].status)
    BY <1>4 DEF IInv, Owned
  <2>2. k # i
    <3>1. Generates(k)
      BY <1>0, <2>1 DEF IInv, OwnCommands
    <3> QED
      BY <1>1, <1>2, <1>4, <2>1, <3>1 DEF IInv, EndedIsOver
  <2> QED
    BY <1>4, <2>1, <2>2
<1> QED
  BY <1>2, <1>5, <1>6, <1>7, <1>8 DEF IInv

LEMMA LoopKeeps ==
    ASSUME IInv, TypeOK', QueueOnly \/ Shutdown \/ Die \/ Restart
    PROVE  IInv'
<1>0. QueueOK
  BY Types DEF IInv, QueueOK
<1>1. CASE QueueOnly
  <2>1. UNCHANGED <<job, hidden, hpc, lost>>
    BY <1>1 DEF QueueOnly, media
  <2>2. CASE Queue!Requeue \/ Queue!RequeueLost
    BY <1>0, <2>1, <2>2, QueueRequeues, QueueMoves DEF QueueOK
  <2>3. CASE \E i \in Ids : Queue!ClaimWithoutSlot(i) \/ Queue!ClaimUncertain(i)
    BY <1>0, <2>1, <2>3, QueueClaims, QueueMoves DEF QueueOK
  <2> QED
    BY <1>1, <2>2, <2>3 DEF QueueOnly, Ids
<1>2. CASE Shutdown \/ Restart
  <2>1. /\ UNCHANGED <<job, hidden, hpc, lost>>
        /\ \/ Queue!Shutdown \/ Queue!RecoveryDone
           \/ \E l \in Queue!Limits : Queue!Restart(l)
    BY <1>2 DEF Shutdown, Restart, media
  <2> QED
    BY <1>0, <2>1, QueueRestarts, QueueMoves DEF QueueOK
<1>3. CASE Die
  <2>1. UNCHANGED <<job, hidden, lost>> /\ (Queue!Crash \/ Queue!Exit)
    BY <1>3 DEF Die, media
  <2> QED
    BY <1>0, <2>1, QueueRestarts, QueueMoves DEF QueueOK
<1> QED
  BY <1>1, <1>2, <1>3

(* The handlers ------------------------------------------------------------------ *)

\* A handler's step that leaves the jobs alone.
LEMMA JobsKept ==
    ASSUME IInv, TypeOK', NEW i \in handlers, NEW p, Goto(i, p),
           UNCHANGED <<queueVars, job, hidden>>, lost' = lost \/ lost' # 0,
           p \in Far => hpc[i] \in Far,
           p \in {"ok", "error"} =>
               ~Generates(i) \/ hidden \/ lost' # 0 \/ ~Busy(job[Target(i)])
    PROVE  IInv'
<1>0. /\ hpc \in [1..MaxCommands -> Places] /\ handlers \subseteq Ids
      /\ i \in 1..MaxCommands /\ \A k \in Ids : k \in 1..MaxCommands
  BY Types DEF IInv
<1>1. hpc'[i] = p /\ \A k \in Ids \ {i} : hpc'[k] = hpc[k]
  BY <1>0 DEF Goto
<1>2. Moves(i)
  BY <1>1 DEF Moves, queueVars
<1>3. /\ Generates(i) => Target(i) \in Jobs /\ job[Target(i)] # "none"
      /\ hpc[i] \in Far => Generates(i) /\ job[Target(i)] = "running"
  BY <1>0 DEF IInv, OwnCommands, ConvertingRuns
<1>4. Generates(i) /\ Busy(job[Target(i)]) => \A j \in Jobs : Busy(job[j]) => j = Target(i)
  BY <1>3 DEF IInv, OneActive
<1>5. job' = job
  OBVIOUS
<1>6. /\ hpc'[i] \in Far => Generates(i) /\ job'[Target(i)] = "running"
      /\ Generates(i) => job'[Target(i)] # "none"
      /\ Generates(i) /\ Busy(job'[Target(i)]) =>
             \A j \in Jobs : Busy(job[j]) => j = Target(i)
      /\ Generates(i) /\ hpc'[i] \in {"ok", "error"} /\ NothingLost' /\ ~hidden =>
             ~Busy(job'[Target(i)])
  BY <1>1, <1>3, <1>4, <1>5 DEF NothingLost
<1> QED
  BY <1>2, <1>6, HandlerMoves

\* A conversion's handler sets the status of its job.
LEMMA JobSet ==
    ASSUME IInv, TypeOK', NEW i \in handlers, NEW p, Goto(i, p), Generates(i),
           NEW s \in {"running", "ready", "failed"}, SetJob(Target(i), s),
           UNCHANGED <<queueVars, hidden, lost>>,
           p \in Far => s = "running",
           s = "running" => OnlyActive(Target(i)) /\ p \notin {"ok", "error"}
    PROVE  IInv'
<1>0. /\ hpc \in [1..MaxCommands -> Places] /\ handlers \subseteq Ids
      /\ i \in 1..MaxCommands /\ \A k \in Ids : k \in 1..MaxCommands
      /\ job \in [Jobs -> {"none", "queued", "running", "ready", "failed"}]
  BY Types DEF IInv
<1>1. hpc'[i] = p /\ \A k \in Ids \ {i} : hpc'[k] = hpc[k]
  BY <1>0 DEF Goto
<1>2. Target(i) \in Jobs
  BY <1>0 DEF IInv, OwnCommands
<1>3. job'[Target(i)] = s /\ \A j \in Jobs : j # Target(i) => job'[j] = job[j]
  BY <1>0, <1>2 DEF SetJob
<1>4. Moves(i)
  BY <1>1, <1>3 DEF Moves, queueVars
<1>5. s = "running" => \A j \in Jobs : Busy(job[j]) => j = Target(i)
  BY DEF OnlyActive, ActiveJobs, Busy
<1>6. Busy(s) => s = "running"
  BY DEF Busy
<1> QED
  BY <1>1, <1>3, <1>4, <1>5, <1>6, HandlerMoves

LEMMA ConversionKeeps ==
    ASSUME IInv, TypeOK', NEW i \in Ids,
           \/ GenLoad(i) \/ GenProbe(i) \/ GenMark(i) \/ GenOpen(i) \/ GenEncode(i)
           \/ GenRename(i) \/ GenSave(i) \/ GenFinish(i) \/ GenFail(i)
    PROVE  IInv'
<1>0. lost \in Nat /\ (Lose => lost' # 0)
  BY Types, BoundsAssumption DEF IInv, Lose
<1>1. CASE GenLoad(i)
  <2>1. PICK p \in {"error", "probe", "failing"} :
           Goto(i, p) /\ (p = "error" => hidden \/ lost' # 0)
    BY <1>0, <1>1, Zenon DEF GenLoad
  <2>2. /\ i \in handlers /\ UNCHANGED <<queueVars, job, hidden>>
        /\ lost' = lost \/ lost' # 0
    BY <1>0, <1>1 DEF GenLoad, Converting, Quiet, media, Stored
  <2> QED
    BY <2>1, <2>2, JobsKept DEF Far
<1>2. CASE GenProbe(i)
  <2>1. PICK p \in {"mark", "failing", "error"} :
           Goto(i, p) /\ (p = "error" => lost' # 0)
    BY <1>0, <1>2 DEF GenProbe, AfterRefusal
  <2>2. /\ i \in handlers /\ UNCHANGED <<queueVars, job, hidden>>
        /\ lost' = lost \/ lost' # 0
    BY <1>0, <1>2 DEF GenProbe, Converting, Quiet, media, Stored
  <2> QED
    BY <2>1, <2>2, JobsKept DEF Far
<1>3. CASE GenMark(i)
  <2>0. /\ i \in handlers /\ Generates(i) /\ UNCHANGED <<queueVars, hidden>>
        /\ Target(i) \in Jobs
    BY <1>3 DEF GenMark, Converting, Quiet, media, Generates, Target, IInv, OwnCommands
  <2>1. CASE OnlyActive(Target(i)) /\ SetJob(Target(i), "running") /\ Goto(i, "open") /\ Stored
    BY <2>0, <2>1, JobSet DEF Stored
  <2>2. CASE ~OnlyActive(Target(i)) /\ Goto(i, "error") /\ UNCHANGED job /\ Stored
    <3>1. ~Busy(job[Target(i)])
      BY <2>0, <2>2 DEF IInv, OneActive, OnlyActive, ActiveJobs, Busy
    <3> QED
      BY <2>0, <2>2, <3>1, JobsKept DEF Stored, Far
  <2>3. CASE Lose /\ Goto(i, "error") /\ UNCHANGED job
    BY <1>0, <2>0, <2>3, JobsKept DEF Far
  <2> QED
    BY <1>3, <2>1, <2>2, <2>3 DEF GenMark, Target
<1>4. CASE GenOpen(i)
  <2>1. PICK p \in {"encode", "failing", "error"} :
           Goto(i, p) /\ (p = "error" => lost' # 0)
    BY <1>0, <1>4 DEF GenOpen
  <2>2. /\ i \in handlers /\ UNCHANGED <<queueVars, job, hidden>>
        /\ hpc[i] = "open" /\ (lost' = lost \/ lost' # 0)
    BY <1>0, <1>4 DEF GenOpen, Converting, Quiet, Stored
  <2> QED
    BY <2>1, <2>2, JobsKept DEF Far
<1>5. CASE GenEncode(i)
  <2>1. PICK p \in {"rename", "failing"} : Goto(i, p)
    BY <1>5 DEF GenEncode
  <2>2. /\ i \in handlers /\ UNCHANGED <<queueVars, job, hidden, lost>>
        /\ hpc[i] = "encode"
    BY <1>5 DEF GenEncode, Converting, Quiet, media
  <2> QED
    BY <2>1, <2>2, JobsKept DEF Far
<1>6. CASE GenRename(i)
  <2>1. PICK p \in {"save", "failing"} : Goto(i, p)
    BY <1>6 DEF GenRename
  <2>2. i \in handlers /\ hpc[i] = "rename" /\ UNCHANGED <<queueVars, job, hidden, lost>>
    BY <1>6 DEF GenRename, Converting, Quiet
  <2> QED
    BY <2>1, <2>2, JobsKept DEF Far
<1>7. CASE GenSave(i)
  <2>1. PICK p \in {"finish", "failing"} : Goto(i, p)
    BY <1>7 DEF GenSave, AfterSaveError
  <2>2. /\ i \in handlers /\ hpc[i] = "save" /\ UNCHANGED <<queueVars, job, hidden>>
        /\ lost' = lost \/ lost' # 0
    BY <1>0, <1>7 DEF GenSave, Converting, Quiet, Stored
  <2> QED
    BY <2>1, <2>2, JobsKept DEF Far
<1>8. CASE GenFinish(i)
  <2>0. i \in handlers /\ Generates(i) /\ UNCHANGED <<queueVars, hidden>>
    BY <1>8 DEF GenFinish, Converting, Quiet, media, Generates
  <2>1. CASE SetJob(Target(i), "ready") /\ Goto(i, "ok") /\ Stored
    BY <2>0, <2>1, JobSet DEF Stored, Far
  <2>2. CASE Lose /\ UNCHANGED job /\ Goto(i, "error")
    BY <1>0, <2>0, <2>2, JobsKept DEF Far
  <2> QED
    BY <1>8, <2>1, <2>2 DEF GenFinish, Target
<1>9. CASE GenFail(i)
  <2>0. /\ i \in handlers /\ Generates(i) /\ UNCHANGED <<queueVars, hidden>>
        /\ Goto(i, "error")
    BY <1>9 DEF GenFail, Converting, Quiet, media, Generates
  <2>1. CASE SetJob(Target(i), "failed") /\ Stored
    BY <2>0, <2>1, JobSet DEF Stored, Far
  <2>2. CASE Lose /\ UNCHANGED job
    BY <1>0, <2>0, <2>2, JobsKept DEF Far
  <2> QED
    BY <1>9, <2>1, <2>2 DEF GenFail, Target
<1> QED
  BY <1>1, <1>2, <1>3, <1>4, <1>5, <1>6, <1>7, <1>8, <1>9

LEMMA DeletionKeeps ==
    ASSUME IInv, TypeOK', NEW i \in Ids,
           DelLoad(i) \/ DelResolve(i) \/ DelRemove(i) \/ DelRecord(i)
    PROVE  IInv'
<1>0. lost \in Nat /\ (Lose => lost' # 0)
  BY Types, BoundsAssumption DEF IInv, Lose
<1>1. /\ i \in handlers /\ ~Generates(i) /\ UNCHANGED <<queueVars, job, hidden>>
      /\ lost' = lost \/ lost' # 0
  BY <1>0 DEF DelLoad, DelResolve, DelRemove, DelRecord, Deleting, Quiet, media, Generates,
              Stored
<1>2. PICK p \in {"resolve", "remove", "record", "ok", "error"} : Goto(i, p)
  BY DEF DelLoad, DelResolve, DelRemove, DelRecord, AfterRemove
<1> QED
  BY <1>1, <1>2, JobsKept DEF Far

(* Types --------------------------------------------------------------------------- *)

\* What the handlers do to their variables keeps the types of these.
LEMMA SetTypes ==
    ASSUME TypeOK
    PROVE  /\ \A k, s : s \in {"none", "ready", "deleted"} /\ SetRow(k, s) =>
                 row' \in [Kinds -> {"none", "ready", "deleted"}]
           /\ \A j, s : s \in {"queued", "running", "ready", "failed"} /\ SetJob(j, s) =>
                 job' \in [Jobs -> {"none", "queued", "running", "ready", "failed"}]
           /\ \A i, p : p \in Places /\ Goto(i, p) => hpc' \in [1..MaxCommands -> Places]
           /\ Lose \/ Stored => lost' \in 0..MaxLost
<1>1. /\ row \in [Kinds -> {"none", "ready", "deleted"}]
      /\ job \in [Jobs -> {"none", "queued", "running", "ready", "failed"}]
      /\ hpc \in [1..MaxCommands -> Places] /\ lost \in 0..MaxLost
  BY Types
<1>2. \A k, s : s \in {"none", "ready", "deleted"} /\ SetRow(k, s) =>
         row' \in [Kinds -> {"none", "ready", "deleted"}]
  BY <1>1 DEF SetRow
<1>3. \A j, s : s \in {"queued", "running", "ready", "failed"} /\ SetJob(j, s) =>
         job' \in [Jobs -> {"none", "queued", "running", "ready", "failed"}]
  BY <1>1 DEF SetJob
<1>4. \A i, p : p \in Places /\ Goto(i, p) => hpc' \in [1..MaxCommands -> Places]
  BY <1>1 DEF Goto
<1>5. Lose \/ Stored => lost' \in 0..MaxLost
  BY <1>1, BoundsAssumption DEF Lose, Stored
<1> QED
  BY <1>2, <1>3, <1>4, <1>5

LEMMA SameQueueTypes == Queue!TypeOK /\ UNCHANGED queueVars => Queue!TypeOK'
  BY DEF queueVars, Queue!TypeOK, Queue!Ids

LEMMA ConversionTypes ==
    ASSUME TypeOK, NEW i \in Ids,
           \/ GenLoad(i) \/ GenProbe(i) \/ GenMark(i) \/ GenOpen(i) \/ GenEncode(i)
           \/ GenRename(i) \/ GenSave(i) \/ GenFinish(i) \/ GenFail(i)
    PROVE  TypeOK'
<1>0. UNCHANGED <<queueVars, asked, hiding, hidden, status>>
  BY DEF GenLoad, GenProbe, GenMark, GenOpen, GenEncode, GenRename, GenSave, GenFinish,
         GenFail, Quiet, requests, media
<1>1. /\ Queue!TypeOK' /\ asked' \subseteq Kinds /\ hidden' \in BOOLEAN /\ hiding' \in Hiding
      /\ status' \in {"ready", "failed"}
  BY <1>0, Types, SameQueueTypes
<1>2. row' \in [Kinds -> {"none", "ready", "deleted"}]
  <2>1. UNCHANGED row \/ SetRow("mp4", "ready")
    BY DEF GenLoad, GenProbe, GenMark, GenOpen, GenEncode, GenRename, GenSave, GenFinish,
           GenFail, media
  <2> QED
    BY <2>1, Types, SetTypes
<1>3. file' \subseteq Kinds \cup {"part"}
  <2>1. file' \subseteq file \cup {"part", "mp4"}
    BY DEF GenLoad, GenProbe, GenMark, GenOpen, GenEncode, GenRename, GenSave, GenFinish,
           GenFail, media
  <2> QED
    BY <2>1, Types DEF Kinds
<1>4. job' \in [Jobs -> {"none", "queued", "running", "ready", "failed"}]
  <2>1. \/ UNCHANGED job
        \/ \E s \in {"running", "ready", "failed"} : SetJob(commands[i].target, s)
    BY DEF GenLoad, GenProbe, GenMark, GenOpen, GenEncode, GenRename, GenSave, GenFinish,
           GenFail, media
  <2> QED
    BY <2>1, Types, SetTypes
<1>5. hpc' \in [1..MaxCommands -> Places]
  <2>1. \E p \in Places : Goto(i, p)
    <3>1. CASE GenLoad(i)
      <4>1. \E p \in {"error", "probe", "failing"} : Goto(i, p)
        BY <3>1, Zenon DEF GenLoad
      <4> QED
        BY <4>1 DEF Places
    <3> QED
      BY <3>1 DEF GenProbe, GenMark, GenOpen, GenEncode, GenRename, GenSave, GenFinish,
                  GenFail, AfterRefusal, AfterSaveError, Places
  <2> QED
    BY <2>1, SetTypes
<1>6. lost' \in 0..MaxLost
  <2>1. Lose \/ Stored
    BY DEF GenLoad, GenProbe, GenMark, GenOpen, GenEncode, GenRename, GenSave, GenFinish,
           GenFail, Stored
  <2> QED
    BY <2>1, SetTypes
<1> QED
  BY <1>1, <1>2, <1>3, <1>4, <1>5, <1>6 DEF TypeOK

LEMMA DeletionTypes ==
    ASSUME TypeOK, NEW i \in Ids,
           DelLoad(i) \/ DelResolve(i) \/ DelRemove(i) \/ DelRecord(i)
    PROVE  TypeOK'
<1>0. UNCHANGED <<queueVars, asked, hiding, hidden, status, job>>
  BY DEF DelLoad, DelResolve, DelRemove, DelRecord, Quiet, requests, media
<1>1. /\ Queue!TypeOK' /\ asked' \subseteq Kinds /\ hidden' \in BOOLEAN /\ hiding' \in Hiding
      /\ status' \in {"ready", "failed"}
      /\ job' \in [Jobs -> {"none", "queued", "running", "ready", "failed"}]
  BY <1>0, Types, SameQueueTypes
<1>2. row' \in [Kinds -> {"none", "ready", "deleted"}]
  <2>1. UNCHANGED row \/ SetRow(commands[i].target, "deleted")
    BY DEF DelLoad, DelResolve, DelRemove, DelRecord, media
  <2> QED
    BY <2>1, Types, SetTypes
<1>3. file' \subseteq Kinds \cup {"part"}
  <2>1. file' \subseteq file
    BY DEF DelLoad, DelResolve, DelRemove, DelRecord, media
  <2> QED
    BY <2>1, Types
<1>4. hpc' \in [1..MaxCommands -> Places]
  <2>1. \E p \in Places : Goto(i, p)
    BY DEF DelLoad, DelResolve, DelRemove, DelRecord, AfterRemove, Places
  <2> QED
    BY <2>1, SetTypes
<1>5. lost' \in 0..MaxLost
  <2>1. Lose \/ Stored
    BY DEF DelLoad, DelResolve, DelRemove, DelRecord, Stored
  <2> QED
    BY <2>1, SetTypes
<1> QED
  BY <1>1, <1>2, <1>3, <1>4, <1>5 DEF TypeOK

LEMMA WebTypes == ASSUME IInv, Api PROVE TypeOK'
<1>0. TypeOK /\ QueueOK
  BY Types DEF IInv, QueueOK
<1>1. ASSUME NEW j \in Jobs, QueueMP4(j) PROVE TypeOK'
  <2>1. /\ Queue!Enqueue("generate_mp4", j) /\ "generate_mp4" \in Queue!Kinds
        /\ SetJob(j, "queued") /\ UNCHANGED <<row, file, hidden, status, hpc, asked, hiding, lost>>
    BY <1>1 DEF QueueMP4, media, requests, Queue!Kinds
  <2>2. Queue!TypeOK'
    BY <1>0, <2>1, QueueGrows DEF QueueOK
  <2>3. job' \in [Jobs -> {"none", "queued", "running", "ready", "failed"}]
    BY <1>0, <2>1, SetTypes
  <2> QED
    BY <1>0, <2>1, <2>2, <2>3, Types DEF TypeOK
<1>2. ASSUME NEW k \in Kinds, InsertDelete(k) PROVE TypeOK'
  <2>1. /\ Queue!Enqueue("delete_file", k) /\ "delete_file" \in Queue!Kinds
        /\ asked' \subseteq asked
        /\ UNCHANGED <<row, file, job, hidden, status, hpc, hiding, lost>>
    BY <1>2 DEF InsertDelete, media, Queue!Kinds
  <2>2. Queue!TypeOK'
    BY <1>0, <2>1, QueueGrows DEF QueueOK
  <2> QED
    BY <1>0, <2>1, <2>2, Types DEF TypeOK
<1>3. ASSUME NEW k \in Kinds, AskDelete(k) PROVE TypeOK'
  <2>1. /\ asked' = asked \cup {k}
        /\ UNCHANGED <<queueVars, row, file, job, hidden, status, hpc, hiding, lost>>
    BY <1>3 DEF AskDelete, media
  <2> QED
    BY <1>0, <2>1, SameQueueTypes, Types DEF TypeOK
<1>4. CASE AskHide \/ AskHideJobs
  <2>1. /\ hiding' \in Hiding
        /\ UNCHANGED <<queueVars, row, file, job, hidden, status, hpc, asked, lost>>
    BY <1>4 DEF AskHide, AskHideJobs, Hiding, media
  <2> QED
    BY <1>0, <2>1, SameQueueTypes, Types DEF TypeOK
<1>5. CASE Hide
  <2>1. /\ hiding' \in Hiding /\ hidden' \in BOOLEAN
        /\ UNCHANGED <<queueVars, row, file, job, status, hpc, asked, lost>>
    BY <1>5 DEF Hide, Hiding
  <2> QED
    BY <1>0, <2>1, SameQueueTypes, Types DEF TypeOK
<1> QED
  BY <1>1, <1>2, <1>3, <1>4, <1>5 DEF Api

LEMMA QueueTypes ==
    ASSUME IInv,
           \/ \E i \in Ids : Claim(i) \/ Complete(i)
           \/ QueueOnly \/ Shutdown \/ Die \/ Restart
    PROVE  TypeOK'
<1>0. TypeOK /\ QueueOK
  BY Types DEF IInv, QueueOK
<1>1. UNCHANGED <<row, file, job, hidden, status, asked, hiding, lost>>
  BY DEF Claim, Complete, QueueOnly, Shutdown, Die, Restart, media, requests
<1>2. hpc' \in [1..MaxCommands -> Places]
  <2>1. \/ \E i \in Ids, p \in Places : Goto(i, p)
        \/ UNCHANGED hpc
        \/ hpc' = [i \in 1..MaxCommands |-> "none"]
    BY DEF Claim, Complete, QueueOnly, Shutdown, Die, Restart, Places
  <2> QED
    BY <1>0, <2>1, Types, SetTypes DEF Places
<1>3. Queue!TypeOK'
  <2>1. ASSUME NEW i \in Ids, Claim(i) PROVE Queue!TypeOK'
    BY <1>0, <2>1, QueueClaims DEF Claim, QueueOK
  <2>2. ASSUME NEW i \in Ids, Complete(i) PROVE Queue!TypeOK'
    BY <1>0, <2>2, QueueCompletes DEF Complete, QueueOK
  <2>3. CASE QueueOnly
    BY <1>0, <2>3, QueueClaims, QueueRequeues DEF QueueOnly, QueueOK, Ids
  <2>4. CASE Shutdown \/ Die \/ Restart
    BY <1>0, <2>4, QueueRestarts DEF Shutdown, Die, Restart, QueueOK
  <2> QED
    BY <2>1, <2>2, <2>3, <2>4
<1> QED
  BY <1>0, <1>1, <1>2, <1>3, Types DEF TypeOK

LEMMA StepTypeOK == IInv /\ [Next]_vars => TypeOK'
<1> SUFFICES ASSUME IInv, [Next]_vars PROVE TypeOK'
  OBVIOUS
<1>1. CASE Api
  BY <1>1, WebTypes
<1>2. CASE \E i \in Ids : HandlerStep(i) /\ ~Complete(i)
  BY <1>2, ConversionTypes, DeletionTypes DEF HandlerStep, IInv
<1>3. CASE \/ \E i \in Ids : Claim(i) \/ Complete(i)
           \/ QueueOnly \/ Shutdown \/ Die \/ Restart
  BY <1>3, QueueTypes
<1>4. CASE StartReplayed \/ UNCHANGED vars
  <2>1. /\ status' \in {status, "failed"}
        /\ UNCHANGED <<queueVars, row, file, job, hidden, hpc, asked, hiding, lost>>
    BY <1>4 DEF StartReplayed, vars, media, requests
  <2> QED
    BY <2>1, SameQueueTypes, Types DEF IInv, TypeOK
<1> QED
  BY <1>1, <1>2, <1>3, <1>4 DEF Next, Ids

-----------------------------------------------------------------------------

LEMMA InitIInv == Init => IInv
<1> SUFFICES ASSUME Init PROVE IInv
  OBVIOUS
<1>1. commands = <<>> /\ handlers = {} /\ requeue = 0
  BY DEF Init, Queue!Init
<1>2. Ids = {}
  BY <1>1 DEF Ids
<1>3. Queue!TypeOK
  BY <1>1, BoundsAssumption DEF Init, Queue!Init, Queue!TypeOK, Queue!Ids
<1>4. TypeOK
  <2>1. /\ row \in [Kinds -> {"none", "ready", "deleted"}]
        /\ job \in [Jobs -> {"none", "queued", "running", "ready", "failed"}]
        /\ hpc \in [1..MaxCommands -> Places]
    BY DEF Init, Places
  <2>2. file \subseteq Kinds \cup {"part"} /\ asked \subseteq Kinds
    BY DEF Init, Kinds
  <2>3. status \in {"ready", "failed"} /\ hidden \in BOOLEAN /\ hiding \in Hiding
    BY DEF Init, Hiding
  <2>4. lost \in 0..MaxLost
    BY BoundsAssumption DEF Init
  <2> QED
    BY <1>3, <2>1, <2>2, <2>3, <2>4, Zenon DEF TypeOK
<1>5. \A j \in Jobs : ~Busy(job[j])
  BY DEF Init, Busy
<1> QED
  BY <1>1, <1>2, <1>4, <1>5
  DEF IInv, QueueOwns, OwnCommands, OneActive, ConvertingRuns, EndedIsOver, Owned

LEMMA StepIInv == IInv /\ [Next]_vars => IInv'
<1> SUFFICES ASSUME IInv, [Next]_vars PROVE IInv'
  OBVIOUS
<1>0. TypeOK'
  BY StepTypeOK
<1>1. CASE Api
  BY <1>0, <1>1, WebKeeps
<1>2. CASE \E i \in Ids : Claim(i) \/ HandlerStep(i)
  BY <1>0, <1>2, ClaimKeeps, CompleteKeeps, ConversionKeeps, DeletionKeeps DEF HandlerStep
<1>3. CASE QueueOnly \/ Shutdown \/ Die \/ Restart
  BY <1>0, <1>3, LoopKeeps
<1>4. CASE StartReplayed \/ UNCHANGED vars
  <2>1. UNCHANGED <<commands, handlers, requeue, worker, faults, job, hidden, hpc, lost>>
    BY <1>4 DEF StartReplayed, vars, queueVars, media
  <2>2. Kept /\ OpenKept({})
    BY <2>1 DEF Kept, OpenKept, Ids
  <2>3. QueueOwns'
    BY <2>1 DEF IInv, QueueOwns
  <2> QED
    BY <1>0, <2>1, <2>2, <2>3, QueueMoves
<1> QED
  BY <1>1, <1>2, <1>3, <1>4 DEF Next, Ids

LEMMA IInvSays == IInv => OneConverter /\ ActiveJobIsOwned
<1> SUFFICES ASSUME IInv PROVE OneConverter /\ ActiveJobIsOwned
  OBVIOUS
<1>1. OneConverter
  <2> DEFINE far == {i \in handlers : hpc[i] \in {"open", "encode", "rename"}}
  <2>1. ASSUME NEW i \in far, NEW k \in far PROVE i = k
    <3>1. /\ i \in Ids /\ k \in Ids /\ Generates(i) /\ Generates(k)
          /\ job[Target(i)] = "running" /\ job[Target(k)] = "running"
      BY Types DEF IInv, ConvertingRuns, Far
    <3>2. Target(i) \in Jobs /\ Target(k) \in Jobs
      BY <3>1 DEF IInv, OwnCommands
    <3>3. Target(i) = Target(k)
      BY <3>1, <3>2 DEF IInv, OneActive, Busy
    <3> QED
      BY <3>1, <3>3 DEF IInv, OwnCommands
  <2>2. CASE far = {}
    BY <2>2, FS_EmptySet DEF OneConverter
  <2>3. CASE far # {}
    <3>1. PICK i : far = {i}
      BY <2>1, <2>3
    <3> QED
      BY <3>1, FS_Singleton DEF OneConverter
  <2> QED
    BY <2>2, <2>3
<1>2. ActiveJobIsOwned
  BY DEF IInv, Owned, ActiveJobIsOwned, ActiveJobs, CommandsFor, Unfinished, Busy, Open,
         Target, Ids
<1> QED
  BY <1>1, <1>2

\* The invariant holds in every reachable state.
THEOREM MediaInvariant == Spec => []IInv
<1>1. Init => IInv
  BY InitIInv
<1>2. IInv /\ [Next]_vars => IInv'
  BY StepIInv
<1> QED
  BY <1>1, <1>2, PTL DEF Spec

\* Every variable, the queue's rows included, keeps its type.
THEOREM MediaTypeOK == Spec => []TypeOK
<1>1. IInv => TypeOK
  BY DEF IInv
<1> QED
  BY <1>1, MediaInvariant, PTL

\* However many conversions are asked for, and however often the worker is restarted
\* in the middle of one, two FFmpegs never write the same .part.mp4
\* (worker.go:513-603, store_recordings.go:81-125).
THEOREM MediaOneConverter == Spec => []OneConverter
<1>1. IInv => OneConverter
  BY IInvSays
<1> QED
  BY <1>1, MediaInvariant, PTL

\* Unless the recording is hidden or an error ends a handler without telling its job
\* (worker.go:514-517,536-538,545-547,551-553 and lost writes), an active job has a
\* command that will still be handled (worker.go:513-603).
THEOREM MediaActiveJobIsOwned == Spec => []ActiveJobIsOwned
<1>1. IInv => ActiveJobIsOwned
  BY IInvSays
<1> QED
  BY <1>1, MediaInvariant, PTL

-----------------------------------------------------------------------------

\* The files.  The worker has not stopped and no read or write was lost; and then the
\* MP4's deletion was asked for once.
Calm == stops = 0 /\ NothingLost
OneDeletion ==
    Calm /\ \A i, k \in Ids : Target(i) = "mp4" /\ Target(k) = "mp4" => i = k

\* A handler at work on t has come to place p.
At(p, t) == \E i \in handlers : hpc[i] = p /\ Target(i) = t

\* Only a deletion removes the TS, which never comes back, and then it has the row to
\* update.
TsKept ==
    /\ "ts" \in file => row["ts"] = "ready" /\ ~At("record", "ts")
    /\ Calm => (row["ts"] = "ready" => "ts" \in file \/ At("record", "ts"))

\* An MP4 that was stored stays known.
Mp4Known ==
    /\ \A i \in handlers : hpc[i] = "finish" => row["mp4"] # "none"
    /\ \A j \in Jobs : job[j] = "ready" => row["mp4"] # "none"

\* Without a restart a conversion that is not through has an active job.
OpenIsBusy ==
    Calm => \A i \in Ids :
        Generates(i) /\ Open(commands[i].status) =>
            Busy(job[Target(i)]) \/ (i \in handlers /\ hpc[i] \in {"ok", "error"})

\* The row is ready during a conversion only if this is the one that has stored it: so
\* no deletion that has seen the row meets the rename of another conversion.
Mp4Kept ==
    OneDeletion =>
        /\ row["mp4"] = "ready" => "mp4" \in file \/ At("record", "mp4")
        /\ At("resolve", "mp4") \/ At("remove", "mp4") \/ At("record", "mp4") =>
              row["mp4"] = "ready"
        /\ row["mp4"] = "ready" /\ (\E j \in Jobs : Busy(job[j])) =>
              \E i \in handlers : hpc[i] = "finish"
        /\ \A i \in handlers : hpc[i] = "save" => "mp4" \in file

\* The worker is stopping because it was told to.
ToldToStop == worker = "stopping" => stops # 0

FilesOK == ToldToStop /\ TsKept /\ Mp4Known /\ OpenIsBusy /\ Mp4Kept

\* Stops and losses are only ever counted up.
LEMMA CalmBefore ==
    ASSUME IInv, [Next]_vars, Calm'
    PROVE  Calm
<1> DEFINE Up == /\ stops' = stops \/ stops' # 0
                 /\ faults' = faults \/ faults' # 0
                 /\ lost' = lost \/ lost' # 0
<1>0. /\ stops \in Nat /\ faults \in Nat /\ lost \in Nat /\ QueueOK
  BY BoundsAssumption DEF IInv, TypeOK, Queue!TypeOK, QueueOK
<1>1. ASSUME Api PROVE Up
  BY <1>0, <1>1
  DEF Api, QueueMP4, AskDelete, InsertDelete, AskHide, AskHideJobs, Hide, queueVars, requests,
      Queue!Enqueue
<1>2. ASSUME NEW i \in Ids, HandlerStep(i), ~Complete(i) PROVE Up
  <2>1. UNCHANGED queueVars
    BY <1>2
    DEF HandlerStep, GenLoad, GenProbe, GenMark, GenOpen, GenEncode, GenRename, GenSave,
        GenFinish, GenFail, DelLoad, DelResolve, DelRemove, DelRecord, Quiet
  <2>2. Lose \/ Stored
    BY <1>2
    DEF HandlerStep, GenLoad, GenProbe, GenMark, GenOpen, GenEncode, GenRename, GenSave,
        GenFinish, GenFail, DelLoad, DelResolve, DelRemove, DelRecord, Stored
  <2> QED
    BY <1>0, <2>1, <2>2 DEF Lose, Stored, queueVars
<1>3. ASSUME NEW i \in Ids, Claim(i) \/ Complete(i) PROVE Up
  BY <1>0, <1>3
  DEF Claim, Complete, Queue!Dispatch, Queue!HandlerReturns, Queue!CompletionLost
<1>4. ASSUME QueueOnly \/ Shutdown \/ Die \/ Restart PROVE Up
  BY <1>0, <1>4
  DEF QueueOnly, Shutdown, Die, Restart, Queue!Requeue, Queue!RequeueLost,
      Queue!ClaimWithoutSlot, Queue!ClaimUncertain, Queue!Shutdown, Queue!Crash,
      Queue!Exit, Queue!RecoveryDone, Queue!Restart
<1>5. ASSUME StartReplayed \/ UNCHANGED vars PROVE Up
  BY <1>5 DEF StartReplayed, vars, queueVars
<1>6. Up
  BY <1>1, <1>2, <1>3, <1>4, <1>5 DEF Next, Ids
<1> QED
  BY <1>0, <1>6 DEF Calm, NothingLost

\* The places of a handler that say something about a file.
Critical == {"resolve", "remove", "record", "save", "finish"}

\* A step that touches no file and no row, and brings no handler to such a place.
LEMMA FilesStay ==
    ASSUME IInv, FilesOK, Calm' => Calm, UNCHANGED <<row, file>>,
           Ids \subseteq Ids',
           \A k \in Ids : (Generates(k)' <=> Generates(k)) /\ Target(k)' = Target(k),
           \A i : \A p \in Critical :
              i \in handlers' /\ hpc'[i] = p => i \in handlers /\ hpc[i] = p,
           Calm' => \A i : \A p \in {"record", "finish"} :
              i \in handlers /\ hpc[i] = p => i \in handlers' /\ hpc'[i] = p,
           \A j \in Jobs : \/ job'[j] = job[j]
                           \/ job'[j] = "queued" /\ row["mp4"] # "ready",
           OpenIsBusy', ToldToStop'
    PROVE  FilesOK'
<1>1. handlers \subseteq Ids
  BY Types DEF IInv
<1>2. OneDeletion' => OneDeletion
  BY DEF OneDeletion
<1>3. \A p \in Critical : \A t : At(p, t)' => At(p, t)
  BY <1>1 DEF At
<1>4. Calm' => \A p \in {"record", "finish"} : \A t : At(p, t) => At(p, t)'
  BY <1>1 DEF At
<1>5. TsKept'
  BY <1>3, <1>4 DEF FilesOK, TsKept, Critical
<1>6. Mp4Known'
  BY DEF FilesOK, Mp4Known, Critical
<1>7. Mp4Kept'
  <2> SUFFICES ASSUME OneDeletion' PROVE Mp4Kept'
    BY DEF Mp4Kept
  <2>1. Calm' /\ OneDeletion
    BY <1>2 DEF OneDeletion
  <2>2. \A j \in Jobs : Busy(job'[j]) => Busy(job[j]) \/ row["mp4"] # "ready"
    OBVIOUS
  <2>3. \A i \in handlers' : hpc'[i] = "save" => i \in handlers /\ hpc[i] = "save"
    BY DEF Critical
  <2>4. \A i \in handlers : hpc[i] = "finish" => i \in handlers' /\ hpc'[i] = "finish"
    BY <2>1
  <2>5. /\ At("record", "mp4") => At("record", "mp4")'
        /\ At("resolve", "mp4")' => At("resolve", "mp4")
        /\ At("remove", "mp4")' => At("remove", "mp4")
        /\ At("record", "mp4")' => At("record", "mp4")
    BY <1>3, <1>4, <2>1 DEF Critical
  <2> QED
    BY <2>1, <2>2, <2>3, <2>4, <2>5 DEF FilesOK, Mp4Kept
<1> QED
  BY <1>5, <1>6, <1>7 DEF FilesOK

LEMMA WebFiles == ASSUME IInv, FilesOK, Calm' => Calm, Api PROVE FilesOK'
<1>0. /\ QueueOK /\ hpc \in [1..MaxCommands -> Places] /\ handlers \subseteq Ids
      /\ job \in [Jobs -> {"none", "queued", "running", "ready", "failed"}]
      /\ \A i \in Ids : Generates(i) => Target(i) \in Jobs /\ job[Target(i)] # "none"
      /\ Calm => \A i \in Ids :
             Generates(i) /\ Open(commands[i].status) =>
                 Busy(job[Target(i)]) \/ (i \in handlers /\ hpc[i] \in {"ok", "error"})
      /\ ToldToStop
  BY Types DEF IInv, QueueOK, OwnCommands, FilesOK, OpenIsBusy
<1>1. ASSUME NEW kind \in Queue!Kinds, NEW t \in Jobs \cup Kinds, Queue!Enqueue(kind, t),
             UNCHANGED <<row, file, hpc>>,
             \/ kind # "generate_mp4" /\ job' = job
             \/ /\ t \in Jobs /\ job[t] = "none" /\ row["mp4"] # "ready"
                /\ job' = [job EXCEPT ![t] = "queued"]
      PROVE  FilesOK'
  <2>1. PICK n : /\ n \notin Ids /\ Ids' = Ids \cup {n}
                 /\ commands'[n].kind = kind /\ commands'[n].target = t
                 /\ commands'[n].status = "pending"
                 /\ \A k \in Ids : commands'[k] = commands[k]
    BY <1>0, <1>1, QueueGrows
  <2>2. handlers' = handlers /\ hpc' = hpc
    BY <1>0, <1>1, QueueGrows
  <2>3. \A k \in Ids : (Generates(k)' <=> Generates(k)) /\ Target(k)' = Target(k)
    BY <2>1 DEF Generates, Target
  <2>4. \A j \in Jobs : job'[j] = job[j] \/ (job'[j] = "queued" /\ row["mp4"] # "ready")
    BY <1>0, <1>1
  <2>5. OpenIsBusy'
    <3> SUFFICES ASSUME Calm', NEW i \in Ids', Generates(i)', Open(commands'[i].status)
                 PROVE  \/ Busy(job'[Target(i)'])
                        \/ i \in handlers' /\ hpc'[i] \in {"ok", "error"}
      BY DEF OpenIsBusy
    <3>1. CASE i = n
      BY <1>0, <1>1, <2>1, <3>1 DEF Generates, Target, Busy
    <3>2. CASE i \in Ids
      <4>1. Target(i)' = Target(i) /\ Target(i) \in Jobs /\ Open(commands[i].status)
            /\ Generates(i)
        BY <1>0, <2>1, <2>3, <3>2
      <4>2. Busy(job[Target(i)]) => Busy(job'[Target(i)])
        BY <2>4, <4>1 DEF Busy
      <4> QED
        BY <1>0, <2>2, <3>2, <4>1, <4>2
    <3> QED
      BY <2>1, <3>1, <3>2
  <2>6. ToldToStop'
    BY <1>0, <1>1 DEF Queue!Enqueue, ToldToStop
  <2> QED
    BY <1>1, <2>1, <2>2, <2>3, <2>4, <2>5, <2>6, FilesStay
<1>2. ASSUME NEW j \in Jobs, QueueMP4(j) PROVE FilesOK'
  <2>1. /\ Queue!Enqueue("generate_mp4", j) /\ "generate_mp4" \in Queue!Kinds
        /\ job[j] = "none" /\ row["mp4"] # "ready" /\ job' = [job EXCEPT ![j] = "queued"]
        /\ UNCHANGED <<row, file, hpc>>
    BY <1>2 DEF QueueMP4, SetJob, media, Queue!Kinds
  <2> QED
    BY <1>1, <2>1
<1>3. ASSUME NEW k \in Kinds, InsertDelete(k) PROVE FilesOK'
  <2>1. /\ Queue!Enqueue("delete_file", k) /\ "delete_file" \in Queue!Kinds
        /\ UNCHANGED <<row, file, hpc, job>>
    BY <1>3 DEF InsertDelete, media, Queue!Kinds
  <2> QED
    BY <1>1, <2>1
<1>4. CASE (\E k \in Kinds : AskDelete(k)) \/ AskHide \/ AskHideJobs \/ Hide
  <2>1. UNCHANGED <<commands, handlers, row, file, hpc, job>>
    BY <1>4 DEF AskDelete, AskHide, AskHideJobs, Hide, queueVars, media
  <2>2. /\ Ids' = Ids
        /\ \A k \in Ids : (Generates(k)' <=> Generates(k)) /\ Target(k)' = Target(k)
    BY <2>1 DEF Ids, Generates, Target
  <2>3. OpenIsBusy' /\ ToldToStop'
    BY <1>4, <2>1, <2>2
    DEF FilesOK, OpenIsBusy, ToldToStop, AskDelete, AskHide, AskHideJobs, Hide, queueVars
  <2> QED
    BY <2>1, <2>2, <2>3, FilesStay
<1> QED
  BY <1>2, <1>3, <1>4 DEF Api

\* A step of the poll loop.
LEMMA LoopFiles ==
    ASSUME IInv, FilesOK, Calm' => Calm,
           \/ \E i \in Ids : Claim(i) \/ Complete(i)
           \/ QueueOnly \/ Shutdown \/ Die \/ Restart
    PROVE  FilesOK'
<1>0. /\ QueueOK /\ hpc \in [1..MaxCommands -> Places] /\ handlers \subseteq Ids
      /\ \A i \in Ids : i \in 1..MaxCommands
      /\ stops \in Nat /\ faults \in Nat
      /\ Calm => \A i \in Ids :
             Generates(i) /\ Open(commands[i].status) =>
                 Busy(job[Target(i)]) \/ (i \in handlers /\ hpc[i] \in {"ok", "error"})
  BY Types, BoundsAssumption
  DEF IInv, QueueOK, FilesOK, OpenIsBusy, TypeOK, Queue!TypeOK
<1>1. UNCHANGED <<row, file, job>> /\ ToldToStop'
  <2>1. ToldToStop
    BY DEF FilesOK
  <2> QED
    BY <1>0, <2>1
    DEF Claim, Complete, QueueOnly, Shutdown, Die, Restart, media, ToldToStop,
        Queue!Dispatch, Queue!HandlerReturns, Queue!CompletionLost, Queue!Requeue,
        Queue!RequeueLost, Queue!ClaimWithoutSlot, Queue!ClaimUncertain, Queue!Shutdown,
        Queue!Crash, Queue!Exit, Queue!ProcessGone, Queue!RecoveryDone, Queue!Restart
<1>2. ASSUME Kept, OpenKept({}), handlers' = handlers, hpc' = hpc PROVE FilesOK'
  <2>1. /\ Ids' = Ids
        /\ \A k \in Ids : /\ (Generates(k)' <=> Generates(k)) /\ Target(k)' = Target(k)
                          /\ Open(commands'[k].status) <=> Open(commands[k].status)
    BY <1>2 DEF Kept, OpenKept, Generates, Target
  <2>2. OpenIsBusy'
    BY <1>0, <1>1, <1>2, <2>1 DEF OpenIsBusy
  <2> QED
    BY <1>1, <1>2, <2>1, <2>2, FilesStay
<1>3. ASSUME Kept, ~Calm', handlers' = {} PROVE FilesOK'
  <2>1. /\ Ids' = Ids
        /\ \A k \in Ids : (Generates(k)' <=> Generates(k)) /\ Target(k)' = Target(k)
    BY <1>3 DEF Kept, Generates, Target
  <2>2. OpenIsBusy'
    BY <1>3 DEF OpenIsBusy
  <2> QED
    BY <1>1, <1>3, <2>1, <2>2, FilesStay
<1>4. ASSUME NEW i \in Ids, Claim(i) PROVE FilesOK'
  <2>1. /\ Kept /\ OpenKept({}) /\ handlers' = handlers \cup {i} /\ i \notin handlers
        /\ hpc' = [hpc EXCEPT ![i] = "begin"]
    BY <1>0, <1>4, QueueClaims DEF Claim, Goto
  <2>2. hpc'[i] = "begin" /\ \A k \in Ids : k # i => hpc'[k] = hpc[k]
    BY <1>0, <2>1
  <2>3. /\ Ids' = Ids
        /\ \A k \in Ids : /\ (Generates(k)' <=> Generates(k)) /\ Target(k)' = Target(k)
                          /\ Open(commands'[k].status) <=> Open(commands[k].status)
    BY <2>1 DEF Kept, OpenKept, Generates, Target
  <2>4. OpenIsBusy'
    BY <1>0, <1>1, <2>1, <2>2, <2>3 DEF OpenIsBusy
  <2>5. \A k : \A p \in Critical :
           k \in handlers' /\ hpc'[k] = p => k \in handlers /\ hpc[k] = p
    BY <1>0, <2>1, <2>2 DEF Critical
  <2>6. \A k : \A p \in {"record", "finish"} :
           k \in handlers /\ hpc[k] = p => k \in handlers' /\ hpc'[k] = p
    BY <1>0, <2>1, <2>2
  <2> QED
    BY <1>1, <2>3, <2>4, <2>5, <2>6, FilesStay
<1>5. ASSUME NEW i \in Ids, Complete(i) PROVE FilesOK'
  <2>1. /\ Kept /\ OpenKept({i}) /\ handlers' = handlers \ {i} /\ i \in handlers
        /\ hpc[i] \in {"ok", "error"} /\ hpc' = [hpc EXCEPT ![i] = "none"]
    BY <1>0, <1>5, QueueCompletes DEF Complete, Goto
  <2>2. hpc'[i] = "none" /\ \A k \in Ids : k # i => hpc'[k] = hpc[k]
    BY <1>0, <2>1
  <2>3. /\ Ids' = Ids
        /\ \A k \in Ids : /\ (Generates(k)' <=> Generates(k)) /\ Target(k)' = Target(k)
                          /\ k # i => (Open(commands'[k].status) <=> Open(commands[k].status))
    BY <2>1 DEF Kept, OpenKept, Generates, Target
  <2>4. Calm' => ~Open(commands'[i].status)
    <3>1. CASE Queue!CompletionLost(i)
      BY <1>0, <3>1 DEF Queue!CompletionLost, Calm, NothingLost
    <3>2. ASSUME NEW o \in {"done", "failed"}, Queue!HandlerReturns(i, o)
          PROVE  ~Open(commands'[i].status)
      <4>1. commands' = [commands EXCEPT ![i].status = o]
        BY <3>2 DEF Queue!HandlerReturns, Queue!SetStatus
      <4>2. commands[i] \in Queue!Command
        BY <1>0 DEF QueueOK, Queue!TypeOK, Ids
      <4>3. commands'[i] = [commands[i] EXCEPT !.status = o]
        BY <1>0, <4>1 DEF Ids, QueueOK, Queue!TypeOK
      <4> QED
        BY <4>2, <4>3 DEF Open, Queue!Command
    <3> QED
      BY <1>5, <3>1, <3>2 DEF Complete
  <2>5. OpenIsBusy'
    BY <1>0, <1>1, <2>1, <2>2, <2>3, <2>4 DEF OpenIsBusy
  <2>6. \A k : \A p \in Critical :
           k \in handlers' /\ hpc'[k] = p => k \in handlers /\ hpc[k] = p
    BY <1>0, <2>1, <2>2 DEF Critical
  <2>7. \A k : \A p \in {"record", "finish"} :
           k \in handlers /\ hpc[k] = p => k \in handlers' /\ hpc'[k] = p
    BY <1>0, <2>1, <2>2
  <2> QED
    BY <1>1, <2>3, <2>5, <2>6, <2>7, FilesStay
<1>6. CASE QueueOnly
  BY <1>0, <1>2, <1>6, QueueClaims, QueueRequeues DEF QueueOnly, Ids
<1>7. CASE Shutdown \/ Restart
  <2>1. /\ Kept /\ OpenKept({}) /\ hpc' = hpc
        /\ handlers' = handlers \/ handlers' = {}
    BY <1>0, <1>7, QueueRestarts DEF Shutdown, Restart
  <2>2. handlers' = handlers
    BY <1>0, <1>7
    DEF Shutdown, Restart, Queue!Shutdown, Queue!Restart, Queue!RecoveryDone
  <2> QED
    BY <1>2, <2>1, <2>2
<1>8. CASE Die
  <2>1. Kept /\ handlers' = {}
    BY <1>0, <1>8, QueueRestarts DEF Die
  <2>2. CASE Queue!Crash
    <3>1. ~Calm'
      BY <1>0, <2>2 DEF Queue!Crash, Calm
    <3> QED
      BY <1>3, <2>1, <3>1
  <2>3. CASE Queue!Exit
    <3>1. ~Calm'
      BY <1>0, <2>3 DEF Queue!Exit, Calm, FilesOK, ToldToStop
    <3> QED
      BY <1>3, <2>1, <3>1
  <2> QED
    BY <1>8, <2>2, <2>3 DEF Die
<1> QED
  BY <1>4, <1>5, <1>6, <1>7, <1>8

(* The handlers' steps. *)
LEMMA HandlerGoes ==
    ASSUME IInv, Calm' => Calm, NEW i \in handlers, NEW p, Goto(i, p), UNCHANGED queueVars
    PROVE  /\ hpc'[i] = p /\ \A k \in handlers : k # i => hpc'[k] = hpc[k]
           /\ handlers' = handlers /\ handlers \subseteq Ids /\ Ids' = Ids
           /\ \A k \in Ids : /\ (Generates(k)' <=> Generates(k)) /\ Target(k)' = Target(k)
                             /\ commands'[k].status = commands[k].status
           /\ UNCHANGED <<stops, worker>>
           /\ OneDeletion' => OneDeletion
           /\ \A q, t : At(q, t)' <=>
                 \/ q = p /\ Target(i) = t
                 \/ \E k \in handlers : k # i /\ hpc[k] = q /\ Target(k) = t
<1>1. /\ hpc \in [1..MaxCommands -> Places] /\ handlers \subseteq Ids
      /\ \A k \in Ids : k \in 1..MaxCommands
  BY Types DEF IInv
<1>2. hpc'[i] = p /\ \A k \in handlers : k # i => hpc'[k] = hpc[k]
  BY <1>1 DEF Goto
<1>3. commands' = commands /\ handlers' = handlers /\ Ids' = Ids /\ UNCHANGED <<stops, worker>>
  BY DEF queueVars, Ids
<1>4. \A k \in Ids : /\ (Generates(k)' <=> Generates(k)) /\ Target(k)' = Target(k)
                     /\ commands'[k].status = commands[k].status
  BY <1>3 DEF Generates, Target
<1>5. OneDeletion' => OneDeletion
  BY <1>3, <1>4 DEF OneDeletion
<1>6. \A q, t : At(q, t)' <=>
         \/ q = p /\ Target(i) = t
         \/ \E k \in handlers : k # i /\ hpc[k] = q /\ Target(k) = t
  BY <1>1, <1>2, <1>3, <1>4 DEF At
<1> QED
  BY <1>1, <1>2, <1>3, <1>4, <1>5, <1>6

\* What is left when the three parts about files are known.
LEMMA HandlerFiles ==
    ASSUME IInv, FilesOK, Calm' => Calm, NEW i \in handlers, NEW p, Goto(i, p),
           UNCHANGED queueVars,
           \A j \in Jobs : j # Target(i) => job'[j] = job[j],
           Calm' /\ Generates(i) => Busy(job'[Target(i)]) \/ p \in {"ok", "error"},
           TsKept', Mp4Known', Mp4Kept'
    PROVE  FilesOK'
<1>1. OpenIsBusy'
  <2> SUFFICES ASSUME Calm', NEW k \in Ids, Generates(k), Open(commands[k].status)
               PROVE  Busy(job'[Target(k)]) \/ (k \in handlers /\ hpc'[k] \in {"ok", "error"})
    BY HandlerGoes DEF OpenIsBusy
  <2>1. CASE k = i
    BY <2>1, HandlerGoes
  <2>2. CASE k # i
    <3>1. Target(k) # Target(i) /\ Target(k) \in Jobs
      BY <2>2, HandlerGoes, Types DEF IInv, OwnCommands
    <3>2. Busy(job[Target(k)]) \/ (k \in handlers /\ hpc[k] \in {"ok", "error"})
      BY DEF FilesOK, OpenIsBusy
    <3> QED
      BY <2>2, <3>1, <3>2, HandlerGoes
  <2> QED
    BY <2>1, <2>2
<1>2. ToldToStop'
  BY HandlerGoes DEF FilesOK, ToldToStop
<1> QED
  BY <1>1, <1>2 DEF FilesOK

\* A step that says nothing of a row, and of a file at most by what it leaves behind.
LEMMA PlainStep ==
    ASSUME IInv, FilesOK, Calm' => Calm, NEW i \in handlers, NEW p, Goto(i, p),
           UNCHANGED queueVars, p \notin Critical, Calm' => hpc[i] \notin {"record", "finish"},
           UNCHANGED row, \A k \in Kinds : k \in file' <=> k \in file,
           \A j \in Jobs : j # Target(i) => job'[j] = job[j],
           Target(i) \in Jobs => job'[Target(i)] # "ready" \/ job'[Target(i)] = job[Target(i)],
           Calm' /\ Generates(i) => Busy(job'[Target(i)]) \/ p \in {"ok", "error"},
           Calm' /\ Target(i) \in Jobs /\ Busy(job'[Target(i)]) => Busy(job[Target(i)])
    PROVE  FilesOK'
<1>1. \A q \in Critical : \A t : At(q, t)' => At(q, t)
  BY HandlerGoes DEF At
<1>2. Calm' => \A q \in {"record", "finish"} : \A t : At(q, t) => At(q, t)'
  BY HandlerGoes DEF At
<1>3. TsKept'
  BY <1>1, <1>2 DEF FilesOK, TsKept, Critical, Kinds
<1>4. Mp4Known'
  BY HandlerGoes DEF FilesOK, Mp4Known, Critical
<1>5. Mp4Kept'
  <2> SUFFICES ASSUME OneDeletion' PROVE Mp4Kept'
    BY DEF Mp4Kept
  <2>1. Calm' /\ OneDeletion /\ hpc[i] \notin {"record", "finish"}
    BY HandlerGoes DEF OneDeletion
  <2>2. \A j \in Jobs : Busy(job'[j]) => Busy(job[j])
    BY <2>1
  <2>3. /\ \A k \in handlers' : hpc'[k] = "save" => k \in handlers /\ hpc[k] = "save"
        /\ \A k \in handlers : hpc[k] = "finish" => k \in handlers' /\ hpc'[k] = "finish"
    BY <2>1, HandlerGoes DEF Critical
  <2>4. /\ At("record", "mp4") => At("record", "mp4")'
        /\ At("resolve", "mp4")' => At("resolve", "mp4")
        /\ At("remove", "mp4")' => At("remove", "mp4")
        /\ At("record", "mp4")' => At("record", "mp4")
        /\ "mp4" \in file' <=> "mp4" \in file
    BY <1>1, <1>2, <2>1 DEF Critical, Kinds
  <2> QED
    BY <2>1, <2>2, <2>3, <2>4 DEF FilesOK, Mp4Kept
<1> QED
  BY <1>3, <1>4, <1>5, HandlerFiles

LEMMA ConversionFiles ==
    ASSUME IInv, FilesOK, Calm' => Calm, NEW i \in Ids,
           \/ GenLoad(i) \/ GenProbe(i) \/ GenMark(i) \/ GenOpen(i) \/ GenEncode(i)
           \/ GenRename(i) \/ GenSave(i) \/ GenFinish(i) \/ GenFail(i)
    PROVE  FilesOK'
<1>1. /\ lost \in Nat /\ job \in [Jobs -> {"none", "queued", "running", "ready", "failed"}]
      /\ row \in [Kinds -> {"none", "ready", "deleted"}]
  BY Types, BoundsAssumption DEF IInv
<1>2. Lose => ~Calm'
  BY <1>1 DEF Lose, Calm, NothingLost
<1>3. /\ i \in handlers /\ Generates(i) /\ UNCHANGED queueVars
      /\ Target(i) \in Jobs /\ Target(i) \notin Kinds
      /\ hpc[i] \notin {"ok", "error", "record"}
  <2>1. /\ i \in handlers /\ Generates(i) /\ UNCHANGED queueVars
        /\ hpc[i] \notin {"ok", "error", "record"}
    BY DEF GenLoad, GenProbe, GenMark, GenOpen, GenEncode, GenRename, GenSave, GenFinish,
           GenFail, Converting, Quiet, Generates
  <2>2. Target(i) \in Jobs /\ Target(i) \notin Kinds
    BY <2>1, JobsAssumption DEF IInv, OwnCommands, Kinds
  <2> QED
    BY <2>1, <2>2
<1>4. Calm => Busy(job[Target(i)])
  BY <1>3 DEF IInv, QueueOwns, FilesOK, OpenIsBusy, Open
<1>5. CASE GenLoad(i)
  <2>1. PICK p \in {"error", "probe", "failing"} : Goto(i, p)
    BY <1>5, Zenon DEF GenLoad
  <2>2. UNCHANGED <<row, file, job>> /\ hpc[i] = "begin"
    BY <1>5 DEF GenLoad, Converting, media
  <2> QED
    BY <1>3, <1>4, <2>1, <2>2, PlainStep DEF Critical
<1>6. CASE GenProbe(i)
  <2>1. PICK p \in {"mark", "failing", "error"} : Goto(i, p)
    BY <1>6 DEF GenProbe, AfterRefusal
  <2>2. UNCHANGED <<row, file, job>> /\ hpc[i] = "probe"
    BY <1>6 DEF GenProbe, Converting, media
  <2> QED
    BY <1>3, <1>4, <2>1, <2>2, PlainStep DEF Critical
<1>7. CASE GenMark(i)
  <2>1. PICK p \in {"open", "error"} : Goto(i, p) /\ (p = "open" => SetJob(Target(i), "running"))
                                      /\ (p = "error" => job' = job)
    BY <1>7 DEF GenMark, Target
  <2>2. UNCHANGED <<row, file>> /\ hpc[i] = "mark"
    BY <1>7 DEF GenMark, Converting, media
  <2>3. /\ \A j \in Jobs : j # Target(i) => job'[j] = job[j]
        /\ job'[Target(i)] \in {"running", job[Target(i)]}
        /\ p = "open" => job'[Target(i)] = "running"
    BY <1>1, <1>3, <2>1 DEF SetJob
  <2>4. Busy("running")
    BY DEF Busy
  <2> QED
    BY <1>3, <1>4, <2>1, <2>2, <2>3, <2>4, PlainStep DEF Critical
<1>8. CASE GenOpen(i)
  <2>1. PICK p \in {"encode", "failing", "error"} : Goto(i, p)
    BY <1>8 DEF GenOpen
  <2>2. /\ UNCHANGED <<row, job>> /\ hpc[i] = "open"
        /\ \A k \in Kinds : k \in file' <=> k \in file
    BY <1>8 DEF GenOpen, Converting, Kinds
  <2> QED
    BY <1>3, <1>4, <2>1, <2>2, PlainStep DEF Critical
<1>9. CASE GenEncode(i)
  <2>1. PICK p \in {"rename", "failing"} : Goto(i, p)
    BY <1>9 DEF GenEncode
  <2>2. UNCHANGED <<row, file, job>> /\ hpc[i] = "encode"
    BY <1>9 DEF GenEncode, Converting, media
  <2> QED
    BY <1>3, <1>4, <2>1, <2>2, PlainStep DEF Critical
<1>10. CASE GenRename(i)
  <2>1. UNCHANGED <<row, job>> /\ hpc[i] = "rename"
    BY <1>10 DEF GenRename, Converting
  <2>2. CASE UNCHANGED file /\ Goto(i, "failing")
    BY <1>3, <1>4, <2>1, <2>2, PlainStep DEF Critical
  <2>3. CASE file' = (file \ {"part"}) \cup {"mp4"} /\ Goto(i, "save")
    <3>1. /\ "mp4" \in file' /\ ("ts" \in file' <=> "ts" \in file)
      BY <2>3
    <3>2. /\ \A q \in {"resolve", "remove", "record"} : \A t : At(q, t)' <=> At(q, t)
          /\ \A k \in handlers : hpc[k] = "finish" <=> hpc'[k] = "finish"
          /\ handlers' = handlers
      BY <1>3, <2>1, <2>3, HandlerGoes DEF At
    <3>3. TsKept'
      BY <2>1, <3>1, <3>2 DEF FilesOK, TsKept
    <3>4. Mp4Known'
      BY <2>1, <3>2 DEF FilesOK, Mp4Known
    <3>5. Mp4Kept'
      <4>1. OneDeletion' => OneDeletion
        BY <1>3, <2>3, HandlerGoes
      <4>2. OneDeletion' => Mp4Kept'
        BY <2>1, <3>1, <3>2, <4>1 DEF FilesOK, Mp4Kept
      <4> QED
        BY <4>2 DEF Mp4Kept
    <3> QED
      BY <1>3, <1>4, <2>1, <2>3, <3>3, <3>4, <3>5, HandlerFiles
  <2> QED
    BY <1>10, <2>2, <2>3 DEF GenRename
<1>11. CASE GenSave(i)
  <2>1. UNCHANGED <<file, job>> /\ hpc[i] = "save"
    BY <1>11 DEF GenSave, Converting
  <2>2. CASE Lose /\ UNCHANGED row /\ Goto(i, AfterSaveError)
    BY <1>2, <1>3, <1>4, <2>1, <2>2, PlainStep DEF Critical, AfterSaveError
  <2>3. CASE SetRow("mp4", "ready") /\ Goto(i, "finish") /\ Stored
    <3>1. row'["mp4"] = "ready" /\ row'["ts"] = row["ts"]
      BY <1>1, <2>3 DEF SetRow, Kinds
    <3>2. /\ \A q \in {"resolve", "remove", "record"} : \A t : At(q, t)' <=> At(q, t)
          /\ \A k \in handlers : hpc'[k] = "save" => hpc[k] = "save"
          /\ handlers' = handlers /\ hpc'[i] = "finish"
      BY <1>3, <2>1, <2>3, HandlerGoes DEF At
    <3>3. TsKept'
      BY <2>1, <3>1, <3>2 DEF FilesOK, TsKept
    <3>4. Mp4Known'
      BY <3>1 DEF Mp4Known
    <3>5. Mp4Kept'
      <4>1. OneDeletion' => OneDeletion
        BY <1>3, <2>3, HandlerGoes
      <4>2. OneDeletion' => "mp4" \in file
        BY <1>3, <2>1, <4>1 DEF FilesOK, Mp4Kept
      <4> QED
        BY <1>3, <2>1, <3>1, <3>2, <4>2 DEF Mp4Kept
    <3> QED
      BY <1>3, <1>4, <2>1, <2>3, <3>3, <3>4, <3>5, HandlerFiles
  <2> QED
    BY <1>11, <2>2, <2>3 DEF GenSave
<1>12. CASE GenFinish(i)
  <2>1. UNCHANGED <<row, file>> /\ hpc[i] = "finish" /\ row["mp4"] # "none"
    BY <1>3, <1>12 DEF GenFinish, Converting, media, FilesOK, Mp4Known
  <2>2. CASE Lose /\ UNCHANGED job /\ Goto(i, "error")
    BY <1>2, <1>3, <1>4, <2>1, <2>2, PlainStep DEF Critical
  <2>3. CASE SetJob(Target(i), "ready") /\ Goto(i, "ok") /\ Stored
    <3>1. /\ job'[Target(i)] = "ready"
          /\ \A j \in Jobs : j # Target(i) => job'[j] = job[j]
      BY <1>1, <1>3, <2>3 DEF SetJob
    <3>2. \A j \in Jobs : ~Busy(job'[j])
      <4>1. Busy(job[Target(i)])
        BY <1>3, <2>1 DEF IInv, ConvertingRuns, Far, Busy
      <4> QED
        BY <1>3, <3>1, <4>1 DEF IInv, OneActive, Busy
    <3>3. /\ \A q \in {"resolve", "remove", "record"} : \A t : At(q, t)' <=> At(q, t)
          /\ \A k \in handlers : hpc'[k] = "save" => hpc[k] = "save"
          /\ handlers' = handlers
      BY <1>3, <2>1, <2>3, HandlerGoes DEF At
    <3>4. TsKept'
      BY <2>1, <3>3 DEF FilesOK, TsKept
    <3>5. Mp4Known'
      BY <2>1 DEF Mp4Known
    <3>6. Mp4Kept'
      <4>1. OneDeletion' => OneDeletion
        BY <1>3, <2>3, HandlerGoes
      <4> QED
        BY <2>1, <3>2, <3>3, <4>1 DEF FilesOK, Mp4Kept
    <3> QED
      BY <1>3, <2>3, <3>1, <3>4, <3>5, <3>6, HandlerFiles
  <2> QED
    BY <1>12, <2>2, <2>3 DEF GenFinish, Target
<1>13. CASE GenFail(i)
  <2>1. /\ UNCHANGED <<row, file>> /\ hpc[i] = "failing" /\ Goto(i, "error")
        /\ SetJob(Target(i), "failed") \/ job' = job
    BY <1>13 DEF GenFail, Converting, media, Target
  <2>2. /\ \A j \in Jobs : j # Target(i) => job'[j] = job[j]
        /\ job'[Target(i)] \in {"failed", job[Target(i)]}
    BY <1>1, <1>3, <2>1 DEF SetJob
  <2> QED
    BY <1>3, <1>4, <2>1, <2>2, PlainStep DEF Critical
<1> QED
  BY <1>5, <1>6, <1>7, <1>8, <1>9, <1>10, <1>11, <1>12, <1>13

LEMMA DeletionFiles ==
    ASSUME IInv, FilesOK, Calm' => Calm, NEW i \in Ids,
           DelLoad(i) \/ DelResolve(i) \/ DelRemove(i) \/ DelRecord(i)
    PROVE  FilesOK'
<1>1. lost \in Nat /\ row \in [Kinds -> {"none", "ready", "deleted"}]
  BY Types, BoundsAssumption DEF IInv
<1>2. Lose => ~Calm'
  BY <1>1 DEF Lose, Calm, NothingLost
<1>3. /\ i \in handlers /\ ~Generates(i) /\ UNCHANGED <<queueVars, job>>
      /\ hpc[i] \in {"begin", "resolve", "remove", "record"}
  BY DEF DelLoad, DelResolve, DelRemove, DelRecord, Deleting, Quiet, Generates, media
<1>4. PICK k : k = Target(i)
  OBVIOUS
<1>5. k \in Kinds /\ k \notin Jobs /\ (k = "ts" \/ k = "mp4")
  BY <1>3, <1>4, JobsAssumption DEF IInv, OwnCommands, Kinds
<1>6. At(hpc[i], k)
  BY <1>3, <1>4 DEF At
<1>7. ASSUME NEW p \in {"ok", "error"}, Goto(i, p), UNCHANGED <<row, file>>,
             Calm' => hpc[i] # "record"
      PROVE  FilesOK'
  BY <1>3, <1>4, <1>5, <1>7, PlainStep DEF Critical
<1>8. ASSUME NEW p \in {"resolve", "remove", "record", "ok", "error"}, Goto(i, p)
      PROVE  /\ \A q : \A t : t # k => (At(q, t)' <=> At(q, t))
             /\ \A q \in {"resolve", "remove", "record"} :
                   q # hpc[i] /\ q # p => (At(q, k)' <=> At(q, k))
             /\ p \in {"resolve", "remove", "record"} => At(p, k)'
             /\ handlers' = handlers
             /\ \A s \in handlers : \A q \in {"save", "finish"} : hpc'[s] = q <=> hpc[s] = q
             /\ OneDeletion' => OneDeletion
  BY <1>3, <1>4, <1>8, HandlerGoes DEF At
<1>9. CASE DelLoad(i)
  <2>1. UNCHANGED <<row, file>> /\ hpc[i] = "begin"
    BY <1>9 DEF DelLoad, Deleting, media
  <2>2. CASE Goto(i, "error")
    BY <1>7, <2>1, <2>2
  <2>3. CASE row[k] = "ready" /\ Goto(i, "resolve")
    <3>1. /\ \A q \in {"remove", "record"} : \A t : At(q, t)' <=> At(q, t)
          /\ At("resolve", "mp4")' => At("resolve", "mp4") \/ k = "mp4"
      BY <1>8, <2>1, <2>3
    <3>2. TsKept' /\ Mp4Known'
      BY <1>3, <1>8, <2>1, <2>3, <3>1 DEF FilesOK, TsKept, Mp4Known
    <3>3. OneDeletion' => Mp4Kept'
      BY <1>3, <1>8, <2>1, <2>3, <3>1 DEF FilesOK, Mp4Kept
    <3> QED
      BY <1>3, <2>3, <3>2, <3>3, HandlerFiles DEF Mp4Kept
  <2> QED
    BY <1>4, <1>9, <2>2, <2>3 DEF DelLoad, Target
<1>10. CASE DelResolve(i)
  <2>1. UNCHANGED <<row, file>> /\ hpc[i] = "resolve"
    BY <1>10 DEF DelResolve, Deleting, media
  <2>2. CASE Goto(i, "error")
    BY <1>7, <2>1, <2>2
  <2>3. CASE Goto(i, "remove")
    <3>1. /\ \A t : At("record", t)' <=> At("record", t)
          /\ At("resolve", "mp4")' \/ At("remove", "mp4")' =>
                 At("resolve", "mp4") \/ At("remove", "mp4")
      <4>1. k # "mp4" => /\ At("resolve", "mp4")' <=> At("resolve", "mp4")
                         /\ At("remove", "mp4")' <=> At("remove", "mp4")
        BY <1>8, <2>3
      <4>2. k = "mp4" => At("resolve", "mp4")
        BY <1>6, <2>1
      <4>3. \A t : At("record", t)' <=> At("record", t)
        BY <1>8, <2>1, <2>3
      <4> QED
        BY <4>1, <4>2, <4>3
    <3>2. TsKept' /\ Mp4Known'
      BY <1>3, <1>8, <2>1, <2>3, <3>1 DEF FilesOK, TsKept, Mp4Known
    <3>3. OneDeletion' => Mp4Kept'
      BY <1>3, <1>8, <2>1, <2>3, <3>1 DEF FilesOK, Mp4Kept
    <3> QED
      BY <1>3, <2>3, <3>2, <3>3, HandlerFiles DEF Mp4Kept
  <2> QED
    BY <1>10, <2>2, <2>3 DEF DelResolve
<1>11. CASE DelRemove(i)
  <2>1. UNCHANGED row /\ hpc[i] = "remove"
    BY <1>11 DEF DelRemove, Deleting
  <2>2. CASE UNCHANGED file /\ Goto(i, "error")
    BY <1>7, <2>1, <2>2
  <2>3. CASE file' = file \ {k} /\ Goto(i, "record")
    <3>1. At("record", k)' /\ (OneDeletion' => OneDeletion) /\ handlers' = handlers
      BY <1>8, <2>3
    <3>2. TsKept'
      <4>1. CASE k = "ts"
        BY <2>3, <3>1, <4>1 DEF TsKept
      <4>2. CASE k # "ts"
        <5>1. ("ts" \in file' <=> "ts" \in file) /\ (At("record", "ts")' <=> At("record", "ts"))
          BY <1>8, <2>3, <4>2
        <5> QED
          BY <2>1, <5>1 DEF FilesOK, TsKept
      <4> QED
        BY <4>1, <4>2
    <3>3. Mp4Known'
      BY <1>3, <1>8, <2>1, <2>3 DEF FilesOK, Mp4Known
    <3>4. ASSUME OneDeletion' PROVE Mp4Kept'
      <4>1. CASE k # "mp4"
        <5>1. /\ \A q \in {"resolve", "remove", "record"} : At(q, "mp4")' <=> At(q, "mp4")
              /\ "mp4" \in file' <=> "mp4" \in file
          BY <1>8, <2>3, <4>1
        <5> QED
          BY <1>3, <1>8, <2>1, <2>3, <3>1, <3>4, <5>1 DEF FilesOK, Mp4Kept
      <4>2. CASE k = "mp4"
        <5>1. /\ row["mp4"] = "ready"
              /\ (\E j \in Jobs : Busy(job[j])) => \E f \in handlers : hpc[f] = "finish"
          BY <1>6, <2>1, <3>1, <3>4, <4>2 DEF FilesOK, Mp4Kept
        <5>2. \A s \in handlers : hpc[s] # "save"
          <6> SUFFICES ASSUME NEW s \in handlers, hpc[s] = "save" PROVE FALSE
            OBVIOUS
          <6>1. Generates(s) /\ job[Target(s)] = "running" /\ s \in Ids /\ Target(s) \in Jobs
            BY Types DEF IInv, ConvertingRuns, Far, OwnCommands
          <6>2. PICK f \in handlers : hpc[f] = "finish"
            BY <5>1, <6>1 DEF Busy
          <6>3. Generates(f) /\ job[Target(f)] = "running" /\ f \in Ids /\ Target(f) \in Jobs
            BY <6>2, Types DEF IInv, ConvertingRuns, Far, OwnCommands
          <6>4. Target(f) = Target(s)
            BY <6>1, <6>3 DEF IInv, OneActive, Busy
          <6> QED
            BY <6>1, <6>2, <6>3, <6>4 DEF IInv, OwnCommands
        <5> QED
          BY <1>3, <1>8, <2>1, <2>3, <3>1, <4>2, <5>1, <5>2 DEF Mp4Kept
      <4> QED
        BY <4>1, <4>2
    <3> QED
      BY <1>3, <2>3, <3>2, <3>3, <3>4, HandlerFiles DEF Mp4Kept
  <2> QED
    BY <1>4, <1>11, <2>2, <2>3 DEF DelRemove, AfterRemove, Target
<1>12. CASE DelRecord(i)
  <2>1. UNCHANGED file /\ hpc[i] = "record"
    BY <1>12 DEF DelRecord, Deleting
  <2>2. CASE Lose /\ UNCHANGED row /\ Goto(i, "error")
    BY <1>2, <1>7, <2>1, <2>2
  <2>3. CASE row[k] = "ready" /\ SetRow(k, "deleted") /\ Goto(i, "ok")
    <3>1. row'[k] = "deleted" /\ \A t \in Kinds : t # k => row'[t] = row[t]
      BY <1>1, <1>5, <2>3 DEF SetRow
    <3>2. TsKept'
      <4>1. CASE k = "ts"
        BY <1>6, <2>1, <3>1, <4>1 DEF FilesOK, TsKept
      <4>2. CASE k # "ts"
        BY <1>8, <2>1, <2>3, <3>1, <4>2 DEF FilesOK, TsKept, Kinds
      <4> QED
        BY <4>1, <4>2
    <3>3. row'["mp4"] # "none" \/ row'["mp4"] = row["mp4"]
      BY <1>5, <3>1 DEF Kinds
    <3>4. Mp4Known'
      BY <1>3, <1>8, <2>1, <2>3, <3>3 DEF FilesOK, Mp4Known
    <3>5. ASSUME OneDeletion' PROVE Mp4Kept'
      <4>1. CASE k # "mp4"
        <5>1. /\ \A q \in {"resolve", "remove", "record"} : At(q, "mp4")' <=> At(q, "mp4")
              /\ row'["mp4"] = row["mp4"]
          BY <1>8, <2>3, <3>1, <4>1 DEF Kinds
        <5> QED
          BY <1>3, <1>8, <2>1, <2>3, <3>5, <5>1 DEF FilesOK, Mp4Kept
      <4>2. CASE k = "mp4"
        <5>1. \A q \in {"resolve", "remove", "record"} : ~At(q, "mp4")'
          <6>1. /\ \A q \in {"resolve", "remove", "record"} :
                      At(q, "mp4")' => \E j \in handlers : j # i /\ Target(j) = "mp4"
                /\ handlers \subseteq Ids /\ OneDeletion
            BY <1>3, <2>3, <3>5, HandlerGoes
          <6>2. \A j \in Ids : Target(j) = "mp4" => j = i
            BY <1>3, <1>4, <4>2, <6>1 DEF OneDeletion
          <6> QED
            BY <6>1, <6>2
        <5> QED
          BY <1>3, <1>8, <2>1, <2>3, <3>1, <3>5, <4>2, <5>1 DEF FilesOK, Mp4Kept
      <4> QED
        BY <4>1, <4>2
    <3> QED
      BY <1>3, <2>3, <3>2, <3>4, <3>5, HandlerFiles DEF Mp4Kept
  <2>4. CASE row[k] # "ready" /\ UNCHANGED row /\ Goto(i, "error")
    <3>1. TsKept'
      <4>1. CASE k = "ts"
        <5>1. "ts" \notin file
          BY <1>6, <2>1, <4>1 DEF FilesOK, TsKept
        <5> QED
          BY <2>1, <2>4, <4>1, <5>1 DEF TsKept
      <4>2. CASE k # "ts"
        BY <1>8, <2>1, <2>4, <4>2 DEF FilesOK, TsKept
      <4> QED
        BY <4>1, <4>2
    <3>2. Mp4Known'
      BY <1>3, <1>8, <2>1, <2>4 DEF FilesOK, Mp4Known
    <3>3. ASSUME OneDeletion' PROVE Mp4Kept'
      <4>1. OneDeletion
        BY <1>8, <2>4, <3>3
      <4>2. k # "mp4"
        BY <1>6, <2>1, <2>4, <4>1 DEF FilesOK, Mp4Kept
      <4>3. \A q \in {"resolve", "remove", "record"} : At(q, "mp4")' <=> At(q, "mp4")
        BY <1>8, <2>4, <4>2
      <4> QED
        BY <1>3, <1>8, <2>1, <2>4, <4>1, <4>3 DEF FilesOK, Mp4Kept
    <3> QED
      BY <1>3, <2>4, <3>1, <3>2, <3>3, HandlerFiles DEF Mp4Kept
  <2> QED
    BY <1>4, <1>12, <2>2, <2>3, <2>4 DEF DelRecord, Target
<1> QED
  BY <1>9, <1>10, <1>11, <1>12

LEMMA StepFiles == IInv /\ FilesOK /\ [Next]_vars => FilesOK'
<1> SUFFICES ASSUME IInv, FilesOK, [Next]_vars PROVE FilesOK'
  OBVIOUS
<1>1. Calm' => Calm
  BY CalmBefore
<1>2. CASE Api
  BY <1>1, <1>2, WebFiles
<1>3. CASE \E i \in Ids : HandlerStep(i) /\ ~Complete(i)
  BY <1>1, <1>3, ConversionFiles, DeletionFiles DEF HandlerStep
<1>4. CASE \/ \E i \in Ids : Claim(i) \/ Complete(i)
           \/ QueueOnly \/ Shutdown \/ Die \/ Restart
  BY <1>1, <1>4, LoopFiles
<1>5. CASE StartReplayed \/ UNCHANGED vars
  <2>1. UNCHANGED <<commands, handlers, hpc, row, file, job, stops, worker, lost, faults>>
    BY <1>5 DEF StartReplayed, vars, queueVars, media
  <2>2. \A q, t : At(q, t)' <=> At(q, t)
    BY <2>1 DEF At, Target
  <2>3. (Calm' <=> Calm) /\ (OneDeletion' <=> OneDeletion)
    BY <2>1 DEF Calm, NothingLost, OneDeletion, Ids, Target
  <2>4. TsKept' /\ Mp4Known' /\ ToldToStop'
    BY <2>1, <2>2, <2>3 DEF FilesOK, TsKept, Mp4Known, ToldToStop
  <2>5. OpenIsBusy'
    BY <2>1, <2>3 DEF FilesOK, OpenIsBusy, Ids, Generates, Target
  <2>6. Mp4Kept'
    BY <2>1, <2>2, <2>3 DEF FilesOK, Mp4Kept
  <2> QED
    BY <2>4, <2>5, <2>6 DEF FilesOK
<1> QED
  BY <1>2, <1>3, <1>4, <1>5 DEF Next, Ids

LEMMA InitFiles == Init => FilesOK
<1> SUFFICES ASSUME Init PROVE FilesOK
  OBVIOUS
<1>1. /\ commands = <<>> /\ handlers = {} /\ worker = "down" /\ file = {"ts"}
      /\ row["ts"] = "ready" /\ row["mp4"] = "none" /\ \A j \in Jobs : job[j] = "none"
  BY DEF Init, Queue!Init, Kinds
<1>2. Ids = {} /\ \A q, t : ~At(q, t)
  BY <1>1 DEF Ids, At
<1>3. TsKept /\ Mp4Known
  BY <1>1, <1>2 DEF TsKept, Mp4Known
<1>4. OpenIsBusy
  BY <1>2 DEF OpenIsBusy
<1>5. Mp4Kept
  BY <1>1, <1>2 DEF Mp4Kept
<1> QED
  BY <1>1, <1>3, <1>4, <1>5 DEF FilesOK, ToldToStop

\* The record of a ready recording that is being removed was read without a TS, and a TS
\* row is ready only once; what has failed stays failed.
Removed == status = "ready" /\ (hidden \/ hiding # "no") => row["ts"] # "ready"

LEMMA StepRemoved ==
    ASSUME IInv, Removed, [Next]_vars
    PROVE  Removed'
<1>1. row \in [Kinds -> {"none", "ready", "deleted"}] /\ "ts" \in Kinds
  BY Types DEF IInv, Kinds
<1>2. row'["ts"] \in {row["ts"], "deleted"}
  <2>1. ASSUME NEW i \in Ids, HandlerStep(i) PROVE row'["ts"] \in {row["ts"], "deleted"}
    <3>1. row' = row \/ SetRow("mp4", "ready") \/ SetRow(Target(i), "deleted")
      BY <2>1
      DEF HandlerStep, GenLoad, GenProbe, GenMark, GenOpen, GenEncode, GenRename, GenSave,
          GenFinish, GenFail, DelLoad, DelResolve, DelRemove, DelRecord, Complete, Target,
          media
    <3> QED
      BY <1>1, <3>1 DEF SetRow
  <2>2. ~(\E i \in Ids : HandlerStep(i)) => row' = row
    BY DEF Next, Api, QueueMP4, AskDelete, InsertDelete, AskHide, AskHideJobs, Hide, Claim,
           QueueOnly, StartReplayed, Shutdown, Die, Restart, vars, media, Ids
  <2> QED
    BY <2>1, <2>2
<1>0. status \in {"ready", "failed"} /\ status' \in {status, "failed"}
  <2>1. ASSUME NEW i \in Ids, HandlerStep(i) PROVE status' = status
    BY <2>1
    DEF HandlerStep, GenLoad, GenProbe, GenMark, GenOpen, GenEncode, GenRename, GenSave,
        GenFinish, GenFail, DelLoad, DelResolve, DelRemove, DelRecord, Complete, Quiet
  <2>2. ~(\E i \in Ids : HandlerStep(i)) => status' \in {status, "failed"}
    BY DEF Next, Api, QueueMP4, AskDelete, InsertDelete, AskHide, AskHideJobs, Hide, Claim,
           QueueOnly, StartReplayed, Shutdown, Die, Restart, vars, Ids
  <2> QED
    BY <2>1, <2>2, Types DEF IInv
<1>3. CASE AskHide
  BY <1>3, Zenon DEF AskHide, Removed, Kinds, media
<1>4. CASE AskHideJobs \/ Hide
  BY <1>0, <1>2, <1>4 DEF AskHideJobs, Hide, Removed, media
<1>5. CASE ~AskHide /\ ~AskHideJobs /\ ~Hide
  <2>1. UNCHANGED <<hidden, hiding>>
    <3>1. ASSUME NEW i \in Ids, HandlerStep(i) PROVE UNCHANGED <<hidden, hiding>>
      BY <3>1
      DEF HandlerStep, GenLoad, GenProbe, GenMark, GenOpen, GenEncode, GenRename, GenSave,
          GenFinish, GenFail, DelLoad, DelResolve, DelRemove, DelRecord, Complete, Quiet,
          media, requests
    <3>2. ~(\E i \in Ids : HandlerStep(i)) => UNCHANGED <<hidden, hiding>>
      BY <1>5
      DEF Next, Api, QueueMP4, AskDelete, InsertDelete, Claim, QueueOnly, StartReplayed,
          Shutdown, Die, Restart, vars, media, requests, Ids
    <3> QED
      BY <3>1, <3>2
  <2> QED
    BY <1>0, <1>2, <2>1 DEF Removed
<1> QED
  BY <1>3, <1>4, <1>5

LEMMA FilesSay == IInv /\ FilesOK /\ Removed => RowsMatchFiles
<1> SUFFICES ASSUME IInv, FilesOK, Removed PROVE RowsMatchFiles
  OBVIOUS
<1>1. ASSUME Calm, NEW k \in Kinds, row[k] = "ready", NobodyDeletes(k), k \notin file
      PROVE  k = "mp4" /\ Cardinality(CommandsFor("mp4")) > 1
  <2>1. ~At("record", k)
    BY <1>1 DEF NobodyDeletes, At, Target
  <2>2. k = "mp4"
    BY <1>1, <2>1 DEF FilesOK, TsKept, Kinds
  <2>3. ~OneDeletion
    BY <1>1, <2>1, <2>2 DEF FilesOK, Mp4Kept
  <2>4. PICK a \in Ids, b \in Ids : Target(a) = "mp4" /\ Target(b) = "mp4" /\ a # b
    BY <1>1, <2>3 DEF OneDeletion
  <2>5. /\ {a, b} \subseteq CommandsFor("mp4") /\ IsFiniteSet(CommandsFor("mp4"))
        /\ Cardinality({a, b}) = 2
    <3>1. {a, b} \subseteq CommandsFor("mp4")
      BY <2>4 DEF CommandsFor, Target, Ids
    <3>2. IsFiniteSet(CommandsFor("mp4"))
      <4>1. Len(commands) \in Nat /\ DOMAIN commands = 1..Len(commands)
        BY DEF IInv, TypeOK, Queue!TypeOK
      <4>2. IsFiniteSet(1..Len(commands))
        BY <4>1, FS_Interval
      <4> QED
        BY <4>1, <4>2, FS_Subset DEF CommandsFor
    <3>3. Cardinality({a, b}) = 2
      <4>1. IsFiniteSet({a}) /\ Cardinality({a}) = 1
        BY FS_Singleton
      <4>2. b \notin {a}
        BY <2>4
      <4>3. Cardinality({a} \cup {b}) = Cardinality({a}) + 1
        BY <4>1, <4>2, FS_AddElement
      <4>4. {a} \cup {b} = {a, b}
        OBVIOUS
      <4> QED
        BY <4>1, <4>3, <4>4
    <3> QED
      BY <3>1, <3>2, <3>3
  <2>6. Cardinality(CommandsFor("mp4")) >= 2 /\ Cardinality(CommandsFor("mp4")) \in Nat
    BY <2>5, FS_Subset, FS_CardinalityType
  <2> QED
    BY <2>2, <2>6
<1>2. "ts" \in file => row["ts"] = "ready"
  BY DEF FilesOK, TsKept
<1>3. \A j \in Jobs : job[j] = "ready" => row["mp4"] # "none"
  BY DEF FilesOK, Mp4Known
<1> QED
  BY <1>1, <1>2, <1>3 DEF RowsMatchFiles, Calm, Removed

\* No TS without its row, none of a ready recording removed from the list, and no
\* finished job without an MP4, through crashes and lost writes; and without these every
\* ready row has its file, the MP4's if one deletion of it was asked for
\* (worker.go:594-602,617-636, store_worker.go:106-115, store_recordings.go:199-218).
THEOREM MediaRowsMatchFiles == Spec => []RowsMatchFiles
<1>1. Init => IInv /\ FilesOK /\ Removed
  <2>1. Init => Removed
    BY DEF Init, Removed
  <2> QED
    BY <2>1, InitIInv, InitFiles
<1>2. IInv /\ FilesOK /\ Removed /\ [Next]_vars => (IInv /\ FilesOK /\ Removed)'
  BY StepIInv, StepFiles, StepRemoved
<1>3. IInv /\ FilesOK /\ Removed => RowsMatchFiles
  BY FilesSay
<1> QED
  BY <1>1, <1>2, <1>3, PTL DEF Spec

-----------------------------------------------------------------------------

\* Conversions and deletions do nothing to the queue that CommandQueue does not allow:
\* what CommandQueueProofs shows of it, in particular that every claimed row has its one
\* handler, holds while they fail, are replayed and overlap
\* (worker.go:99-126, store_worker.go:12-45).
THEOREM MediaRunsQueue == Spec => Queue!Spec
<1>1. Init => Queue!Init
  BY DEF Init
<1>2. [Next]_vars => [Queue!Next]_(Queue!vars)
  <2> SUFFICES ASSUME [Next]_vars PROVE Queue!Next \/ UNCHANGED queueVars
    BY DEF queueVars, Queue!vars
  <2>1. CASE Api
    <3>1. ASSUME NEW k \in Queue!Kinds, NEW t \in Jobs \cup Kinds, Queue!Enqueue(k, t)
          PROVE  Queue!Next
      BY <3>1 DEF Queue!Next
    <3> QED
      BY <2>1, <3>1
      DEF Api, QueueMP4, AskDelete, InsertDelete, AskHide, AskHideJobs, Hide, Queue!Kinds
  <2>2. ASSUME NEW i \in Ids, Claim(i) \/ Complete(i) PROVE Queue!Next
    BY <2>2 DEF Claim, Complete, Queue!Next, Queue!Ids, Ids
  <2>3. ASSUME NEW i \in Ids, HandlerStep(i), ~Complete(i) PROVE UNCHANGED queueVars
    BY <2>3
    DEF HandlerStep, GenLoad, GenProbe, GenMark, GenOpen, GenEncode, GenRename, GenSave,
        GenFinish, GenFail, DelLoad, DelResolve, DelRemove, DelRecord, Quiet
  <2>4. CASE QueueOnly \/ Shutdown \/ Die \/ Restart
    BY <2>4 DEF QueueOnly, Shutdown, Die, Restart, Queue!Next, Queue!Ids
  <2> QED
    BY <2>1, <2>2, <2>3, <2>4 DEF Next, StartReplayed, vars, Ids
<1> QED
  BY <1>1, <1>2, PTL DEF Spec, Queue!Spec

=============================================================================
