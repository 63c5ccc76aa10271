-------------------------- MODULE CommandQueueProofs --------------------------
(***************************************************************************)
(* Proofs about CommandQueue, for every number of commands, conversion     *)
(* slots, crashes and lost writes.                                         *)
(***************************************************************************)
EXTENDS CommandQueue, FiniteSetTheorems, SequenceTheorems, TLAPS

\* The type invariant with the one fact about sequences the steps need.
LEMMA RowUpdate ==
    ASSUME NEW rows \in Seq(Command), NEW i \in DOMAIN rows, NEW s \in Statuses
    PROVE  LET new == [rows EXCEPT ![i].status = s]
           IN  /\ new \in Seq(Command)
               /\ Len(new) = Len(rows)
               /\ DOMAIN new = DOMAIN rows
               /\ \A j \in DOMAIN rows :
                     /\ new[j].kind = rows[j].kind
                     /\ new[j].status = IF j = i THEN s ELSE rows[j].status
<1> DEFINE new == [rows EXCEPT ![i].status = s]
<1>1. rows[i] \in Command
  OBVIOUS
<1>2. [rows[i] EXCEPT !.status = s] \in Command
  BY <1>1 DEF Command
<1>3. new = [rows EXCEPT ![i] = [rows[i] EXCEPT !.status = s]]
  OBVIOUS
<1>4. new \in Seq(Command) /\ Len(new) = Len(rows) /\ DOMAIN new = DOMAIN rows
  BY <1>2, <1>3
<1>5. ASSUME NEW j \in DOMAIN rows
      PROVE  /\ new[j].kind = rows[j].kind
             /\ new[j].status = IF j = i THEN s ELSE rows[j].status
  BY <1>1 DEF Command
<1> QED
  BY <1>4, <1>5

LEMMA ResetRows ==
    ASSUME NEW rows \in Seq(Command)
    PROVE  /\ ResetStaleWork(rows) \in Seq(Command)
           /\ Len(ResetStaleWork(rows)) = Len(rows)
           /\ DOMAIN ResetStaleWork(rows) = DOMAIN rows
           /\ \A j \in DOMAIN rows :
                 /\ ResetStaleWork(rows)[j].kind = rows[j].kind
                 /\ ResetStaleWork(rows)[j].status =
                      IF rows[j].status = "claimed" THEN "pending"
                                                    ELSE rows[j].status
<1> DEFINE row(j) == [rows[j] EXCEPT !.status = IF @ = "claimed" THEN "pending" ELSE @]
<1>1. \A j \in DOMAIN rows : rows[j] \in Command
  OBVIOUS
<1>2. \A j \in DOMAIN rows :
         /\ row(j) \in Command
         /\ row(j).kind = rows[j].kind
         /\ row(j).status = IF rows[j].status = "claimed" THEN "pending"
                                                          ELSE rows[j].status
  BY <1>1 DEF Command, Statuses
<1>3. ResetStaleWork(rows) = [j \in 1..Len(rows) |-> row(j)]
  BY DEF ResetStaleWork
<1>4. DOMAIN rows = 1..Len(rows) /\ Len(rows) \in Nat
  OBVIOUS
<1> HIDE DEF row
<1>5. [j \in 1..Len(rows) |-> row(j)] \in Seq(Command)
  BY <1>2, <1>4
<1>6. Len([j \in 1..Len(rows) |-> row(j)]) = Len(rows)
  BY <1>4
<1> QED
  BY <1>2, <1>3, <1>4, <1>5, <1>6

-----------------------------------------------------------------------------

\* Nothing of the process is left when it is down or has just come up, and
\* only the poll loop has a row to put back.
QuietWhenDown ==
    /\ worker \in {"down", "recovering"} => handlers = {}
    /\ requeue # 0 => worker = "polling"

\* The inductive invariant.  HandlersOwnClaims needs QuietWhenDown because a
\* restart rewrites every claimed row; SlotsMatchHandlers needs the type.
IInv ==
    /\ TypeOK
    /\ HandlersOwnClaims
    /\ SlotsMatchHandlers
    /\ ClaimsAreHeld
    /\ QuietWhenDown

LEMMA HandlersFinite ==
    ASSUME TypeOK
    PROVE  /\ IsFiniteSet(handlers)
           /\ IsFiniteSet(Mp4Handlers)
           /\ Cardinality(Mp4Handlers) \in Nat
<1>1. IsFiniteSet(Ids)
  <2>1. Ids = 1..Len(commands) /\ Len(commands) \in Nat
    BY DEF TypeOK, Ids
  <2> QED
    BY <2>1, FS_Interval
<1>2. IsFiniteSet(handlers)
  BY <1>1, FS_Subset DEF TypeOK
<1>3. IsFiniteSet(Mp4Handlers)
  BY <1>2, FS_Subset DEF Mp4Handlers
<1> QED
  BY <1>2, <1>3, FS_CardinalityType

\* Changing one row's status changes no kind, so the conversions among the
\* handlers change only with the set of handlers.
LEMMA SlotsAfter ==
    ASSUME TypeOK, SlotsMatchHandlers, NEW i \in Ids,
           \A j \in Ids : commands'[j].kind = commands[j].kind
    PROVE  /\ handlers' = handlers => Mp4Handlers' = Mp4Handlers
           /\ i \notin handlers /\ handlers' = handlers \cup {i}
                => Cardinality(Mp4Handlers') =
                      IF NeedsSlot(i) THEN conversions + 1 ELSE conversions
           /\ i \in handlers /\ handlers' = handlers \ {i}
                => Cardinality(Mp4Handlers') =
                      IF NeedsSlot(i) /\ conversions > 0 THEN conversions - 1
                                                         ELSE conversions
<1> USE DEF SlotsMatchHandlers
<1>1. IsFiniteSet(Mp4Handlers) /\ Cardinality(Mp4Handlers) \in Nat
  BY HandlersFinite
<1>2. handlers \subseteq Ids
  BY DEF TypeOK
<1>3. handlers' = handlers => Mp4Handlers' = Mp4Handlers
  BY <1>2 DEF Mp4Handlers, NeedsSlot
<1>4. ASSUME i \notin handlers, handlers' = handlers \cup {i}
      PROVE  Cardinality(Mp4Handlers') =
                IF NeedsSlot(i) THEN conversions + 1 ELSE conversions
  <2>1. Mp4Handlers' = IF NeedsSlot(i) THEN Mp4Handlers \cup {i} ELSE Mp4Handlers
    BY <1>2, <1>4 DEF Mp4Handlers, NeedsSlot
  <2>2. i \notin Mp4Handlers
    BY <1>4 DEF Mp4Handlers
  <2> QED
    BY <1>1, <2>1, <2>2, FS_AddElement
<1>5. ASSUME i \in handlers, handlers' = handlers \ {i}
      PROVE  Cardinality(Mp4Handlers') =
                IF NeedsSlot(i) /\ conversions > 0 THEN conversions - 1
                                                   ELSE conversions
  <2>1. CASE NeedsSlot(i)
    <3>1. Mp4Handlers' = Mp4Handlers \ {i} /\ i \in Mp4Handlers
      BY <1>2, <1>5, <2>1 DEF Mp4Handlers, NeedsSlot
    <3>2. Cardinality(Mp4Handlers) # 0
      BY <1>1, <3>1, FS_EmptySet
    <3>3. Cardinality(Mp4Handlers \ {i}) = Cardinality(Mp4Handlers) - 1
      BY <1>1, <3>1, FS_RemoveElement
    <3>4. conversions = Cardinality(Mp4Handlers) /\ conversions > 0
      BY <1>1, <3>2
    <3> QED
      BY <2>1, <3>1, <3>3, <3>4
  <2>2. CASE ~NeedsSlot(i)
    <3>1. Mp4Handlers' = Mp4Handlers
      BY <1>2, <1>5, <2>2 DEF Mp4Handlers, NeedsSlot
    <3> QED
      BY <2>2, <3>1
  <2> QED
    BY <2>1, <2>2
<1> QED
  BY <1>3, <1>4, <1>5

-----------------------------------------------------------------------------

LEMMA InitEstablishes == Init => IInv
<1> SUFFICES ASSUME Init PROVE IInv
  OBVIOUS
<1> USE DEF Init
<1>1. TypeOK
  BY BoundsAssumption DEF TypeOK, Ids
<1>2. HandlersOwnClaims /\ ClaimsAreHeld /\ QuietWhenDown
  BY DEF HandlersOwnClaims, ClaimsAreHeld, QuietWhenDown
<1>3. SlotsMatchHandlers
  <2>1. Mp4Handlers = {}
    BY DEF Mp4Handlers
  <2> QED
    BY <2>1, FS_EmptySet DEF SlotsMatchHandlers
<1> QED
  BY <1>1, <1>2, <1>3 DEF IInv

\* A step that rewrites the status of one row and leaves the rest of the queue
\* to its other conjuncts.
LEMMA OneRow ==
    ASSUME TypeOK, NEW i \in Ids, NEW s \in Statuses, SetStatus(i, s)
    PROVE  /\ commands' \in Seq(Command)
           /\ Len(commands') = Len(commands)
           /\ Ids' = Ids
           /\ \A j \in Ids : /\ commands'[j].kind = commands[j].kind
                             /\ Status(j)' = IF j = i THEN s ELSE Status(j)
  BY RowUpdate DEF TypeOK, Ids, Status, SetStatus

LEMMA EnqueueKeeps ==
    ASSUME IInv, NEW k \in Kinds, NEW t \in Targets, Enqueue(k, t)
    PROVE  IInv'
<1> USE DEF IInv
<1> DEFINE row == [kind |-> k, target |-> t, status |-> "pending"]
<1>1. row \in Command
  BY DEF Command, Statuses
<1>2. /\ commands' = Append(commands, row)
      /\ commands' \in Seq(Command)
      /\ Len(commands') = Len(commands) + 1
      /\ Len(commands) \in Nat
      /\ \A j \in Ids : commands'[j] = commands[j]
      /\ commands'[Len(commands) + 1] = row
      /\ Ids' = Ids \cup {Len(commands) + 1}
  BY <1>1 DEF Enqueue, NewRow, TypeOK, Ids
<1>3. TypeOK'
  BY <1>2, BoundsAssumption DEF Enqueue, NewRow, TypeOK
<1>4. HandlersOwnClaims' /\ QuietWhenDown'
  BY <1>2 DEF Enqueue, NewRow, TypeOK, HandlersOwnClaims, QuietWhenDown, Status
<1>5. SlotsMatchHandlers'
  <2>1. Mp4Handlers' = Mp4Handlers
    BY <1>2 DEF Enqueue, NewRow, TypeOK, Mp4Handlers, NeedsSlot
  <2> QED
    BY <2>1 DEF Enqueue, NewRow, SlotsMatchHandlers
<1>6. ClaimsAreHeld'
  <2> SUFFICES ASSUME faults = 0, worker \in {"recovering", "polling"},
                      NEW j \in Ids', Status(j)' = "claimed"
               PROVE  j \in handlers \cup {requeue}
    BY DEF Enqueue, NewRow, ClaimsAreHeld
  <2>1. j # Len(commands) + 1
    BY <1>2 DEF Status
  <2>2. j \in Ids /\ Status(j) = "claimed"
    BY <1>2, <2>1 DEF Status
  <2> QED
    BY <2>2 DEF ClaimsAreHeld
<1> QED
  BY <1>3, <1>4, <1>5, <1>6

LEMMA ClaimKeeps ==
    ASSUME IInv, NEW i \in Ids, Dispatch(i) \/ ClaimWithoutSlot(i) \/ ClaimUncertain(i)
    PROVE  IInv'
<1> USE DEF IInv
<1>1. i \notin handlers /\ SetStatus(i, "claimed") /\ "claimed" \in Statuses
  BY DEF Dispatch, ClaimWithoutSlot, ClaimUncertain, IsNext, HandlersOwnClaims, Statuses
<1>2. /\ commands' \in Seq(Command)
      /\ Len(commands') = Len(commands)
      /\ Ids' = Ids
      /\ \A j \in Ids : /\ commands'[j].kind = commands[j].kind
                        /\ Status(j)' = IF j = i THEN "claimed" ELSE Status(j)
  BY <1>1, OneRow
<1>3. i # 0
  BY DEF TypeOK, Ids
<1>4. TypeOK'
  BY <1>2, BoundsAssumption
  DEF TypeOK, Dispatch, ClaimWithoutSlot, ClaimUncertain
<1>5. HandlersOwnClaims' /\ QuietWhenDown'
  BY <1>1, <1>2, <1>3
  DEF TypeOK, Dispatch, ClaimWithoutSlot, ClaimUncertain, HandlersOwnClaims, QuietWhenDown
<1>6. SlotsMatchHandlers'
  BY <1>1, <1>2, SlotsAfter
  DEF SlotsMatchHandlers, Dispatch, ClaimWithoutSlot, ClaimUncertain
<1>7. ClaimsAreHeld'
  <2>1. CASE ClaimUncertain(i)
    <3>1. faults' # 0
      BY <2>1 DEF ClaimUncertain, TypeOK
    <3> QED
      BY <3>1 DEF ClaimsAreHeld
  <2>2. CASE Dispatch(i) \/ ClaimWithoutSlot(i)
    <3>1. /\ faults' = faults /\ worker' = worker
          /\ requeue = 0
          /\ i \in handlers' \cup {requeue'}
          /\ handlers \subseteq handlers'
      BY <2>2 DEF Dispatch, ClaimWithoutSlot
    <3> SUFFICES ASSUME faults = 0, worker \in {"recovering", "polling"},
                        NEW j \in Ids, j # i, Status(j) = "claimed"
                 PROVE  j \in handlers
      BY <1>2, <3>1 DEF ClaimsAreHeld
    <3>2. j # 0
      BY DEF TypeOK, Ids
    <3> QED
      BY <3>1, <3>2 DEF ClaimsAreHeld
  <2> QED
    BY <2>1, <2>2
<1> QED
  BY <1>4, <1>5, <1>6, <1>7

LEMMA RequeueKeeps ==
    ASSUME IInv, Requeue \/ RequeueLost
    PROVE  IInv'
<1> USE DEF IInv
<1>1. CASE Requeue
  <2>1. requeue \in Ids /\ SetStatus(requeue, "pending") /\ "pending" \in Statuses
    BY <1>1 DEF Requeue, TypeOK, Statuses
  <2>2. /\ commands' \in Seq(Command)
        /\ Len(commands') = Len(commands)
        /\ Ids' = Ids
        /\ \A j \in Ids : /\ commands'[j].kind = commands[j].kind
                          /\ Status(j)' = IF j = requeue THEN "pending" ELSE Status(j)
    BY <2>1, OneRow
  <2>3. TypeOK' /\ HandlersOwnClaims' /\ QuietWhenDown' /\ ClaimsAreHeld'
    BY <1>1, <2>1, <2>2
    DEF Requeue, TypeOK, HandlersOwnClaims, QuietWhenDown, ClaimsAreHeld
  <2>4. SlotsMatchHandlers'
    BY <1>1, <2>1, <2>2, SlotsAfter DEF Requeue, SlotsMatchHandlers
  <2> QED
    BY <2>3, <2>4
<1>2. CASE RequeueLost
  <2>1. TypeOK' /\ HandlersOwnClaims' /\ QuietWhenDown' /\ ClaimsAreHeld'
    BY <1>2, BoundsAssumption
    DEF RequeueLost, TypeOK, Ids, Status, HandlersOwnClaims, QuietWhenDown, ClaimsAreHeld
  <2>2. SlotsMatchHandlers'
    BY <1>2 DEF RequeueLost, SlotsMatchHandlers, Mp4Handlers, NeedsSlot
  <2> QED
    BY <2>1, <2>2
<1> QED
  BY <1>1, <1>2

LEMMA HandlerEndKeeps ==
    ASSUME IInv, NEW i \in Ids, Returns(i) \/ CompletionLost(i)
    PROVE  IInv'
<1> USE DEF IInv
<1>1. CASE Returns(i)
  <2>1. PICK o \in {"done", "failed"} : HandlerReturns(i, o)
    BY <1>1 DEF Returns
  <2>2. i \in handlers /\ SetStatus(i, o) /\ o \in Statuses
    BY <2>1 DEF HandlerReturns, Statuses
  <2>3. /\ commands' \in Seq(Command)
        /\ Len(commands') = Len(commands)
        /\ Ids' = Ids
        /\ \A j \in Ids : /\ commands'[j].kind = commands[j].kind
                          /\ Status(j)' = IF j = i THEN o ELSE Status(j)
    BY <2>2, OneRow
  <2>4. TypeOK' /\ HandlersOwnClaims' /\ QuietWhenDown' /\ ClaimsAreHeld'
    BY <2>1, <2>2, <2>3
    DEF HandlerReturns, ReleaseSlot, TypeOK, HandlersOwnClaims, QuietWhenDown, ClaimsAreHeld
  <2>5. SlotsMatchHandlers'
    BY <2>1, <2>2, <2>3, SlotsAfter DEF HandlerReturns, ReleaseSlot, SlotsMatchHandlers
  <2> QED
    BY <2>4, <2>5
<1>2. CASE CompletionLost(i)
  <2>1. TypeOK' /\ HandlersOwnClaims' /\ QuietWhenDown' /\ ClaimsAreHeld'
    BY <1>2, BoundsAssumption
    DEF CompletionLost, ReleaseSlot, TypeOK, Ids, Status, HandlersOwnClaims,
        QuietWhenDown, ClaimsAreHeld
  <2>2. SlotsMatchHandlers'
    BY <1>2, SlotsAfter DEF CompletionLost, ReleaseSlot, SlotsMatchHandlers
  <2> QED
    BY <2>1, <2>2
<1> QED
  BY <1>1, <1>2

LEMMA LoopKeeps ==
    ASSUME IInv, (\E l \in Limits : SettingsTick(l)) \/ Shutdown \/ RecoveryDone
    PROVE  IInv'
<1> USE DEF IInv, SettingsTick, Shutdown, RecoveryDone
<1>1. TypeOK'
  BY BoundsAssumption DEF TypeOK, Ids
<1>2. HandlersOwnClaims' /\ QuietWhenDown' /\ ClaimsAreHeld'
  BY DEF HandlersOwnClaims, QuietWhenDown, ClaimsAreHeld, Ids, Status
<1>3. SlotsMatchHandlers'
  BY DEF SlotsMatchHandlers, Mp4Handlers, NeedsSlot
<1> QED
  BY <1>1, <1>2, <1>3

LEMMA ProcessGoneKeeps ==
    ASSUME IInv, Exit \/ Crash
    PROVE  IInv'
<1> USE DEF IInv, Exit, Crash, ProcessGone
<1>1. TypeOK'
  BY BoundsAssumption DEF TypeOK, Ids
<1>2. HandlersOwnClaims' /\ QuietWhenDown' /\ ClaimsAreHeld'
  BY DEF HandlersOwnClaims, QuietWhenDown, ClaimsAreHeld
<1>3. SlotsMatchHandlers'
  <2>1. Mp4Handlers' = {} /\ conversions' = 0
    BY DEF Mp4Handlers
  <2> QED
    BY <2>1, FS_EmptySet DEF SlotsMatchHandlers
<1> QED
  BY <1>1, <1>2, <1>3

LEMMA RestartKeeps ==
    ASSUME IInv, NEW l \in Limits, Restart(l)
    PROVE  IInv'
<1> USE DEF IInv
<1>1. commands \in Seq(Command) /\ handlers = {} /\ handlers' = {}
  BY DEF TypeOK, Restart, QuietWhenDown
<1>2. /\ commands' \in Seq(Command)
      /\ Len(commands') = Len(commands)
      /\ Ids' = Ids
      /\ \A j \in Ids : Status(j)' # "claimed"
  BY <1>1, ResetRows DEF Restart, Ids, Status
<1>3. TypeOK'
  BY <1>1, <1>2 DEF TypeOK, Restart
<1>4. HandlersOwnClaims' /\ QuietWhenDown' /\ ClaimsAreHeld'
  BY <1>1, <1>2 DEF Restart, HandlersOwnClaims, QuietWhenDown, ClaimsAreHeld
<1>5. SlotsMatchHandlers'
  <2>1. Mp4Handlers' = Mp4Handlers
    BY <1>1 DEF Mp4Handlers
  <2> QED
    BY <2>1 DEF Restart, SlotsMatchHandlers
<1> QED
  BY <1>3, <1>4, <1>5

LEMMA QueueStep == IInv /\ [Next]_vars => IInv'
<1> SUFFICES ASSUME IInv, [Next]_vars PROVE IInv'
  OBVIOUS
<1>1. CASE UNCHANGED vars
  BY <1>1 DEF vars, IInv, TypeOK, HandlersOwnClaims, SlotsMatchHandlers, ClaimsAreHeld,
              QuietWhenDown, Ids, Status, Mp4Handlers, NeedsSlot
<1>2. CASE \E k \in Kinds, t \in Targets : Enqueue(k, t)
  BY <1>2, EnqueueKeeps
<1>3. CASE \E i \in Ids : Dispatch(i) \/ ClaimWithoutSlot(i) \/ ClaimUncertain(i)
  BY <1>3, ClaimKeeps
<1>4. CASE \E i \in Ids : Returns(i) \/ CompletionLost(i)
  BY <1>4, HandlerEndKeeps
<1>5. CASE Requeue \/ RequeueLost
  BY <1>5, RequeueKeeps
<1>6. CASE (\E l \in Limits : SettingsTick(l)) \/ Shutdown \/ RecoveryDone
  BY <1>6, LoopKeeps
<1>7. CASE Exit \/ Crash
  BY <1>7, ProcessGoneKeeps
<1>8. CASE \E l \in Limits : Restart(l)
  BY <1>8, RestartKeeps
<1> QED
  BY <1>1, <1>2, <1>3, <1>4, <1>5, <1>6, <1>7, <1>8 DEF Next, Returns

\* The parts of the invariant, for every reachable state.
THEOREM QueueInvariant == Spec => []IInv
<1>1. Init => IInv
  BY InitEstablishes
<1> QED
  BY <1>1, QueueStep, PTL DEF Spec

\* The queue's variables keep their types.
THEOREM QueueTypeOK == Spec => []TypeOK
  BY QueueInvariant, PTL DEF IInv

\* No row that a live handler works on is given to a second one
\* (worker.go:99-126, store_worker.go:12-45).
THEOREM QueueHandlersOwnClaims == Spec => []HandlersOwnClaims
  BY QueueInvariant, PTL DEF IInv

\* Conversion slots neither leak nor are freed twice (worker.go:654-669).
THEOREM QueueSlotsMatchHandlers == Spec => []SlotsMatchHandlers
  BY QueueInvariant, PTL DEF IInv

\* Without a lost write no claimed row is left without an owner
\* (worker.go:67,99-126).
THEOREM QueueClaimsAreHeld == Spec => []ClaimsAreHeld
  BY QueueInvariant, PTL DEF IInv

(* The queue implements the ledger. -------------------------------------------- *)

\* A step that concerns one row moves its stage.
LEMMA StageMoves ==
    ASSUME NEW i \in Ids, Ids' = Ids, \A j \in Ids : j # i => StageOf(j)' = StageOf(j),
           NEW from, NEW to, StageOf(i) = from, StageOf(i)' = to
    PROVE  Ledger!Move(i, from, to)
  BY DEF Ledger!Move

LEMMA RowsAreTyped ==
    ASSUME IInv
    PROVE  commands \in Seq(Command) /\ \A i \in Ids : Status(i) \in Statuses
<1>1. commands \in Seq(Command) /\ Ids = 1..Len(commands)
  BY DEF IInv, TypeOK, Ids
<1>2. \A i \in Ids : commands[i] \in Command
  BY <1>1, ElementOfSeq
<1> QED
  BY <1>1, <1>2 DEF Command, Status

\* What ClaimCommand takes is the oldest that waits.
LEMMA NextIsOldest ==
    ASSUME IInv, NEW i \in Ids, IsNext(i)
    PROVE  Ledger!Oldest(i) /\ StageOf(i) = "waiting" /\ i \notin handlers
<1>1. StageOf(i) = "waiting" /\ i \notin handlers
  BY DEF IInv, HandlersOwnClaims, IsNext, StageOf
<1>2. \A j \in Ids : StageOf(j) = "waiting" => Status(j) = "pending"
  BY RowsAreTyped DEF Statuses, StageOf
<1> QED
  BY <1>1, <1>2 DEF Ledger!Oldest, IsNext

\* A step that rewrites one row's status, or takes it from its handler or gives it to one.
LEMMA OneStage ==
    ASSUME IInv, NEW i \in Ids, NEW s \in Statuses,
           SetStatus(i, s) \/ (UNCHANGED commands /\ s = Status(i)),
           \A j \in Ids : j # i => (j \in handlers' <=> j \in handlers)
    PROVE  /\ Ids' = Ids /\ Status(i)' = s
           /\ \A j \in Ids : j # i => StageOf(j)' = StageOf(j)
<1>1. Ids' = Ids /\ \A j \in Ids : Status(j)' = IF j = i THEN s ELSE Status(j)
  <2>1. CASE SetStatus(i, s)
    BY <2>1, OneRow DEF IInv
  <2>2. CASE UNCHANGED commands /\ s = Status(i)
    BY <2>2 DEF Ids, Status
  <2> QED
    BY <2>1, <2>2
<1> QED
  BY <1>1 DEF StageOf

LEMMA LedgerSubmits ==
    ASSUME IInv, NEW k \in Kinds, NEW t \in Targets, Enqueue(k, t)
    PROVE  Ledger!Submit
<1> DEFINE g == [i \in Ids |-> StageOf(i)]
<1>0. PICK n \in Nat : n = Len(commands)
  BY DEF IInv, TypeOK
<1>1. commands \in Seq(Command) /\ Ids = 1..n /\ n = Len(commands)
  BY <1>0 DEF IInv, TypeOK, Ids
<1>2. /\ Ids' = 1..(n + 1)
      /\ \A i \in Ids : Status(i)' = Status(i)
      /\ Status(n + 1)' = "pending"
  <2> DEFINE row == NewRow(k, t)
  <2>1. commands' = Append(commands, row)
    BY DEF Enqueue
  <2>0. row.status = "pending"
    BY DEF NewRow
  <2> HIDE DEF row
  <2>2. /\ DOMAIN commands' = 1..(n + 1)
        /\ \A i \in 1..n : commands'[i] = commands[i]
        /\ commands'[n + 1] = row
    BY <1>1, <2>1
  <2> QED
    BY <1>1, <2>0, <2>1, <2>2 DEF Ids, Status
<1>3. \A i \in Ids : StageOf(i)' = StageOf(i)
  BY <1>2 DEF StageOf, Enqueue
<1>4. StageOf(n + 1)' = "waiting"
  BY <1>2 DEF StageOf
<1>5. g \in Seq({StageOf(i) : i \in Ids}) /\ Len(g) = n
  BY <1>1
<1>6. Append(g, "waiting") = [i \in 1..(n + 1) |->
                                 IF i = n + 1 THEN "waiting" ELSE g[i]]
  BY <1>1, <1>5
<1>7. g' = [i \in 1..(n + 1) |->
                                 IF i = n + 1 THEN "waiting" ELSE g[i]]
  <2>1. \A i \in Ids' : StageOf(i)' = IF i = n + 1 THEN "waiting" ELSE StageOf(i)
    BY <1>1, <1>2, <1>3, <1>4
  <2>2. \A i \in Ids : g[i] = StageOf(i)
    OBVIOUS
  <2>3. g' = [i \in Ids' |-> IF i = n + 1 THEN "waiting" ELSE StageOf(i)]
    BY <2>1
  <2> QED
    BY <1>1, <1>2, <2>2, <2>3
<1> QED
  BY <1>6, <1>7 DEF Ledger!Submit

LEMMA LedgerHalts ==
    ASSUME IInv, UNCHANGED commands, handlers' = {}
    PROVE  Ledger!Halt
<1>1. Ids' = Ids /\ \A i \in Ids : Status(i)' = Status(i) /\ i \notin handlers'
  BY DEF Ids, Status
<1>2. \A i \in Ids : Status(i) \in Statuses
  BY RowsAreTyped
<1>3. \A i \in Ids : StageOf(i)' = IF StageOf(i) = "running" THEN "adrift" ELSE StageOf(i)
  BY <1>1, <1>2 DEF StageOf, Statuses
<1> QED
  BY <1>1, <1>3 DEF Ledger!Halt, Ledger!Every

LEMMA LedgerRecovers ==
    ASSUME IInv, NEW l \in Limits, Restart(l)
    PROVE  Ledger!Recover
<1>1. handlers = {} /\ handlers' = {}
  BY DEF IInv, QuietWhenDown, Restart
<1>2. Ids' = Ids /\ \A i \in Ids : Status(i)' = IF Status(i) = "claimed" THEN "pending" ELSE Status(i)
  BY ResetRows DEF IInv, TypeOK, Restart, Ids, Status
<1>3. \A i \in Ids : Status(i) \in Statuses
  BY RowsAreTyped
<1>4. \A i \in Ids : /\ StageOf(i) # "running"
                     /\ StageOf(i)' = IF StageOf(i) = "adrift" THEN "waiting" ELSE StageOf(i)
  BY <1>1, <1>2, <1>3 DEF StageOf, Statuses
<1> QED
  BY <1>2, <1>4 DEF Ledger!Recover, Ledger!Every

LEMMA LedgerMoves ==
    ASSUME IInv, NEW i \in Ids,
           Dispatch(i) \/ ClaimWithoutSlot(i) \/ ClaimUncertain(i) \/ Returns(i) \/ CompletionLost(i)
    PROVE  Ledger!Next
<1> USE DEF IInv
<1>1. CASE Dispatch(i)
  <2>1. Ledger!Oldest(i) /\ StageOf(i) = "waiting"
    BY <1>1, NextIsOldest DEF Dispatch
  <2>2. Ids' = Ids /\ Status(i)' = "claimed" /\ \A j \in Ids : j # i => StageOf(j)' = StageOf(j)
    BY <1>1, OneStage DEF Dispatch, Statuses
  <2>3. StageOf(i)' = "running"
    BY <1>1, <2>2 DEF StageOf, Dispatch
  <2> QED
    BY <2>1, <2>2, <2>3, StageMoves DEF Ledger!Next, Ledger!Begin
<1>2. CASE ClaimWithoutSlot(i) \/ ClaimUncertain(i)
  <2>0. IsNext(i) /\ SetStatus(i, "claimed") /\ handlers' = handlers
    BY <1>2 DEF ClaimWithoutSlot, ClaimUncertain
  <2>1. Ledger!Oldest(i) /\ StageOf(i) = "waiting" /\ i \notin handlers
    BY <2>0, NextIsOldest
  <2>2. Ids' = Ids /\ Status(i)' = "claimed" /\ \A j \in Ids : j # i => StageOf(j)' = StageOf(j)
    BY <2>0, OneStage DEF Statuses
  <2>3. StageOf(i)' = "adrift"
    BY <2>0, <2>1, <2>2 DEF StageOf
  <2> QED
    BY <2>1, <2>2, <2>3, StageMoves DEF Ledger!Next, Ledger!Mislay
<1>3. CASE Returns(i)
  <2>0. PICK o \in {"done", "failed"} : HandlerReturns(i, o)
    BY <1>3 DEF Returns
  <2>1. StageOf(i) = "running"
    BY <2>0 DEF HandlerReturns, HandlersOwnClaims, StageOf
  <2>2. Ids' = Ids /\ Status(i)' = o /\ \A j \in Ids : j # i => StageOf(j)' = StageOf(j)
    BY <2>0, OneStage DEF HandlerReturns, Statuses
  <2>3. StageOf(i)' = o
    BY <2>0, <2>2 DEF StageOf
  <2> QED
    BY <2>1, <2>2, <2>3, StageMoves DEF Ledger!Next, Ledger!Finish, Ledger!Finished
<1>4. CASE CompletionLost(i)
  <2>1. StageOf(i) = "running" /\ Status(i) = "claimed"
    BY <1>4 DEF CompletionLost, HandlersOwnClaims, StageOf
  <2>2. Ids' = Ids /\ Status(i)' = "claimed" /\ \A j \in Ids : j # i => StageOf(j)' = StageOf(j)
    BY <1>4, <2>1, OneStage DEF CompletionLost, Statuses
  <2>3. StageOf(i)' = "adrift"
    BY <1>4, <2>2 DEF StageOf, CompletionLost
  <2> QED
    BY <2>1, <2>2, <2>3, StageMoves DEF Ledger!Next, Ledger!Forget
<1> QED
  BY <1>1, <1>2, <1>3, <1>4

LEMMA LedgerPutsBack ==
    ASSUME IInv, Requeue
    PROVE  Ledger!Next
<1>1. PICK i \in Ids : i = requeue
  BY DEF IInv, TypeOK, Requeue
<1>2. Status(i) = "claimed" /\ i \notin handlers /\ SetStatus(i, "pending") /\ handlers' = handlers
  BY <1>1 DEF IInv, HandlersOwnClaims, Requeue
<1>3. StageOf(i) = "adrift"
  BY <1>2 DEF StageOf
<1>4. Ids' = Ids /\ Status(i)' = "pending" /\ \A j \in Ids : j # i => StageOf(j)' = StageOf(j)
  BY <1>2, OneStage DEF Statuses
<1>5. StageOf(i)' = "waiting"
  BY <1>4 DEF StageOf
<1> QED
  BY <1>3, <1>4, <1>5, StageMoves DEF Ledger!Next, Ledger!PutBack

\* Every step of the queue is a step of the ledger or leaves it alone: claims follow
\* the order of the ids, a row has one handler at a time and a finished row is never
\* handed out again (store_worker.go:12-45).
THEOREM QueueKeepsLedger == Spec => KeepsLedger
<1> DEFINE g == [i \in Ids |-> StageOf(i)]
<1>1. Init => Ledger!Init
  BY DEF Init, Ledger!Init, Ids
<1>2. IInv /\ [Next]_vars => [Ledger!Next]_g
  <2> SUFFICES ASSUME IInv, [Next]_vars PROVE Ledger!Next \/ UNCHANGED g
    OBVIOUS
  <2>1. CASE UNCHANGED <<commands, handlers>>
    BY <2>1 DEF Ids, Status, StageOf
  <2>2. CASE \E k \in Kinds, t \in Targets : Enqueue(k, t)
    BY <2>2, LedgerSubmits DEF Ledger!Next
  <2>3. CASE Exit \/ Crash
    BY <2>3, LedgerHalts DEF Ledger!Next, Exit, Crash, ProcessGone
  <2>4. CASE \E l \in Limits : Restart(l)
    BY <2>4, LedgerRecovers DEF Ledger!Next
  <2>5. CASE Requeue
    BY <2>5, LedgerPutsBack
  <2>6. CASE \E i \in Ids : \/ Dispatch(i) \/ ClaimWithoutSlot(i) \/ ClaimUncertain(i)
                            \/ Returns(i) \/ CompletionLost(i)
    BY <2>6, LedgerMoves
  <2>7. CASE (\E l \in Limits : SettingsTick(l)) \/ RequeueLost \/ Shutdown \/ RecoveryDone
    BY <2>1, <2>7 DEF SettingsTick, RequeueLost, Shutdown, RecoveryDone
  <2> QED
    BY <2>1, <2>2, <2>3, <2>4, <2>5, <2>6, <2>7 DEF Next, Returns, vars
<1> QED
  BY <1>1, <1>2, QueueInvariant, PTL DEF Spec, KeepsLedger, Ledger!Spec

=============================================================================
