------------------------ MODULE SchemaMigrationProofs ------------------------
(***************************************************************************)
(* Proofs about SchemaMigration, for any processes, number of migrations   *)
(* and faults.                                                             *)
(***************************************************************************)
EXTENDS SchemaMigration, SequenceTheorems, TLAPS

Switches == up \in BOOLEAN /\ table \in BOOLEAN

\* A process has come no further than the first file that is not applied.
FilesInOrder == \A p \in Procs : file[p] <= Len(bodies) + 1

\* What is about to be committed is not applied, and by nobody else.
OneCommitter ==
    \A p \in Procs : pc[p] = "commit" =>
       /\ file[p] > Len(bodies)
       /\ \A q \in Procs : pc[q] = "commit" /\ file[q] = file[p] => q = p

\* Past the migrations the schema is complete, and past the user there is one.
PastMigrations ==
    \A p \in Procs :
       /\ pc[p] \in {"count", "insert", "serving"} => Len(bodies) = Last
       /\ pc[p] = "serving" /\ p \in Webs => users = 1

IInv == TypeOK /\ SchemaIsWhole /\ FilesInOrder /\ OneCommitter /\ PastMigrations

-----------------------------------------------------------------------------

LEMMA InitInv == Init => IInv
<1> SUFFICES ASSUME Init PROVE IInv
  OBVIOUS
<1> USE MigrationAssumption DEF Init
<1>1. Len(bodies) = 0 /\ DOMAIN bodies = {} /\ bodies \in Seq(1..Last)
  OBVIOUS
<1>2. versions = {bodies[i] : i \in DOMAIN bodies}
  BY <1>1
<1>3. Switches
  BY Zenon DEF Switches
<1>4. TypeOK
  BY <1>1, <1>2, <1>3 DEF TypeOK, Places, Switches
<1> QED
  BY <1>1, <1>4 DEF IInv, SchemaIsWhole, FilesInOrder, OneCommitter, PastMigrations

\* The versions are the numbers of the migrations applied so far.
LEMMA VersionsArePrefix == ASSUME IInv
                           PROVE  versions = 1..Len(bodies) /\ Len(bodies) \in 0..Last
<1>1. Len(bodies) \in Nat /\ DOMAIN bodies = 1..Len(bodies)
  BY DEF IInv, TypeOK
<1>2. \A i \in 1..Len(bodies) : bodies[i] = i /\ i \in 1..Last
  <2>1. \A i \in 1..Len(bodies) : bodies[i] \in 1..Last
    <3>1. bodies \in Seq(1..Last)
      BY DEF IInv, TypeOK
    <3> QED
      BY <3>1, ElementOfSeq
  <2>2. \A i \in 1..Len(bodies) : bodies[i] = i
    BY <1>1 DEF IInv, SchemaIsWhole
  <2> QED
    BY <2>1, <2>2
<1>3. Len(bodies) <= Last
  <2>1. CASE Len(bodies) = 0
    BY <2>1, MigrationAssumption
  <2>2. CASE Len(bodies) # 0
    <3>1. Len(bodies) \in 1..Len(bodies)
      BY <1>1, <2>2
    <3> QED
      BY <1>1, <1>2, <3>1, MigrationAssumption
  <2> QED
    BY <2>1, <2>2
<1>4. versions = {bodies[i] : i \in DOMAIN bodies}
  BY DEF IInv, TypeOK
<1>5. versions = 1..Len(bodies)
  BY <1>1, <1>2, <1>4
<1> QED
  BY <1>1, <1>3, <1>5, MigrationAssumption

(* A step is a commit, or leaves the applied migrations alone. ---------------- *)

\* A process that ends, or moves without a change to what is applied.
Quiet(p, place, f) ==
    /\ place \in Places /\ f \in 1..Last
    /\ UNCHANGED <<bodies, versions>>
    /\ faults' \in 0..MaxFaults
    /\ users' \in 0..1 /\ (users = 1 => users' = 1)
    /\ pc' = [pc EXCEPT ![p] = place] /\ file' = [file EXCEPT ![p] = f]
    /\ f <= Len(bodies) + 1
    /\ place = "commit" =>
          /\ f > Len(bodies)
          /\ \A q \in Procs : q # p => ~(pc[q] = "commit" /\ file[q] = f)
    /\ place \in {"count", "insert", "serving"} => Len(bodies) = Last
    /\ place = "serving" /\ p \in Webs => users' = 1

LEMMA QuietStep ==
    ASSUME IInv, NEW p \in Procs, NEW place, NEW f, Switches', Quiet(p, place, f)
    PROVE  IInv'
<1> USE DEF IInv, Quiet
<1>1. TypeOK'
  BY DEF TypeOK, Switches
<1>2. SchemaIsWhole' /\ FilesInOrder'
  BY DEF TypeOK, SchemaIsWhole, FilesInOrder
<1>3. OneCommitter'
  BY DEF TypeOK, OneCommitter
<1>4. PastMigrations'
  BY DEF TypeOK, PastMigrations
<1> QED
  BY <1>1, <1>2, <1>3, <1>4

\* The next migration takes effect.
LEMMA CommitStep ==
    ASSUME IInv, NEW p \in Procs, NEW place \in Places, NEW f \in 1..Last,
           Switches', Committed(p), faults' \in 0..MaxFaults,
           pc' = [pc EXCEPT ![p] = place], file' = [file EXCEPT ![p] = f],
           f <= file[p] + 1, place \in {"down", "check", "count", "serving"},
           place \in {"count", "serving"} => file[p] = Last,
           place = "serving" => p \notin Webs
    PROVE  IInv'
<1> USE DEF IInv
<1>1. /\ file[p] = Len(bodies) + 1 /\ Len(bodies) \in Nat /\ file[p] \in 1..Last
      /\ bodies \in Seq(1..Last)
  <2>1. file[p] \in 1..Last /\ Len(bodies) \in Nat /\ bodies \in Seq(1..Last)
    BY DEF TypeOK
  <2>2. file[p] <= Len(bodies) + 1 /\ file[p] > Len(bodies)
    BY DEF Committed, FilesInOrder, OneCommitter
  <2> QED
    BY <2>1, <2>2
<1>2. /\ Len(bodies') = Len(bodies) + 1 /\ bodies' \in Seq(1..Last)
      /\ \A i \in 1..Len(bodies) : bodies'[i] = bodies[i]
      /\ bodies'[Len(bodies) + 1] = file[p]
      /\ DOMAIN bodies' = 1..(Len(bodies) + 1)
  BY <1>1 DEF Committed
<1>3. SchemaIsWhole'
  BY <1>1, <1>2 DEF SchemaIsWhole
<1>4. versions' = {bodies'[i] : i \in DOMAIN bodies'}
  <2>1. versions = 1..Len(bodies)
    BY VersionsArePrefix
  <2>2. versions' = 1..(Len(bodies) + 1)
    BY <1>1, <2>1 DEF Committed
  <2>3. \A i \in DOMAIN bodies' : bodies'[i] = i
    BY <1>3 DEF SchemaIsWhole
  <2> QED
    BY <1>2, <2>2, <2>3
<1>5. TypeOK'
  BY <1>2, <1>4 DEF TypeOK, Switches, Committed
<1>6. FilesInOrder'
  BY <1>1, <1>2 DEF FilesInOrder, TypeOK
<1>7. OneCommitter'
  <2> SUFFICES ASSUME NEW q \in Procs, pc'[q] = "commit"
               PROVE  /\ file'[q] > Len(bodies')
                      /\ \A r \in Procs : pc'[r] = "commit" /\ file'[r] = file'[q] => r = q
    BY DEF OneCommitter
  <2>1. q # p /\ pc[q] = "commit" /\ file'[q] = file[q]
    BY DEF TypeOK
  <2>2. file[q] \in Int /\ file[q] > Len(bodies) /\ file[q] # file[p]
    BY <2>1 DEF OneCommitter, Committed, TypeOK
  <2>3. \A r \in Procs : pc'[r] = "commit" => pc[r] = "commit" /\ file'[r] = file[r]
    BY DEF TypeOK
  <2> QED
    BY <1>1, <1>2, <2>1, <2>2, <2>3 DEF OneCommitter
<1>8. PastMigrations'
  <2>1. \A q \in Procs : pc[q] \in {"count", "insert", "serving"} => Len(bodies) = Last
    BY DEF PastMigrations
  <2>2. Len(bodies) < Last
    BY <1>1, MigrationAssumption
  <2>3. \A q \in Procs : pc'[q] \in {"count", "insert", "serving"} =>
           q = p /\ file[p] = Last /\ (pc'[q] = "serving" => q \notin Webs)
    BY <2>1, <2>2 DEF TypeOK
  <2> QED
    BY <1>1, <1>2, <2>3 DEF PastMigrations
<1> QED
  BY <1>3, <1>5, <1>6, <1>7, <1>8

-----------------------------------------------------------------------------

LEMMA StepSwitches == IInv /\ [Next]_vars => Switches'
<1> SUFFICES ASSUME IInv, [Next]_vars PROVE Switches'
  OBVIOUS
<1> USE DEF Switches
<1>0. up \in BOOLEAN /\ table \in BOOLEAN
  BY Zenon DEF IInv, TypeOK
<1>1. CASE UNCHANGED <<up, table>>
  BY <1>0, <1>1, Zenon
<1>2. CASE UNCHANGED up /\ table' = TRUE
  BY <1>0, <1>2, Zenon
<1>3. CASE UNCHANGED table /\ up' \in BOOLEAN
  BY <1>0, <1>3, Zenon
<1>4. ASSUME NEW p \in Procs, TableCreated(p) \/ Committed(p) \/ UserInserted(p) PROVE Switches'
  <2>1. CASE TableCreated(p)
    BY <1>2, <2>1, Zenon DEF TableCreated
  <2>2. CASE Committed(p)
    BY <1>1, <2>2, Zenon DEF Committed
  <2>3. CASE UserInserted(p)
    BY <1>1, <2>3, Zenon DEF UserInserted
  <2> QED
    BY <1>4, <2>1, <2>2, <2>3, Zenon
<1>5. CASE UNCHANGED <<up, schemaVars>>
  BY <1>1, <1>5, Zenon DEF schemaVars
<1>6. CASE DatabaseFails \/ DatabaseReturns
  BY <1>3, <1>6, Zenon DEF DatabaseFails, DatabaseReturns, schemaVars
<1>7. CASE UNCHANGED vars
  BY <1>5, <1>7, Zenon DEF vars
<1>8. ASSUME NEW p \in Procs, Runs(p) PROVE Switches'
  <2>1. CASE CreateTable(p) \/ Commit(p) \/ InsertUser(p)
    BY <1>4, <2>1, Zenon DEF CreateTable, Commit, InsertUser
  <2>2. CASE Start(p) \/ Ping(p) \/ GiveUp(p) \/ SeesTable(p) \/ MissesTable(p) \/ Skip(p) \/ Missing(p)
    BY <1>5, <2>2, Zenon DEF Start, Ping, GiveUp, SeesTable, MissesTable, Skip, Missing, Statement, Exit
  <2>3. CASE Body(p) \/ BodyFails(p) \/ Record(p) \/ RecordFails(p)
    BY <1>5, <2>3, Zenon DEF Body, BodyFails, Record, RecordFails, Statement, Exit
  <2>4. CASE HasUser(p) \/ LacksUser(p) \/ Late(p) \/ StatementFails(p)
    BY <1>5, <2>4, Zenon DEF HasUser, LacksUser, Late, StatementFails, Statement, Exit
  <2> QED
    BY <1>8, <2>1, <2>2, <2>3, <2>4, Zenon DEF Runs
<1>9. ASSUME NEW p \in Procs, Dies(p) PROVE Switches'
  BY <1>4, <1>5, <1>9, Zenon DEF Dies
<1> QED
  BY <1>6, <1>7, <1>8, <1>9, Zenon DEF Next

LEMMA StepInv == IInv /\ [Next]_vars => IInv'
<1> SUFFICES ASSUME IInv, [Next]_vars PROVE IInv'
  OBVIOUS
<1>s. Switches'
  BY StepSwitches
<1>v. versions = 1..Len(bodies) /\ Len(bodies) \in 0..Last
  BY VersionsArePrefix
<1>c. Last \in Nat \ {0} /\ MaxFaults \in Nat /\ 1 \in 1..Last /\ 1 <= Len(bodies) + 1
  BY MigrationAssumption, <1>v
<1>t. /\ users \in 0..1 /\ faults \in 0..MaxFaults
      /\ pc \in [Procs -> Places] /\ file \in [Procs -> 1..Last]
  BY DEF IInv, TypeOK
<1>f. \A p \in Procs : file[p] <= Len(bodies) + 1
  BY DEF IInv, FilesInOrder
<1> DEFINE D == "down"
<1>d. D \in Places /\ D \notin {"commit", "count", "insert", "serving"}
  BY DEF Places
<1>1. ASSUME NEW p \in Procs, Exit(p) PROVE IInv'
  <2>1. Quiet(p, D, 1)
    <3>1. UNCHANGED <<bodies, versions, users, faults>>
      BY <1>1 DEF Exit, schemaVars
    <3>2. pc' = [pc EXCEPT ![p] = D] /\ file' = [file EXCEPT ![p] = 1]
      BY <1>1 DEF Exit
    <3> HIDE DEF D
    <3> QED
      BY <1>c, <1>t, <1>d, <3>1, <3>2 DEF Quiet
  <2> QED
    BY <1>s, <2>1, QuietStep
<1>2. ASSUME NEW p \in Procs, NEW from, NEW place \in Places, Statement(p, from, place),
             place = "commit" => Recordable(p),
             place \in {"count", "insert", "serving"} => Len(bodies) = Last,
             place = "serving" /\ p \in Webs => users = 1
      PROVE  IInv'
  <2>1. file' = [file EXCEPT ![p] = file[p]] /\ file[p] \in 1..Last /\ file[p] <= Len(bodies) + 1
    BY <1>v, <1>c, <1>s, <1>t, <1>f, <1>2 DEF Statement, IInv, FilesInOrder
  <2>2. place = "commit" => /\ file[p] > Len(bodies)
                            /\ \A q \in Procs : q # p => ~(pc[q] = "commit" /\ file[q] = file[p])
    BY <1>v, <1>c, <1>s, <1>t, <1>f, <1>2, <2>1 DEF Recordable, Others
  <2>3. Quiet(p, place, file[p])
    BY <1>v, <1>c, <1>s, <1>t, <1>f, <1>2, <2>1, <2>2 DEF Statement, Goto, schemaVars, Quiet
  <2> QED
    BY <1>s, <2>3, QuietStep
<1>3. ASSUME NEW p \in Procs, Start(p) PROVE IInv'
  <2>1. Quiet(p, "ping", file[p])
    BY <1>v, <1>c, <1>s, <1>t, <1>f, <1>3 DEF Start, Goto, schemaVars, Places, Quiet, IInv, FilesInOrder
  <2> QED
    BY <1>s, <2>1, QuietStep
<1>4. ASSUME NEW p \in Procs,
             \/ Ping(p) \/ SeesTable(p) \/ MissesTable(p) \/ Missing(p) \/ Body(p) \/ Record(p)
      PROVE  IInv'
  BY <1>2, <1>4 DEF Ping, SeesTable, MissesTable, Missing, Body, Record, Places
<1>5. ASSUME NEW p \in Procs, HasUser(p) \/ LacksUser(p) PROVE IInv'
  <2>1. pc[p] = "count"
    BY <1>5 DEF HasUser, LacksUser, Statement
  <2>2. Len(bodies) = Last
    BY <2>1 DEF IInv, PastMigrations
  <2>3. HasUser(p) => users = 1
    BY <1>v, <1>c, <1>s, <1>t, <1>f DEF HasUser, NeedsUser
  <2> QED
    BY <1>2, <1>5, <2>2, <2>3 DEF HasUser, LacksUser, Places
<1>6. ASSUME NEW p \in Procs, GiveUp(p) \/ BodyFails(p) \/ RecordFails(p) \/ Late(p) \/ StatementFails(p)
      PROVE  IInv'
  BY <1>1, <1>6 DEF GiveUp, BodyFails, RecordFails, Late, StatementFails
<1>7. ASSUME NEW p \in Procs, CreateTable(p) PROVE IInv'
  <2>1. Quiet(p, "check", file[p])
    BY <1>v, <1>c, <1>s, <1>t, <1>f, <1>7 DEF CreateTable, TableCreated, Goto, Places, Quiet, IInv, FilesInOrder
  <2> QED
    BY <1>s, <2>1, QuietStep
<1>8. ASSUME NEW p \in Procs, InsertUser(p) PROVE IInv'
  <2>1. Len(bodies) = Last
    BY <1>8 DEF InsertUser, UserInserted, IInv, PastMigrations
  <2>2. Quiet(p, "serving", file[p])
    <3>1. UNCHANGED <<bodies, versions, file, faults>> /\ users' = 1
      BY <1>8, Zenon DEF InsertUser, UserInserted
    <3>2. pc' = [pc EXCEPT ![p] = "serving"] /\ file' = [file EXCEPT ![p] = file[p]]
      BY <1>8, <3>1, <1>t DEF InsertUser, Goto
    <3>3. file[p] \in 1..Last /\ file[p] <= Len(bodies) + 1 /\ "serving" \in Places
      BY <1>t, <1>f DEF Places
    <3>4. users' \in 0..1 /\ faults' \in 0..MaxFaults /\ UNCHANGED <<bodies, versions>>
      BY <1>t, <3>1
    <3>5. "serving" # "commit"
      OBVIOUS
    <3> QED
      BY <2>1, <3>1, <3>2, <3>3, <3>4, <3>5, Zenon DEF Quiet
  <2> QED
    BY <1>s, <2>2, QuietStep
<1>9. ASSUME NEW p \in Procs, Advance(p)
      PROVE  \E place \in {"check", "count", "serving"}, f \in 1..Last :
                /\ pc' = [pc EXCEPT ![p] = place] /\ file' = [file EXCEPT ![p] = f]
                /\ f <= file[p] + 1
                /\ place \in {"count", "serving"} => file[p] = Last
                /\ place = "serving" => p \notin Webs
  <2>1. file[p] \in 1..Last
    BY <1>v, <1>c, <1>s, <1>t, <1>f
  <2>2. CASE file[p] < Last
    <3>1. file[p] + 1 \in 1..Last /\ file' = [file EXCEPT ![p] = file[p] + 1]
      BY <1>v, <1>c, <1>s, <1>t, <1>f, <1>9, <2>1, <2>2 DEF Advance
    <3>2. pc' = [pc EXCEPT ![p] = "check"]
      BY <1>9, <2>2 DEF Advance, Goto
    <3>3. /\ file[p] + 1 <= file[p] + 1 /\ "check" \in {"check", "count", "serving"}
          /\ "check" \notin {"count", "serving"} /\ "check" # "serving"
      BY <2>1
    <3> QED
      BY <3>1, <3>2, <3>3
  <2>3. CASE ~(file[p] < Last)
    <3>1. file[p] = Last /\ file' = [file EXCEPT ![p] = file[p]]
      BY <1>v, <1>c, <1>s, <1>t, <1>f, <1>9, <2>1, <2>3 DEF Advance
    <3>2. pc' = [pc EXCEPT ![p] = IF p \in Webs THEN "count" ELSE "serving"]
      BY <1>9, <2>3 DEF Advance, Goto
    <3>3. file[p] <= file[p] + 1
      BY <2>1
    <3>4. CASE p \in Webs
      <4>1. pc' = [pc EXCEPT ![p] = "count"]
        BY <3>2, <3>4
      <4> QED
        BY <2>1, <3>1, <3>3, <4>1
    <3>5. CASE p \notin Webs
      <4>1. pc' = [pc EXCEPT ![p] = "serving"]
        BY <3>2, <3>5
      <4> QED
        BY <2>1, <3>1, <3>3, <3>5, <4>1
    <3> QED
      BY <3>4, <3>5
  <2> QED
    BY <2>2, <2>3
<1>10. ASSUME NEW p \in Procs, Skip(p) PROVE IInv'
  <2>1. PICK place \in {"check", "count", "serving"}, f \in 1..Last :
            /\ pc' = [pc EXCEPT ![p] = place] /\ file' = [file EXCEPT ![p] = f]
            /\ f <= file[p] + 1
            /\ place \in {"count", "serving"} => file[p] = Last
            /\ place = "serving" => p \notin Webs
    BY <1>9, <1>10 DEF Skip
  <2>2. file[p] \in 1..Len(bodies) /\ UNCHANGED <<up, schemaVars, faults>>
    BY <1>v, <1>c, <1>s, <1>t, <1>f, <1>10 DEF Skip, Exists
  <2>3. place \in {"count", "serving"} => Len(bodies) = Last
    BY <1>v, <1>c, <1>s, <1>t, <1>f, <2>1, <2>2
  <2>4. Quiet(p, place, f)
    <3>1. UNCHANGED <<bodies, versions, users, faults>>
      BY <2>2 DEF schemaVars
    <3>2. f \in 1..Last /\ f <= Len(bodies) + 1
      BY <1>v, <1>c, <2>1, <2>2
    <3>3. place \in Places /\ place # "commit" /\ place # "insert"
      BY DEF Places
    <3> QED
      BY <1>t, <2>1, <2>3, <3>1, <3>2, <3>3 DEF Quiet
  <2> QED
    BY <1>s, <2>4, QuietStep
<1>11. ASSUME NEW p \in Procs, Commit(p) PROVE IInv'
  <2>1. PICK place \in {"check", "count", "serving"}, f \in 1..Last :
            /\ pc' = [pc EXCEPT ![p] = place] /\ file' = [file EXCEPT ![p] = f]
            /\ f <= file[p] + 1
            /\ place \in {"count", "serving"} => file[p] = Last
            /\ place = "serving" => p \notin Webs
    BY <1>9, <1>11 DEF Commit
  <2>2. Committed(p) /\ faults' \in 0..MaxFaults /\ place \in Places
    BY <1>v, <1>c, <1>s, <1>t, <1>f, <1>11 DEF Commit, Places
  <2> QED
    BY <1>v, <1>c, <1>s, <1>t, <1>f, <2>1, <2>2, CommitStep
<1>12. ASSUME NEW p \in Procs, Dies(p) PROVE IInv'
  <2>1. /\ pc' = [pc EXCEPT ![p] = "down"] /\ file' = [file EXCEPT ![p] = 1]
        /\ faults' \in 0..MaxFaults /\ 1 \in 1..Last /\ "down" \in Places
    <3>1. faults' \in 0..MaxFaults
      BY <1>t, <1>c, <1>12 DEF Dies, Fault
    <3> QED
      BY <1>c, <1>d, <1>12, <3>1 DEF Dies, Goto
  <2>2. CASE Committed(p)
    <3>1. 1 <= file[p] + 1
      BY <1>v, <1>c, <1>s, <1>t, <1>f
    <3> QED
      BY <1>v, <1>c, <1>s, <1>t, <1>f, <2>1, <2>2, <3>1, CommitStep
  <2>3. CASE TableCreated(p) \/ UserInserted(p) \/ UNCHANGED <<up, schemaVars>>
    <3>1. Quiet(p, "down", 1)
      <4>1. UNCHANGED <<bodies, versions>> /\ users' \in 0..1 /\ (users = 1 => users' = 1)
        BY <1>t, <2>3 DEF TableCreated, UserInserted, schemaVars
      <4> QED
        BY <1>c, <1>d, <2>1, <4>1 DEF Quiet
    <3> QED
      BY <1>s, <3>1, QuietStep
  <2> QED
    BY <1>12, <2>2, <2>3 DEF Dies
<1>13. CASE DatabaseFails \/ DatabaseReturns
  <2>1. /\ UNCHANGED <<bodies, versions, users, file>>
        /\ faults' \in 0..MaxFaults /\ pc' \in [Procs -> Places]
        /\ \A p \in Procs : pc'[p] \in {pc[p], "rolled back"}
    <3>1. CASE DatabaseFails
      <4>1. faults' \in 0..MaxFaults
        <5>1. Fault
          BY <3>1, Zenon DEF DatabaseFails
        <5> QED
          BY <1>t, <1>c, <5>1 DEF Fault
      <4>2. UNCHANGED <<bodies, versions, users, file>>
        BY <3>1 DEF DatabaseFails, schemaVars
      <4>3. /\ pc' \in [Procs -> Places]
            /\ \A p \in Procs : pc'[p] \in {pc[p], "rolled back"}
        BY <1>t, <3>1 DEF DatabaseFails, Places
      <4> QED
        BY <4>1, <4>2, <4>3
    <3>2. CASE DatabaseReturns
      BY <1>t, <3>2 DEF DatabaseReturns, schemaVars
    <3> QED
      BY <1>13, <3>1, <3>2
  <2>2. TypeOK'
    BY <1>s, <2>1 DEF IInv, TypeOK, Switches
  <2> QED
    BY <2>1, <2>2 DEF IInv, SchemaIsWhole, FilesInOrder, OneCommitter, PastMigrations
<1>14. CASE UNCHANGED vars
  <2>1. TypeOK'
    BY <1>s, <1>14 DEF Switches, vars, schemaVars, IInv, TypeOK
  <2> QED
    BY <1>14, <2>1 DEF vars, schemaVars, IInv, SchemaIsWhole, FilesInOrder, OneCommitter,
                       PastMigrations
<1> QED
  BY <1>3, <1>4, <1>5, <1>6, <1>7, <1>8, <1>10, <1>11, <1>12, <1>13, <1>14 DEF Next, Runs

(* The theorems. ------------------------------------------------------------ *)

\* The inductive invariant.
THEOREM MigrationInvariant == Spec => []IInv
  BY InitInv, StepInv, PTL DEF Spec

\* A version is recorded exactly when its body is committed (db.go:83-97).
THEOREM MigrationTypeOK == Spec => []TypeOK
  BY MigrationInvariant, PTL DEF IInv

\* However many processes start at once, each migration takes effect once and in
\* order (db.go:68-98).
THEOREM MigrationIsWhole == Spec => []SchemaIsWhole
  BY MigrationInvariant, PTL DEF IInv

\* Whoever serves has a complete schema, and the web process a user (main.go:27-56).
THEOREM MigrationServing == Spec => []ServingIsReady
<1>1. IInv => ServingIsReady
  BY DEF IInv, PastMigrations, ServingIsReady
<1> QED
  BY <1>1, MigrationInvariant, PTL

=============================================================================
