---------------------------- MODULE SchemaMigration ----------------------------
(***************************************************************************)
(* The start of the web and the worker process, which compose starts side  *)
(* by side: both wait for the database, both apply the migrations that are *)
(* missing, the web process adds the first user, then they serve.  Neither *)
(* takes a lock, so each may act on what the other made stale; the loser   *)
(* of a race ends with an error and compose starts it again.               *)
(*                                                                         *)
(* A migration is its position in the sorted list of files.  The database  *)
(* runs a migration's body and the record of its version in a transaction; *)
(* an outage rolls open transactions back.                                 *)
(***************************************************************************)
EXTENDS Integers, Sequences

CONSTANTS
    Procs,      \* processes that open the store
    Webs,       \* those whose role is "web"
    Last,       \* number of migration files
    MaxFaults   \* bound on crashes, outages and lost answers

ASSUME MigrationAssumption ==
    /\ Webs \subseteq Procs
    /\ Last \in Nat \ {0} /\ MaxFaults \in Nat

VARIABLES
    up,       \* the database answers
    table,    \* table schema_migrations exists
    bodies,   \* bodies of migrations committed so far, in order
    versions, \* rows of schema_migrations
    users,    \* number of rows of table users
    pc,       \* where each process is
    file,     \* migration each process has come to
    faults    \* crashes, outages and lost answers so far

schemaVars == <<table, bodies, versions, users>>
vars == <<up, schemaVars, pc, file, faults>>

Places == {"down", "ping", "table", "create", "check", "body", "record", "commit",
           "rolled back", "count", "insert", "serving"}

InTx(p) == pc[p] \in {"record", "commit"}
Others(p) == Procs \ {p}
Goto(p, place) == pc' = [pc EXCEPT ![p] = place]

-----------------------------------------------------------------------------

Init ==
    /\ up \in BOOLEAN
    /\ table = FALSE /\ bodies = <<>> /\ versions = {} /\ users = 0
    /\ pc = [p \in Procs |-> "down"]
    /\ file = [p \in Procs |-> 1]
    /\ faults = 0

\* The process ends with an error.
Exit(p) ==
    /\ pc' = [pc EXCEPT ![p] = "down"] /\ file' = [file EXCEPT ![p] = 1]
    /\ UNCHANGED <<up, schemaVars, faults>>

\* A statement that reads, or that changes nothing.
Statement(p, from, to) ==
    /\ up /\ pc[p] = from /\ Goto(p, to)
    /\ UNCHANGED <<up, schemaVars, file, faults>>

(* OpenStore --------------------------------------------------------------------- *)

Start(p) ==
    /\ pc[p] = "down" /\ Goto(p, "ping")
    /\ UNCHANGED <<up, schemaVars, file, faults>>

Ping(p) == Statement(p, "ping", "table")

\* No answer for a minute.
GiveUp(p) == ~up /\ pc[p] = "ping" /\ Exit(p)

(* Migrate ----------------------------------------------------------------------- *)

\* CREATE TABLE IF NOT EXISTS looks, and fails if the table came in between.
SeesTable(p) == table /\ Statement(p, "table", "check")
MissesTable(p) == ~table /\ Statement(p, "table", "create")

TableCreated(p) ==
    /\ up /\ pc[p] = "create" /\ ~table
    /\ table' = TRUE
    /\ UNCHANGED <<up, bodies, versions, users>>

CreateTable(p) == TableCreated(p) /\ Goto(p, "check") /\ UNCHANGED <<file, faults>>

\* The file after one that is applied, or what follows the migrations.
Advance(p) ==
    /\ file' = [file EXCEPT ![p] = IF @ < Last THEN @ + 1 ELSE @]
    /\ Goto(p, IF file[p] < Last THEN "check" ELSE IF p \in Webs THEN "count" ELSE "serving")

\* Faulty variant of Exists: every start applies every file again.
ExistsNever(v) == FALSE

Exists(v) == v \in versions

Skip(p) ==
    /\ up /\ pc[p] = "check" /\ Exists(file[p])
    /\ Advance(p)
    /\ UNCHANGED <<up, schemaVars, faults>>

Missing(p) == ~Exists(file[p]) /\ Statement(p, "check", "body")

\* The body runs in a transaction; nobody sees its effect yet ...
Body(p) == Statement(p, "body", "record")

\* ... and it may collide with another process in a transaction, or with what one
\* committed since the check.
BodyFails(p) ==
    /\ pc[p] = "body"
    /\ file[p] \in versions \/ \E q \in Others(p) : InTx(q)
    /\ Exit(p)

\* Faulty variant of Recordable: the version is not the key of the table.
RecordableTwice(p) == TRUE

\* The key of schema_migrations waits for an uncommitted row and refuses a second.
Recordable(p) ==
    /\ file[p] \notin versions
    /\ \A q \in Others(p) : ~(pc[q] = "commit" /\ file[q] = file[p])

Record(p) == Recordable(p) /\ Statement(p, "record", "commit")

RecordFails(p) == up /\ pc[p] = "record" /\ file[p] \in versions /\ Exit(p)

\* Faulty variant of Committed: the version is left out of the transaction.
CommittedUnrecorded(p) ==
    /\ up /\ pc[p] = "commit"
    /\ bodies' = Append(bodies, file[p])
    /\ UNCHANGED <<up, table, versions, users>>

Committed(p) ==
    /\ up /\ pc[p] = "commit"
    /\ bodies' = Append(bodies, file[p])
    /\ versions' = versions \cup {file[p]}
    /\ UNCHANGED <<up, table, users>>

Commit(p) == Committed(p) /\ Advance(p) /\ UNCHANGED faults

(* BootstrapAdmin ------------------------------------------------------------------ *)

\* Faulty variant of NeedsUser: the first user is expected, never added.
NeedsNoUser == FALSE

NeedsUser == users = 0

HasUser(p) == ~NeedsUser /\ Statement(p, "count", "serving")
LacksUser(p) == NeedsUser /\ Statement(p, "count", "insert")

UserInserted(p) ==
    /\ up /\ pc[p] = "insert" /\ users = 0
    /\ users' = 1
    /\ UNCHANGED <<up, table, bodies, versions>>

InsertUser(p) == UserInserted(p) /\ Goto(p, "serving") /\ UNCHANGED <<file, faults>>

\* The name is taken by now, or the table is.
Late(p) ==
    /\ up /\ \/ pc[p] = "create" /\ table
             \/ pc[p] = "insert" /\ users > 0
    /\ Exit(p)

(* Faults -------------------------------------------------------------------------- *)

\* A statement finds no database, or its transaction gone.
StatementFails(p) ==
    /\ \/ ~up /\ pc[p] \in Places \ {"down", "ping", "serving"}
       \/ pc[p] = "rolled back"
    /\ Exit(p)

Fault == faults < MaxFaults /\ faults' = faults + 1

DatabaseFails ==
    /\ up /\ up' = FALSE /\ Fault
    /\ pc' = [p \in Procs |-> IF InTx(p) THEN "rolled back" ELSE pc[p]]
    /\ UNCHANGED <<schemaVars, file>>

DatabaseReturns ==
    /\ ~up /\ up' = TRUE
    /\ UNCHANGED <<schemaVars, pc, file, faults>>

\* A process is killed, or what it has written is committed without an answer.
Dies(p) ==
    /\ pc[p] # "down" /\ Fault
    /\ Goto(p, "down") /\ file' = [file EXCEPT ![p] = 1]
    /\ \/ TableCreated(p) \/ Committed(p) \/ UserInserted(p)
       \/ UNCHANGED <<up, schemaVars>>

-----------------------------------------------------------------------------

Runs(p) ==
    \/ Start(p) \/ Ping(p) \/ GiveUp(p)
    \/ SeesTable(p) \/ MissesTable(p) \/ CreateTable(p)
    \/ Skip(p) \/ Missing(p) \/ Body(p) \/ BodyFails(p)
    \/ Record(p) \/ RecordFails(p) \/ Commit(p)
    \/ HasUser(p) \/ LacksUser(p) \/ InsertUser(p)
    \/ Late(p) \/ StatementFails(p)

Next == DatabaseFails \/ DatabaseReturns \/ \E p \in Procs : Runs(p) \/ Dies(p)

\* compose starts a process that ended again, and the database.
Fairness == WF_vars(DatabaseReturns) /\ \A p \in Procs : WF_vars(Runs(p))

Spec == Init /\ [][Next]_vars /\ Fairness

-----------------------------------------------------------------------------

\* The type of the state; and a row of schema_migrations stands for a body that
\* was committed with it (db.go:83-97).
TypeOK ==
    /\ up \in BOOLEAN /\ table \in BOOLEAN
    /\ bodies \in Seq(1..Last)
    /\ versions = {bodies[i] : i \in DOMAIN bodies}
    /\ users \in 0..1
    /\ pc \in [Procs -> Places] /\ file \in [Procs -> 1..Last]
    /\ faults \in 0..MaxFaults

\* However the processes interleave, each migration takes effect once and after the
\* ones before it: 001 again after 002 would bring back the indexes that 002 drops
\* (db.go:68-98, 002_soft_delete_and_srt_url.sql:4-5).
SchemaIsWhole == \A i \in DOMAIN bodies : bodies[i] = i

\* A process serves only on a complete schema, and the web process only when
\* somebody can log in (main.go:27-56).
ServingIsReady ==
    \A p \in Procs : pc[p] = "serving" =>
       /\ Len(bodies) = Last
       /\ p \in Webs => users = 1

\* Losing a race is not the end: whatever was lost or killed, in the end all
\* processes serve (db.go:35-50, compose.yaml:11, 38, 64).
EverybodyServes == <>[](\A p \in Procs : pc[p] = "serving")

=============================================================================
