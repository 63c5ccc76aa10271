---------------------------- MODULE StreamAdmission ----------------------------
(***************************************************************************)
(* Concurrent requests about streams in the web process: CreateStream,     *)
(* UpdateStream with its two statements, DeleteStream and StartRecording's *)
(* transaction, against the worker that starts FFmpeg with whatever the    *)
(* stream's row says by then and ends recordings.                          *)
(*                                                                         *)
(* PostgreSQL runs at READ COMMITTED: a statement sees what is committed,  *)
(* FOR SHARE keeps writers off the row until the transaction ends, an      *)
(* advisory lock lasts as long as its transaction, and an index refuses a  *)
(* duplicate.                                                              *)
(***************************************************************************)
EXTENDS StreamInput, FiniteSets, Functions

CONSTANTS
    Streams,    \* streams ever created
    Inputs,     \* forms an operator submits
    Requests,   \* requests in flight at the same time
    MaxActive,  \* cfg.MaxActiveRecordings
    Nobody      \* no request, no stream

ASSUME AdmissionAssumption ==
    /\ MaxActive \in Nat \ {0}
    /\ Nobody \notin Requests \cup Streams

VARIABLES
    row,     \* the row of each stream that is not deleted
    active,  \* streams with a committed active recording
    ffmpeg,  \* address each running FFmpeg was given; its domain are streams
    lock,    \* request that holds the advisory lock, or Nobody
    pc,      \* where each request is
    on,      \* stream each request is about, Nobody when it is idle
    want,    \* passphrase that an edit still has to write
    \* history
    asked,   \* the row that the edits of each stream, one after another, ask for
    torn     \* streams whose edits overlapped, or of which one failed half way

requestVars == <<pc, on, want>>
historyVars == <<asked, torn>>
vars == <<row, active, ffmpeg, lock, requestVars, historyVars>>

live == DOMAIN row
Put(f, s, x) == [t \in DOMAIN f \cup {s} |-> IF t = s THEN x ELSE f[t]]

Saved == UNION {ValidateStreamInput(in) : in \in Inputs}

NoText == [id |-> "", length |-> 0]

Places == {"idle", "secret", "delete", "lock", "share", "count", "insert", "commit"}
Goto(q, p) == pc' = [pc EXCEPT ![q] = p] /\ UNCHANGED <<on, want>>
Enter(q, s, p) ==
    /\ pc[q] = "idle"
    /\ pc' = [pc EXCEPT ![q] = p] /\ on' = [on EXCEPT ![q] = s]
Leave(q) ==
    /\ pc' = [pc EXCEPT ![q] = "idle"]
    /\ on' = [on EXCEPT ![q] = Nobody]
    /\ want' = [want EXCEPT ![q] = NoText]

\* Faulty variant of Shared: the row is read without FOR SHARE.
SharedByNobody == {}

\* Streams whose row a transaction has locked with FOR SHARE.
Shared == {on[q] : q \in {q \in Requests : pc[q] \in {"count", "insert", "commit"}}}

\* Streams with an edit between its two statements.
Editing == {on[q] : q \in {q \in Requests : pc[q] = "secret"}}

-----------------------------------------------------------------------------

Init ==
    /\ row = <<>> /\ active = {} /\ ffmpeg = <<>> /\ lock = Nobody
    /\ pc = [q \in Requests |-> "idle"]
    /\ on = [q \in Requests |-> Nobody]
    /\ want = [q \in Requests |-> NoText]
    /\ asked = <<>> /\ torn = {}

(* Streams -------------------------------------------------------------------- *)

\* Faulty variant of IndexAllows: the migration drops the indexes and adds none.
IndexGone(s, r) == TRUE

\* The partial unique indexes on names and on the ports of listener streams.
IndexAllows(s, r) ==
    \A other \in live \ {s} :
       /\ row[other].name # r.name
       /\ ~(row[other].mode = "listener" /\ r.mode = "listener" /\ row[other].port = r.port)

Insertable(s, r) == TableAccepts(r) /\ IndexAllows(s, r)

\* Store.CreateStream; a stream's id is never used again.
CreateStream(s, in) ==
    /\ s \notin live \cup active \cup DOMAIN ffmpeg
    /\ \A q \in Requests : on[q] # s
    /\ Insertable(s, Row(in, in.pass))
    /\ row' = Put(row, s, Row(in, in.pass))
    /\ asked' = Put(asked, s, Row(in, in.pass))
    /\ UNCHANGED <<active, ffmpeg, lock, requestVars, torn>>

\* Faulty variant of WritesSecret: clearing the passphrase is forgotten.
WritesNewSecret(in) == ~IsEmpty(in.pass)

WritesSecret(in) == in.clear \/ ~IsEmpty(in.pass)

\* Store.UpdateStream, whatever the stream is doing: the first statement writes
\* all of the row but the passphrase ...
UpdateStream(q, s, in) ==
    /\ s \in live \ Shared
    /\ LET kept == Row(in, row[s].pass)
           goal == Row(in, IF in.clear \/ ~IsEmpty(in.pass) THEN in.pass ELSE asked[s].pass)
       IN  /\ Insertable(s, kept)
           /\ row' = [row EXCEPT ![s] = kept]
           /\ asked' = [asked EXCEPT ![s] = goal]
    /\ IF WritesSecret(in)
       THEN /\ Enter(q, s, "secret")
            /\ want' = [want EXCEPT ![q] = in.pass]
            /\ torn' = IF s \in Editing THEN torn \cup {s} ELSE torn \ {s}
       ELSE /\ pc[q] = "idle" /\ UNCHANGED requestVars
            /\ torn' = IF s \in Editing THEN torn \cup {s} ELSE torn
    /\ UNCHANGED <<active, ffmpeg, lock>>

\* ... the second one the passphrase, if the stream is still there ...
UpdateSecret(q) ==
    /\ pc[q] = "secret" /\ on[q] \notin Shared
    /\ row' = [s \in live |-> IF s = on[q] THEN Row(row[s], want[q])
                              ELSE row[s]]
    /\ Leave(q)
    /\ UNCHANGED <<active, ffmpeg, lock, historyVars>>

\* ... unless the connection fails or the process ends in between.
UpdateBreaks(q) ==
    /\ pc[q] = "secret"
    /\ torn' = torn \cup ({on[q]} \cap live)
    /\ Leave(q)
    /\ UNCHANGED <<row, active, ffmpeg, lock, asked>>

\* Store.DeleteStream counts the stream's active recordings ...
AskDelete(q, s) ==
    /\ s \in live \ active
    /\ Enter(q, s, "delete")
    /\ UNCHANGED <<row, active, ffmpeg, lock, want, historyVars>>

\* ... and, in a statement of its own, sets deleted_at if it is not set.
Delete(q) ==
    /\ pc[q] = "delete" /\ on[q] \notin Shared
    /\ row' = Restrict(row, live \ {on[q]})
    /\ asked' = Restrict(asked, live \ {on[q]})
    /\ torn' = torn \ {on[q]}
    /\ Leave(q)
    /\ UNCHANGED <<active, ffmpeg, lock>>

(* Store.StartRecording --------------------------------------------------------- *)

Begin(q, s) ==
    /\ Enter(q, s, "lock")
    /\ UNCHANGED <<row, active, ffmpeg, lock, want, historyVars>>

\* Faulty variant of LockFree: the count is not serialized.
LockIgnored == TRUE

LockFree == lock = Nobody

\* pg_advisory_xact_lock
Lock(q) ==
    /\ pc[q] = "lock" /\ LockFree
    /\ lock' = q /\ Goto(q, "share")
    /\ UNCHANGED <<row, active, ffmpeg, historyVars>>

\* Faulty variant of Unlock: a session lock, which a refused request keeps.
UnlockSession(q) == lock' = lock

Unlock(q) == lock' = IF lock = q THEN Nobody ELSE lock

Rollback(q) ==
    /\ Leave(q) /\ Unlock(q)
    /\ UNCHANGED <<row, active, ffmpeg, historyVars>>

Share(q) ==
    /\ pc[q] = "share" /\ on[q] \in live
    /\ Goto(q, "count")
    /\ UNCHANGED <<row, active, ffmpeg, lock, historyVars>>

Count(q) ==
    /\ pc[q] = "count" /\ Cardinality(active) < MaxActive
    /\ Goto(q, "insert")
    /\ UNCHANGED <<row, active, ffmpeg, lock, historyVars>>

\* The unique index on active recordings waits for an uncommitted one.
Insert(q) ==
    /\ pc[q] = "insert"
    /\ on[q] \notin active
    /\ \A other \in Requests \ {q} : ~(pc[other] = "commit" /\ on[other] = on[q])
    /\ Goto(q, "commit")
    /\ UNCHANGED <<row, active, ffmpeg, lock, historyVars>>

Refused(q) ==
    \/ pc[q] = "share" /\ on[q] \notin live
    \/ pc[q] = "count" /\ Cardinality(active) >= MaxActive
    \/ pc[q] = "insert" /\ on[q] \in active

Commit(q) ==
    /\ pc[q] = "commit"
    /\ active' = active \cup {on[q]}
    /\ Leave(q) /\ Unlock(q)
    /\ UNCHANGED <<row, ffmpeg, historyVars>>

(* The worker -------------------------------------------------------------------- *)

\* startRecording reads the stream's row and starts FFmpeg ...
StartFFmpeg(s) ==
    /\ s \in (active \cap live) \ DOMAIN ffmpeg
    /\ ~IsEmpty(URLHost(row[s]))
    /\ ffmpeg' = Put(ffmpeg, s, BuildSRTURL(row[s]))
    /\ UNCHANGED <<row, active, lock, requestVars, historyVars>>

\* ... or fails the recording; or FFmpeg ends and the recording with it.
EndRecording(s) ==
    /\ s \in active
    /\ active' = active \ {s}
    /\ ffmpeg' = Restrict(ffmpeg, DOMAIN ffmpeg \ {s})
    /\ UNCHANGED <<row, lock, requestVars, historyVars>>

-----------------------------------------------------------------------------

Next ==
    \/ \E s \in Streams :
          \/ \E in \in Saved : CreateStream(s, in) \/ \E q \in Requests : UpdateStream(q, s, in)
          \/ \E q \in Requests : AskDelete(q, s) \/ Begin(q, s)
          \/ StartFFmpeg(s) \/ EndRecording(s)
    \/ \E q \in Requests :
          \/ UpdateSecret(q) \/ UpdateBreaks(q) \/ Delete(q)
          \/ Lock(q) \/ Share(q) \/ Count(q) \/ Insert(q) \/ Commit(q)
          \/ Refused(q) /\ Rollback(q)

Spec == Init /\ [][Next]_vars

-----------------------------------------------------------------------------

\* The requests that hold the advisory lock.
Admitting == {q \in Requests : pc[q] \in {"share", "count", "insert", "commit"}}

\* The type of the state; and the lock is held by exactly the request that is
\* between taking it and the end of its transaction (store_recordings.go:17-48).
TypeOK ==
    /\ live \subseteq Streams /\ DOMAIN asked = live
    /\ torn \subseteq live
    /\ active \subseteq Streams /\ DOMAIN ffmpeg \subseteq active
    /\ pc \in [Requests -> Places]
    /\ on \in [Requests -> Streams \cup {Nobody}]
    /\ \A q \in Requests : pc[q] = "idle" <=> on[q] = Nobody
    /\ DOMAIN want = Requests
    /\ Admitting = {lock} \ {Nobody}

\* Requests that run at the same time do not collectively pass the host's limit
\* on active recordings (store_recordings.go:22-38).
ActiveWithinLimit == Cardinality(active) <= MaxActive

\* A recording is only ever admitted to a stream that exists at that moment,
\* although a deletion may wait to go through (store_recordings.go:29).
AdmittedStreamIsLive == [][\A s \in active' \ active : s \in live]_vars

Listens(u) == u.mode = "listener"

\* Two FFmpeg processes told to listen on one port are the result of an edit: one
\* of the two streams was deleted or given another address while it was recorded
\* (002_soft_delete_and_srt_url.sql:9-10, store_streams.go:182).
ClashesComeFromEdits ==
    \A s, t \in DOMAIN ffmpeg :
       s # t /\ Listens(ffmpeg[s]) /\ Listens(ffmpeg[t]) /\ ffmpeg[s].port = ffmpeg[t].port
          => \E u \in {s, t} : u \notin live \/ BuildSRTURL(row[u]) # ffmpeg[u]

\* Once its edits went through one after another, a stream's row is what they ask
\* for, the passphrase that a second statement writes included; a start in the
\* middle of an edit may still have read half of it (store_streams.go:183-193).
EditsAreWhole == \A s \in live \ (Editing \cup torn) : row[s] = asked[s]

\* Ports that the worker publishes (compose.yaml:76).
Published == 9000..9099

\* Whatever was typed, an address was pasted or a field was left out, a stored
\* stream satisfies the table, has an address and a passphrase that FFmpeg can be
\* given, and listens on a published port only (store_streams.go:29-106,
\* media.go:118-139).
StoredStreamIsUsable ==
    \A s \in live :
       /\ TableAccepts(row[s]) /\ ~IsEmpty(URLHost(row[s]))
       /\ PassAllowed(row[s].pass)
       /\ Listens(row[s]) => row[s].port \in Published

=============================================================================
