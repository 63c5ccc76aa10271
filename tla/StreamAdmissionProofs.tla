------------------------ MODULE StreamAdmissionProofs ------------------------
(***************************************************************************)
(* Proofs about StreamAdmission, for any streams, ports, requests in flight*)
(* and limit.                                                              *)
(***************************************************************************)
EXTENDS StreamAdmission, FiniteSetTheorems, TLAPS

\* The count a request has read stays right until its transaction ends, because
\* only the holder of the advisory lock adds an active recording.
RoomIsKept == \A q \in Requests : pc[q] \in {"insert", "commit"} => Cardinality(active) < MaxActive

\* FOR SHARE keeps the row of an open transaction from being deleted.
SharedIsLive == Shared \subseteq live

\* The rows of existing streams have different listener ports.
RowsHavePorts ==
    \A s, t \in live : s # t /\ Listens(row[s]) /\ Listens(row[t]) => row[s].port # row[t].port

\* A stream whose edits do not overlap has at most one that still has a passphrase
\* to write, and with it the row is what they ask for.
SecretIsLeft ==
    \A s \in live \ torn : \A q \in Requests : pc[q] = "secret" /\ on[q] = s =>
       /\ asked[s] = Row(row[s], want[q])
       /\ \A other \in Requests : pc[other] = "secret" /\ on[other] = s => other = q

\* What is still to be written was acceptable too.
SecretsAllowed == \A q \in Requests : PassAllowed(want[q])

Counted ==
    /\ IsFiniteSet(active)
    /\ ActiveWithinLimit
    /\ RoomIsKept

Locked == TypeOK /\ Counted /\ SharedIsLive
Edited == SecretIsLeft /\ EditsAreWhole
Usable == SecretsAllowed /\ StoredStreamIsUsable

IInv == Locked /\ RowsHavePorts /\ Edited /\ Usable

-----------------------------------------------------------------------------

LEMMA InitInv == Init => IInv
<1> SUFFICES ASSUME Init PROVE IInv
  OBVIOUS
<1> USE DEF Init, live
<1>1. TypeOK
  BY AdmissionAssumption DEF TypeOK, Places, Admitting
<1>2. Counted
  BY FS_EmptySet, AdmissionAssumption DEF Counted, ActiveWithinLimit, RoomIsKept
<1>3. DOMAIN row = {}
  OBVIOUS
<1>4. SecretsAllowed
  <2>1. IsEmpty(NoText) /\ \A q \in Requests : want[q] = NoText
    BY DEF IsEmpty, NoText
  <2> QED
    BY <2>1 DEF SecretsAllowed, PassAllowed
<1> QED
  BY <1>1, <1>2, <1>3, <1>4
  DEF IInv, Locked, Edited, Usable, SharedIsLive, Shared, RowsHavePorts, SecretIsLeft,
      EditsAreWhole, StoredStreamIsUsable

(* One lemma per part of the invariant. ------------------------------------ *)

Admit(q) ==
    \/ Lock(q) \/ Share(q) \/ Count(q) \/ Insert(q) \/ Commit(q)
    \/ Refused(q) /\ Rollback(q)

EditSteps(s) ==
    \/ \E in \in Saved : CreateStream(s, in) \/ \E q \in Requests : UpdateStream(q, s, in)
    \/ \E q \in Requests : AskDelete(q, s) \/ Begin(q, s)

EditRest(q) == UpdateSecret(q) \/ UpdateBreaks(q) \/ Delete(q)

LEMMA NextSteps ==
    Next <=> \/ \E s \in Streams : EditSteps(s) \/ StartFFmpeg(s) \/ EndRecording(s)
             \/ \E q \in Requests : EditRest(q) \/ Admit(q)
  BY DEF Next, EditSteps, EditRest, Admit

\* A transaction's steps leave the streams alone and only add their own stream.
LEMMA AdmitStep ==
    ASSUME Locked, NEW q \in Requests, Admit(q)
    PROVE  /\ UNCHANGED <<row, ffmpeg, asked, torn>>
           /\ pc' \in [Requests -> Places]
           /\ on' \in [Requests -> Streams \cup {Nobody}]
           /\ \A r \in Requests : pc'[r] = "idle" <=> on'[r] = Nobody
           /\ DOMAIN want' = Requests
           /\ \A r \in Requests : want'[r] \in {want[r], NoText}
           /\ \A r \in Requests : r # q => pc'[r] = pc[r] /\ on'[r] = on[r] /\ want'[r] = want[r]
           /\ pc[q] # "secret" /\ pc'[q] # "secret"
           /\ active' \in {active, active \cup {on[q]}}
           /\ active' # active => pc[q] = "commit"
           /\ pc'[q] \in {"count", "insert", "commit"} => on'[q] = on[q] /\ on[q] \in live
           /\ Admitting' = {lock'} \ {Nobody}
<1> USE AdmissionAssumption DEF Locked
<1>1. CASE Lock(q)
  BY <1>1 DEF Lock, LockFree, Goto, TypeOK, Admitting, Places, historyVars
<1>2. CASE Share(q)
  BY <1>2 DEF Share, Goto, TypeOK, Admitting, Places, historyVars
<1>3. CASE Count(q) \/ Insert(q)
  <2>1. on[q] \in live
    BY <1>3 DEF Count, Insert, SharedIsLive, Shared
  <2> QED
    BY <1>3, <2>1 DEF Count, Insert, Goto, TypeOK, Admitting, Places, historyVars
<1>4. CASE Commit(q)
  BY <1>4 DEF Commit, Unlock, Leave, TypeOK, Admitting, Places, historyVars
<1>5. CASE Refused(q) /\ Rollback(q)
  BY <1>5 DEF Refused, Rollback, Unlock, Leave, TypeOK, Admitting, Places, historyVars
<1> QED
  BY <1>1, <1>2, <1>3, <1>4, <1>5 DEF Admit

LEMMA CommitIsLive == ASSUME Locked, NEW q \in Requests, pc[q] = "commit"
                      PROVE  on[q] \in live /\ on[q] \in Streams
  BY DEF Locked, SharedIsLive, Shared, TypeOK

LEMMA StepTypeOK == IInv /\ [Next]_vars => TypeOK'
<1> SUFFICES ASSUME IInv, [Next]_vars PROVE TypeOK'
  OBVIOUS
<1> USE AdmissionAssumption DEF IInv, Locked, historyVars, requestVars, live
<1>1. ASSUME NEW s \in Streams, NEW in \in Saved, CreateStream(s, in) PROVE TypeOK'
  BY <1>1 DEF CreateStream, Put, TypeOK, Admitting
<1>2. ASSUME NEW s \in Streams, NEW in \in Saved, NEW q \in Requests, UpdateStream(q, s, in)
      PROVE  TypeOK'
  <2>1. /\ DOMAIN row' = live /\ DOMAIN asked' = live
        /\ s \in live /\ torn' \in {torn \cup {s}, torn \ {s}, torn}
        /\ UNCHANGED <<active, ffmpeg, lock>>
    BY <1>2 DEF UpdateStream, TypeOK
  <2>2. \/ UNCHANGED requestVars
        \/ Enter(q, s, "secret") /\ DOMAIN want' = Requests
    BY <1>2 DEF UpdateStream, TypeOK
  <2> QED
    BY <2>1, <2>2 DEF Enter, TypeOK, Places, Admitting
<1>3. ASSUME NEW s \in Streams, NEW q \in Requests, AskDelete(q, s) \/ Begin(q, s)
      PROVE  TypeOK'
  BY <1>3 DEF AskDelete, Begin, Enter, TypeOK, Places, Admitting
<1>4. ASSUME NEW s \in Streams, StartFFmpeg(s) \/ EndRecording(s) PROVE TypeOK'
  BY <1>4 DEF StartFFmpeg, EndRecording, Put, Restrict, TypeOK, Admitting
<1>5. ASSUME NEW q \in Requests, EditRest(q) PROVE TypeOK'
  BY <1>5 DEF EditRest, UpdateSecret, UpdateBreaks, Delete, Restrict, Leave, TypeOK, Places,
              Admitting
<1>6. ASSUME NEW q \in Requests, Admit(q) PROVE TypeOK'
  BY <1>6, AdmitStep, CommitIsLive DEF TypeOK
<1>7. CASE UNCHANGED vars
  BY <1>7 DEF vars, TypeOK, Admitting
<1> QED
  BY <1>1, <1>2, <1>3, <1>4, <1>5, <1>6, <1>7, NextSteps DEF EditSteps

LEMMA StepCounted == IInv /\ [Next]_vars => Counted'
<1> SUFFICES ASSUME IInv, [Next]_vars PROVE Counted'
  OBVIOUS
<1> USE DEF IInv, Locked
<1>0. Cardinality(active) \in Nat /\ MaxActive \in Nat
  BY FS_CardinalityType, AdmissionAssumption DEF Counted
<1>1. ASSUME UNCHANGED active,
             \A q \in Requests : pc'[q] \in {"insert", "commit"} =>
                pc[q] \in {"insert", "commit"} \/ Cardinality(active) < MaxActive
      PROVE  Counted'
  BY <1>1 DEF Counted, ActiveWithinLimit, RoomIsKept
<1>2. CASE \E s \in Streams : EditSteps(s) \/ StartFFmpeg(s)
  BY <1>1, <1>2 DEF EditSteps, CreateStream, UpdateStream, AskDelete, Begin, Enter,
                    StartFFmpeg, TypeOK, requestVars
<1>3. CASE \E q \in Requests : EditRest(q)
  BY <1>1, <1>3 DEF EditRest, UpdateSecret, UpdateBreaks, Delete, Leave, TypeOK
<1>4. CASE \E q \in Requests :
              Lock(q) \/ Share(q) \/ Count(q) \/ Insert(q) \/ (Refused(q) /\ Rollback(q))
  BY <1>1, <1>4 DEF Lock, Share, Count, Insert, Rollback, Goto, Leave, TypeOK
<1>5. ASSUME NEW s \in Streams, EndRecording(s)
      PROVE  Counted'
  <2>1. IsFiniteSet(active') /\ Cardinality(active') <= Cardinality(active)
    <3>1. active' = active \ {s} /\ IsFiniteSet(active) /\ s \in active
      BY <1>5 DEF EndRecording, Counted
    <3>2. IsFiniteSet(active') /\ Cardinality(active') = Cardinality(active) - 1
      BY <3>1, FS_RemoveElement
    <3> QED
      BY <1>0, <3>2
  <2>2. Cardinality(active') \in Nat
    BY <2>1, FS_CardinalityType
  <2>3. pc' = pc
    BY <1>5 DEF EndRecording, requestVars
  <2> QED
    BY <1>0, <2>1, <2>2, <2>3 DEF Counted, ActiveWithinLimit, RoomIsKept
<1>6. ASSUME NEW q \in Requests, Commit(q)
      PROVE  Counted'
  <2>1. Cardinality(active) < MaxActive
    BY <1>6 DEF Commit, Counted, RoomIsKept
  <2>2. IsFiniteSet(active') /\ Cardinality(active') <= Cardinality(active) + 1
    <3>1. active' = active \cup {on[q]} /\ IsFiniteSet(active)
      BY <1>6 DEF Commit, Counted
    <3>2. /\ IsFiniteSet(active')
          /\ Cardinality(active') =
               IF on[q] \in active THEN Cardinality(active) ELSE Cardinality(active) + 1
      BY <3>1, FS_AddElement
    <3> QED
      BY <1>0, <3>2
  <2>3. Cardinality(active') \in Nat
    BY <2>2, FS_CardinalityType
  <2>4. \A other \in Requests : pc'[other] \notin {"insert", "commit"}
    BY <1>6 DEF Commit, Leave, TypeOK, Admitting
  <2> QED
    BY <1>0, <2>1, <2>2, <2>3, <2>4 DEF Counted, ActiveWithinLimit, RoomIsKept
<1>7. CASE UNCHANGED vars
  BY <1>1, <1>7 DEF vars, requestVars
<1>8. ASSUME NEW q \in Requests, Admit(q) PROVE Counted'
  BY <1>4, <1>6, <1>8, Zenon DEF Admit
<1> HIDE DEF IInv, Locked
<1> QED
  BY <1>2, <1>3, <1>5, <1>7, <1>8, NextSteps

LEMMA StepSharedIsLive == IInv /\ [Next]_vars => SharedIsLive'
<1> SUFFICES ASSUME IInv, [Next]_vars PROVE SharedIsLive'
  OBVIOUS
<1> USE DEF IInv, Locked, SharedIsLive, historyVars, requestVars, live
<1>1. CASE \E s \in Streams : EditSteps(s)
  BY <1>1 DEF EditSteps, CreateStream, UpdateStream, AskDelete, Begin, Put, Enter, Shared, TypeOK
<1>2. CASE \E s \in Streams : StartFFmpeg(s) \/ EndRecording(s)
  BY <1>2 DEF StartFFmpeg, EndRecording, Shared
<1>3. CASE \E q \in Requests : EditRest(q)
  BY <1>3 DEF EditRest, UpdateSecret, UpdateBreaks, Delete, Restrict, Leave, Shared, TypeOK
<1>4. ASSUME NEW q \in Requests, Admit(q) PROVE SharedIsLive'
  BY <1>4, AdmitStep DEF Shared
<1>5. CASE UNCHANGED vars
  BY <1>5 DEF vars, Shared
<1> QED
  BY <1>1, <1>2, <1>3, <1>4, <1>5, NextSteps

\* What a step may do to the rows of the streams.
LEMMA RowsStep ==
    ASSUME IInv, [Next]_vars
    PROVE  \/ UNCHANGED row
           \/ \E s \in Streams, in \in Saved :
                 /\ Insertable(s, Row(in, in.pass))
                 /\ live' = live \cup {s} /\ row'[s] = Row(in, in.pass)
                 /\ \A t \in live \ {s} : row'[t] = row[t]
           \/ \E s \in live, in \in Saved :
                 /\ Insertable(s, Row(in, row[s].pass))
                 /\ live' = live /\ row'[s] = Row(in, row[s].pass)
                 /\ \A t \in live \ {s} : row'[t] = row[t]
           \/ \E q \in Requests :
                 /\ live' = live
                 /\ \A t \in live : row'[t] \in {row[t], Row(row[t], want[q])}
           \/ live' \subseteq live /\ \A t \in live' : row'[t] = row[t]
<1> USE DEF IInv, Locked, live
<1>1. ASSUME NEW s \in Streams, NEW in \in Saved, CreateStream(s, in)
      PROVE  /\ Insertable(s, Row(in, in.pass))
             /\ live' = live \cup {s} /\ row'[s] = Row(in, in.pass)
             /\ \A t \in live \ {s} : row'[t] = row[t]
  BY <1>1 DEF CreateStream, Put
<1>2. ASSUME NEW s \in Streams, NEW in \in Saved, NEW q \in Requests, UpdateStream(q, s, in)
      PROVE  /\ s \in live
             /\ Insertable(s, Row(in, row[s].pass))
             /\ live' = live /\ row'[s] = Row(in, row[s].pass)
             /\ \A t \in live \ {s} : row'[t] = row[t]
  BY <1>2 DEF UpdateStream
<1>3. ASSUME NEW q \in Requests, UpdateSecret(q)
      PROVE  /\ live' = live
             /\ \A t \in live : row'[t] \in {row[t], Row(row[t], want[q])}
  BY <1>3 DEF UpdateSecret
<1>4. ASSUME NEW q \in Requests, Delete(q)
      PROVE  live' \subseteq live /\ \A t \in live' : row'[t] = row[t]
  BY <1>4 DEF Delete, Restrict
<1>5. CASE \/ \E s \in Streams, q \in Requests : AskDelete(q, s) \/ Begin(q, s)
           \/ \E s \in Streams : StartFFmpeg(s) \/ EndRecording(s)
           \/ \E q \in Requests : UpdateBreaks(q)
  BY <1>5 DEF AskDelete, Begin, StartFFmpeg, EndRecording, UpdateBreaks
<1>6. ASSUME NEW q \in Requests, Admit(q) PROVE UNCHANGED row
  BY <1>6, AdmitStep
<1>7. CASE UNCHANGED vars
  BY <1>7 DEF vars
<1> QED
  BY <1>1, <1>2, <1>3, <1>4, <1>5, <1>6, <1>7, NextSteps DEF EditSteps, EditRest

LEMMA RowFields ==
    ASSUME NEW r, NEW p
    PROVE  /\ Row(r, p).mode = r.mode /\ Row(r, p).host = r.host /\ Row(r, p).port = r.port
           /\ Row(r, p).latency = r.latency /\ Row(r, p).timeout = r.timeout
           /\ Row(r, p).pass = p
  BY DEF Row

LEMMA StepRows == IInv /\ [Next]_vars => RowsHavePorts'
<1> SUFFICES ASSUME IInv, [Next]_vars PROVE RowsHavePorts'
  OBVIOUS
<1> USE DEF IInv, RowsHavePorts, Listens
<1>1. CASE UNCHANGED row
  BY <1>1 DEF live
<1>2. ASSUME NEW s, NEW r, IndexAllows(s, r), live' = live \cup {s}, row'[s] = r,
             \A t \in live \ {s} : row'[t] = row[t]
      PROVE  RowsHavePorts'
  BY <1>2 DEF IndexAllows
<1>3. ASSUME NEW x, live' = live, \A t \in live : row'[t] \in {row[t], Row(row[t], x)}
      PROVE  RowsHavePorts'
  <2>1. \A t \in live : row'[t].mode = row[t].mode /\ row'[t].port = row[t].port
    BY <1>3, RowFields
  <2> QED
    BY <1>3, <2>1
<1>4. CASE live' \subseteq live /\ \A t \in live' : row'[t] = row[t]
  BY <1>4
<1> QED
  BY <1>1, <1>2, <1>3, <1>4, RowsStep DEF Insertable

LEMMA SavedIsUsable ==
    ASSUME NEW in \in Saved
    PROVE  /\ PassAllowed(in.pass)
           /\ ~IsEmpty(URLHost(in))
           /\ in.mode = "listener" => in.port \in Published
<1>1. Acceptable(in)
  BY DEF Saved, ValidateStreamInput
<1>2. /\ in.mode = "caller" \/ in.mode = "listener"
      /\ in.mode = "caller" => ~IsEmpty(in.host)
      /\ PortAllowed(in) /\ PassAllowed(in.pass)
  BY <1>1, Zenon DEF Acceptable
<1>3. in.mode = "listener" => in.port \in Published
  BY <1>2, SMT DEF PortAllowed, Published, ListenerPorts
<1>4. ~IsEmpty(AnyAddress)
  BY DEF AnyAddress, IsEmpty
<1>5. ~IsEmpty(URLHost(in))
  BY <1>2, <1>4, Zenon DEF URLHost
<1> QED
  BY <1>2, <1>3, <1>5

\* A row that satisfies StoredStreamIsUsable.
Fine(r) ==
    /\ TableAccepts(r) /\ ~IsEmpty(URLHost(r))
    /\ PassAllowed(r.pass)
    /\ Listens(r) => r.port \in Published

LEMMA FineKeepsPass ==
    ASSUME NEW r, NEW p, PassAllowed(p), Fine(r)
    PROVE  Fine(Row(r, p))
<1> DEFINE w == Row(r, p)
<1>1. /\ w.mode = r.mode /\ w.host = r.host /\ w.port = r.port
      /\ w.latency = r.latency /\ w.timeout = r.timeout /\ w.pass = p
  BY RowFields
<1> HIDE DEF w
<1>2. TableAccepts(w)
  BY <1>1, Zenon DEF Fine, TableAccepts
<1>3. ~IsEmpty(URLHost(w))
  BY <1>1, Zenon DEF Fine, URLHost
<1>4. Listens(w) => w.port \in Published
  BY <1>1, Zenon DEF Fine, Listens
<1>5. Fine(w)
  BY <1>1, <1>2, <1>3, <1>4, Zenon DEF Fine
<1> QED
  BY <1>5 DEF w

LEMMA SavedIsFine ==
    ASSUME NEW in \in Saved, NEW p, PassAllowed(p), TableAccepts(Row(in, p))
    PROVE  Fine(Row(in, p))
<1> DEFINE w == Row(in, p)
<1>1. /\ w.mode = in.mode /\ w.host = in.host /\ w.port = in.port /\ w.pass = p
      /\ TableAccepts(w)
  BY RowFields
<1> HIDE DEF w
<1>2. Fine(w)
  BY <1>1, SavedIsUsable, Zenon DEF Fine, URLHost, Listens
<1> QED
  BY <1>2 DEF w

LEMMA StepUsable == IInv /\ [Next]_vars => Usable'
<1> SUFFICES ASSUME IInv, [Next]_vars PROVE Usable'
  OBVIOUS
<1> USE DEF Usable
<1>0. SecretsAllowed /\ StoredStreamIsUsable /\ Locked
  BY DEF IInv
<1>1. SecretsAllowed'
  <2>1. PassAllowed(NoText)
    <3>1. IsEmpty(NoText)
      BY DEF NoText, IsEmpty
    <3> QED
      BY <3>1 DEF PassAllowed
  <2>2. \A q \in Requests : \/ want'[q] = want[q] \/ want'[q] = NoText
                            \/ \E in \in Saved : want'[q] = in.pass
    <3>1. CASE \E q \in Requests : Admit(q)
      BY <1>0, <3>1, AdmitStep
    <3>2. CASE \E s \in Streams : EditSteps(s) \/ StartFFmpeg(s) \/ EndRecording(s)
      BY <1>0, <3>2 DEF EditSteps, CreateStream, UpdateStream, AskDelete, Begin, StartFFmpeg,
                  EndRecording, requestVars, Locked, TypeOK
    <3>3. CASE \E q \in Requests : EditRest(q)
      BY <1>0, <3>3 DEF EditRest, UpdateSecret, UpdateBreaks, Delete, Leave, Locked, TypeOK
    <3>4. CASE UNCHANGED vars
      BY <3>4 DEF vars, requestVars
    <3> QED
      BY <3>1, <3>2, <3>3, <3>4, NextSteps
  <2> QED
    BY <1>0, <2>1, <2>2, SavedIsUsable DEF SecretsAllowed
<1>2. \A t \in live : Fine(row[t])
  BY <1>0 DEF StoredStreamIsUsable, Fine
<1>3. \A t \in live' : Fine(row'[t])
  <2>1. CASE UNCHANGED row
    BY <2>1, <1>2 DEF live
  <2>2. ASSUME NEW s \in Streams, NEW in \in Saved, Insertable(s, Row(in, in.pass)),
               live' = live \cup {s}, row'[s] = Row(in, in.pass),
               \A t \in live \ {s} : row'[t] = row[t]
        PROVE  \A t \in live' : Fine(row'[t])
    <3>1. Fine(row'[s])
      BY <2>2, SavedIsFine, SavedIsUsable DEF Insertable
    <3> QED
      BY <2>2, <3>1, <1>2
  <2>3. ASSUME NEW s \in live, NEW in \in Saved, Insertable(s, Row(in, row[s].pass)),
               live' = live, row'[s] = Row(in, row[s].pass),
               \A t \in live \ {s} : row'[t] = row[t]
        PROVE  \A t \in live' : Fine(row'[t])
    <3>1. PassAllowed(row[s].pass)
      BY <1>2, <2>3 DEF Fine
    <3>2. Fine(row'[s])
      BY <2>3, <3>1, SavedIsFine DEF Insertable
    <3> QED
      BY <2>3, <3>2, <1>2
  <2>4. ASSUME NEW q \in Requests, live' = live,
               \A t \in live : row'[t] \in {row[t], Row(row[t], want[q])}
        PROVE  \A t \in live' : Fine(row'[t])
    BY <1>0, <2>4, <1>2, FineKeepsPass DEF SecretsAllowed
  <2>5. CASE live' \subseteq live /\ \A t \in live' : row'[t] = row[t]
    BY <2>5, <1>2
  <2> QED
    BY <2>1, <2>2, <2>3, <2>4, <2>5, RowsStep
<1>4. StoredStreamIsUsable'
  BY <1>3 DEF StoredStreamIsUsable, Fine
<1> QED
  BY <1>1, <1>4

LEMMA RowOfRow ==
    ASSUME NEW r, NEW p, NEW o
    PROVE  Row(Row(r, p), o) = Row(r, o)
  BY DEF Row

\* An edit's first statement: the row then is what the edits ask for, but for a
\* passphrase that this edit, the only one of the stream, is about to write.
LEMMA FirstStatement ==
    ASSUME IInv, NEW s \in Streams, NEW in \in Saved, NEW q \in Requests, UpdateStream(q, s, in)
    PROVE  Edited'
<1> USE DEF IInv, Locked, Edited, live, Editing, requestVars
<1>0. s \in live /\ live' = live /\ \A t \in live \ {s} : row'[t] = row[t] /\ asked'[t] = asked[t]
  BY DEF UpdateStream, TypeOK
<1>1. CASE WritesSecret(in)
  <2>1. /\ pc[q] = "idle" /\ pc'[q] = "secret" /\ on'[q] = s /\ want'[q] = in.pass
        /\ \A r \in Requests \ {q} : pc'[r] = pc[r] /\ on'[r] = on[r] /\ want'[r] = want[r]
        /\ torn' = IF s \in Editing THEN torn \cup {s} ELSE torn \ {s}
    BY <1>1, Zenon DEF UpdateStream, Enter, TypeOK
  <2>2. row'[s] = Row(in, row[s].pass) /\ asked'[s] = Row(in, in.pass)
    BY <1>0, <1>1 DEF UpdateStream, WritesSecret, TypeOK
  <2>3. asked'[s] = Row(row'[s], want'[q])
    BY <2>1, <2>2, RowOfRow
  <2>4. SecretIsLeft'
    BY <1>0, <2>1, <2>3 DEF SecretIsLeft
  <2>5. EditsAreWhole'
    BY <1>0, <2>1 DEF EditsAreWhole
  <2> QED
    BY <2>4, <2>5
<1>2. CASE ~WritesSecret(in)
  <2>1. /\ UNCHANGED <<pc, on, want>>
        /\ torn' = IF s \in Editing THEN torn \cup {s} ELSE torn
    BY <1>2 DEF UpdateStream
  <2>2. row'[s] = Row(in, row[s].pass) /\ asked'[s] = Row(in, asked[s].pass)
    BY <1>0, <1>2 DEF UpdateStream, WritesSecret, TypeOK
  <2>3. SecretIsLeft'
    BY <1>0, <2>1 DEF SecretIsLeft
  <2>4. EditsAreWhole'
    BY <1>0, <2>1, <2>2 DEF EditsAreWhole
  <2> QED
    BY <2>3, <2>4
<1> QED
  BY <1>1, <1>2

\* A request that does not edit changes no edit and no row.
LEMMA OtherStep ==
    ASSUME IInv, UNCHANGED <<row, asked, torn>>,
           \A q \in Requests : pc'[q] = "secret" <=> pc[q] = "secret",
           \A q \in Requests : pc'[q] = "secret" => on'[q] = on[q] /\ want'[q] = want[q]
    PROVE  Edited'
<1> USE DEF IInv, Edited, live
<1>1. Editing' = Editing
  BY DEF Editing
<1>2. SecretIsLeft'
  BY DEF SecretIsLeft
<1>3. EditsAreWhole'
  BY <1>1 DEF EditsAreWhole
<1> QED
  BY <1>2, <1>3

LEMMA StepEdited == IInv /\ [Next]_vars => Edited'
<1> SUFFICES ASSUME IInv, [Next]_vars PROVE Edited'
  OBVIOUS
<1> USE DEF IInv, Locked, live, requestVars, historyVars
<1>1. ASSUME NEW s \in Streams, NEW in \in Saved, CreateStream(s, in)
      PROVE  Edited'
  <2>1. /\ live' = live \cup {s} /\ row'[s] = asked'[s] /\ torn' = torn
        /\ \A t \in live \ {s} : row'[t] = row[t] /\ asked'[t] = asked[t]
        /\ UNCHANGED <<pc, on, want>> /\ \A q \in Requests : on[q] # s
    BY <1>1 DEF CreateStream, Put, TypeOK
  <2>2. SecretIsLeft'
    BY <2>1 DEF Edited, SecretIsLeft
  <2>3. EditsAreWhole'
    BY <2>1 DEF Edited, EditsAreWhole, Editing
  <2> QED
    BY <2>2, <2>3 DEF Edited
<1>2. ASSUME NEW s \in Streams, NEW in \in Saved, NEW q \in Requests, UpdateStream(q, s, in)
      PROVE  Edited'
  BY <1>2, FirstStatement
<1>3. ASSUME NEW s \in Streams, NEW q \in Requests, AskDelete(q, s) \/ Begin(q, s)
      PROVE  Edited'
  BY <1>3, OtherStep DEF AskDelete, Begin, Enter, TypeOK
<1>4. ASSUME NEW s \in Streams, StartFFmpeg(s) \/ EndRecording(s) PROVE Edited'
  BY <1>4, OtherStep DEF StartFFmpeg, EndRecording
<1>5. ASSUME NEW q \in Requests, UpdateSecret(q) PROVE Edited'
  <2>1. /\ live' = live /\ UNCHANGED <<asked, torn>>
        /\ \A t \in live \ {on[q]} : row'[t] = row[t]
        /\ on[q] \in live => row'[on[q]] = Row(row[on[q]], want[q])
        /\ pc[q] = "secret" /\ pc'[q] = "idle" /\ on'[q] = Nobody
        /\ \A r \in Requests \ {q} : pc'[r] = pc[r] /\ on'[r] = on[r] /\ want'[r] = want[r]
    BY <1>5 DEF UpdateSecret, Leave, TypeOK
  <2>2. \A t \in live \ torn : t = on[q] =>
           row'[t] = asked'[t] /\ \A r \in Requests : pc'[r] = "secret" => on'[r] # t
    BY <2>1 DEF Edited, SecretIsLeft
  <2>3. SecretIsLeft'
    BY <2>1, <2>2 DEF Edited, SecretIsLeft
  <2>4. EditsAreWhole'
    <3>1. \A t \in live \ {on[q]} : t \in Editing => t \in Editing'
      BY <2>1 DEF Editing
    <3> QED
      BY <2>1, <2>2, <3>1 DEF Edited, EditsAreWhole
  <2> QED
    BY <2>3, <2>4 DEF Edited
<1>6. ASSUME NEW q \in Requests, UpdateBreaks(q) \/ Delete(q) PROVE Edited'
  <2>1. /\ live' \subseteq live /\ \A t \in live' : row'[t] = row[t] /\ asked'[t] = asked[t]
        /\ \A r \in Requests \ {q} : pc'[r] = pc[r] /\ on'[r] = on[r] /\ want'[r] = want[r]
        /\ pc'[q] = "idle"
        /\ \A t \in live' \ torn' : t \notin torn /\ t # on[q]
    <3>1. CASE UpdateBreaks(q)
      BY <3>1 DEF UpdateBreaks, Leave, TypeOK
    <3>2. CASE Delete(q)
      BY <3>2 DEF Delete, Restrict, Leave, TypeOK
    <3> QED
      BY <1>6, <3>1, <3>2
  <2>2. SecretIsLeft'
    BY <2>1 DEF Edited, SecretIsLeft
  <2>3. EditsAreWhole'
    BY <2>1 DEF Edited, EditsAreWhole, Editing
  <2> QED
    BY <2>2, <2>3 DEF Edited
<1>7. ASSUME NEW q \in Requests, Admit(q) PROVE Edited'
  BY <1>7, AdmitStep, OtherStep
<1>8. CASE UNCHANGED vars
  BY <1>8, OtherStep DEF vars
<1> QED
  BY <1>1, <1>2, <1>3, <1>4, <1>5, <1>6, <1>7, <1>8, NextSteps DEF EditSteps, EditRest

(* The theorems. ------------------------------------------------------------ *)

\* The inductive invariant.
THEOREM AdmissionInvariant == Spec => []IInv
<1>1. IInv /\ [Next]_vars => IInv'
  BY StepTypeOK, StepCounted, StepSharedIsLive, StepRows, StepEdited, StepUsable
  DEF IInv, Locked
<1> QED
  BY <1>1, InitInv, PTL DEF Spec

\* The lock is held exactly during a transaction (store_recordings.go:17-48).
THEOREM AdmissionTypeOK == Spec => []TypeOK
<1>1. IInv => TypeOK
  BY DEF IInv, Locked
<1> QED
  BY <1>1, AdmissionInvariant, PTL

\* However many requests run at once, the active recordings stay within the
\* limit (store_recordings.go:22-38).
THEOREM AdmissionWithinLimit == Spec => []ActiveWithinLimit
<1>1. IInv => ActiveWithinLimit
  BY DEF IInv, Locked, Counted
<1> QED
  BY <1>1, AdmissionInvariant, PTL

\* Only an edit makes two FFmpeg processes listen on one port
\* (002_soft_delete_and_srt_url.sql:9-10).
THEOREM AdmissionClashes == Spec => []ClashesComeFromEdits
<1>1. IInv => ClashesComeFromEdits
  <2> SUFFICES ASSUME IInv, NEW s \in DOMAIN ffmpeg, NEW t \in DOMAIN ffmpeg, s # t,
                      Listens(ffmpeg[s]), Listens(ffmpeg[t]), ffmpeg[s].port = ffmpeg[t].port,
                      s \in live, t \in live,
                      BuildSRTURL(row[s]) = ffmpeg[s], BuildSRTURL(row[t]) = ffmpeg[t]
               PROVE  FALSE
    BY DEF ClashesComeFromEdits
  <2>1. \A r : BuildSRTURL(r).mode = r.mode /\ BuildSRTURL(r).port = r.port
    BY DEF BuildSRTURL
  <2>2. /\ row[s].mode = "listener" /\ row[t].mode = "listener"
        /\ row[s].port = row[t].port
    BY <2>1 DEF Listens
  <2> QED
    BY <2>2 DEF IInv, RowsHavePorts, Listens
<1> QED
  BY <1>1, AdmissionInvariant, PTL

\* Edits that do not overlap are whole (store_streams.go:183-193).
THEOREM AdmissionEdits == Spec => []EditsAreWhole
<1>1. IInv => EditsAreWhole
  BY DEF IInv, Edited
<1> QED
  BY <1>1, AdmissionInvariant, PTL

\* Whatever forms are submitted, FFmpeg can be given every stored stream
\* (store_streams.go:29-106).
THEOREM AdmissionUsable == Spec => []StoredStreamIsUsable
<1>1. IInv => StoredStreamIsUsable
  BY DEF IInv, Usable
<1> QED
  BY <1>1, AdmissionInvariant, PTL

\* A recording is admitted only to a stream that exists (store_recordings.go:29).
THEOREM AdmissionLiveStream == Spec => AdmittedStreamIsLive
<1> DEFINE Admits == \A s \in active' \ active : s \in live
<1>1. IInv /\ [Next]_vars => [Admits]_vars
  <2> SUFFICES ASSUME IInv, Next PROVE Admits
    BY DEF vars
  <2>1. ASSUME NEW q \in Requests, Admit(q) PROVE Admits
    BY <2>1, AdmitStep, CommitIsLive DEF IInv
  <2>2. CASE \E s \in Streams : EditSteps(s) \/ StartFFmpeg(s) \/ EndRecording(s)
    BY <2>2 DEF EditSteps, CreateStream, UpdateStream, AskDelete, Begin, StartFFmpeg, EndRecording
  <2>3. CASE \E q \in Requests : EditRest(q)
    BY <2>3 DEF EditRest, UpdateSecret, UpdateBreaks, Delete
  <2> QED
    BY <2>1, <2>2, <2>3, NextSteps
<1> QED
  BY <1>1, AdmissionInvariant, PTL DEF Spec, AdmittedStreamIsLive

=============================================================================
