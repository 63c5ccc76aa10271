--------------------------- MODULE RecordingContract ---------------------------
(***************************************************************************)
(* What a recording's row promises to whoever reads it (README.md, the     *)
(* status list; the web client's status labels): the status only moves     *)
(* forward, a recording ends once, and it is "ready" only after it was     *)
(* "finalizing".  RecordingProcess and RecordingLifecycle are shown to     *)
(* implement this, the second as long as no worker crashes.                *)
(***************************************************************************)

VARIABLE status    \* recordings.status of one recording

Active   == {"waiting_input", "recording", "finalizing"}
Terminal == {"ready", "failed"}

Init == status = "waiting_input"

\* SetRecordingStarted
Begin == status = "waiting_input" /\ status' = "recording"

\* SetRecordingFinalizing
Close == status \in {"waiting_input", "recording"} /\ status' = "finalizing"

\* FinishRecording after ffprobe accepted and stored the file
Complete == status = "finalizing" /\ status' = "ready"

\* FinishRecording in every other case; a recording that carries media is
\* closed first.
Fail == status \in {"waiting_input", "finalizing"} /\ status' = "failed"

Next == Begin \/ Close \/ Complete \/ Fail

Spec == Init /\ [][Next]_status

=============================================================================
