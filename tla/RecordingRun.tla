------------------------------ MODULE RecordingRun ------------------------------
(***************************************************************************)
(* What one run of a recording's goroutine promises to those who see only  *)
(* its row and its file: the row says "recording" at most once and before  *)
(* the run ends; a run that wrote anything, or was shown as recording,     *)
(* ends with its file being finalized; only one that has nothing to show   *)
(* is failed.  RecordingProcess implements this, and RecordingLifecycle    *)
(* allows just this of its one place "run".                                *)
(***************************************************************************)

VARIABLES
    status,   \* recordings.status
    data,     \* the run has written to its .part.ts file
    place     \* "run", then "closing" or "failing", then "closed"

vars == <<status, data, place>>

Init == status = "waiting_input" /\ data = FALSE /\ place = "run"

\* FFmpeg writes the first byte.
Write == place = "run" /\ data' = TRUE /\ UNCHANGED <<status, place>>

\* SetRecordingStarted
Report ==
    /\ place = "run" /\ status = "waiting_input"
    /\ status' = "recording"
    /\ UNCHANGED <<data, place>>

\* finalizeRecording is called; FFmpeg may have reported what is not on the disk.
End == place = "run" /\ place' = "closing" /\ UNCHANGED <<status, data>>

\* finishWithoutMedia is called.
GiveUp ==
    /\ place = "run" /\ ~data /\ status = "waiting_input"
    /\ place' = "failing"
    /\ UNCHANGED <<status, data>>

\* The first write of finalizeRecording, or the only one of finishWithoutMedia;
\* an error is ignored.
Close ==
    /\ \/ place = "closing" /\ status' \in {"finalizing", status}
       \/ place = "failing" /\ status' \in {"failed", status}
    /\ place' = "closed"
    /\ UNCHANGED data

Next == Write \/ Report \/ End \/ GiveUp \/ Close

Spec == Init /\ [][Next]_vars

=============================================================================
