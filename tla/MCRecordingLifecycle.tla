------------------------- MODULE MCRecordingLifecycle -------------------------
(***************************************************************************)
(* Small instances of RecordingLifecycle: one recording, or two of one     *)
(* stream.                                                                 *)
(***************************************************************************)
EXTENDS RecordingLifecycle

CONSTANTS r1, r2, s1

One      == {r1}
Two      == {r1, r2}
OneOfS1  == [r \in One |-> s1]
TwoOfS1  == [r \in Two |-> s1]
OnlyS1   == {s1}

=============================================================================
