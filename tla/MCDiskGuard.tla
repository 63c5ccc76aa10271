------------------------------ MODULE MCDiskGuard ------------------------------
(***************************************************************************)
(* A disk of 20 bytes and gibibytes of 2: five percent is one byte.  Words *)
(* have 16 values, so 8 GiB is the first watermark that overflows.         *)
(***************************************************************************)
EXTENDS DiskGuard

CONSTANTS r1, q1, q2

MCRecordings == {r1}
MCSavers     == {q1, q2}
MCFree       == {0, 1, 2, 3, 20}

=============================================================================
