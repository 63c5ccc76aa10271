----------------------------- MODULE MCMediaJobs -----------------------------
(***************************************************************************)
(* Small instances of MediaJobs: two conversions.                          *)
(***************************************************************************)
EXTENDS MediaJobs, TLC

CONSTANTS j1, j2

MCJobs == {j1, j2}
Swap   == Permutations(MCJobs)

\* Every start of the worker reads the higher limit; MediaJobsLive has the lower.
BothSlots == limit = MaxLimit

=============================================================================
