---------------------------- MODULE MCCommandQueue ----------------------------
(***************************************************************************)
(* Small instances of CommandQueue.  A command's target plays no role in   *)
(* the queue itself, so one target is enough.                              *)
(***************************************************************************)
EXTENDS CommandQueue

CONSTANT t1

MCTargets == {t1}

=============================================================================
