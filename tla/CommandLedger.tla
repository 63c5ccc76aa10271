----------------------------- MODULE CommandLedger -----------------------------
(***************************************************************************)
(* What the queue of commands promises to those who put commands into it:  *)
(* commands are begun in the order of their submission, one that is being  *)
(* worked on is never begun again before the worker lost it, and one that  *)
(* is finished never changes again.  A command may be lost on the way      *)
(* (adrift) and may then be begun anew: handlers must bear being repeated. *)
(* CommandQueue is shown to implement this.                                *)
(***************************************************************************)
EXTENDS Naturals, Sequences

VARIABLE ledger    \* what has become of each command, in order of submission

Finished == {"done", "failed"}
Stages   == {"waiting", "running", "adrift"} \cup Finished

\* A command goes from one stage to another.
Move(i, from, to) == ledger[i] = from /\ ledger' = [ledger EXCEPT ![i] = to]

Oldest(i) == \A j \in DOMAIN ledger : ledger[j] = "waiting" => i <= j

-----------------------------------------------------------------------------

Init == ledger = <<>>

\* The web process submits a command.
Submit == ledger' = Append(ledger, "waiting")

\* The worker begins the oldest one, or takes it and loses it again.
Begin(i) == Oldest(i) /\ Move(i, "waiting", "running")
Mislay(i) == Oldest(i) /\ Move(i, "waiting", "adrift")

Finish(i) == \E outcome \in Finished : Move(i, "running", outcome)

\* It forgets one command, or puts one back.
Forget(i) == Move(i, "running", "adrift")
PutBack(i) == Move(i, "adrift", "waiting")

Every(from, to) == ledger' = [i \in DOMAIN ledger |-> IF ledger[i] = from THEN to ELSE ledger[i]]

\* It ends, and with it all its work; started again it puts everything back.
Halt == Every("running", "adrift")
Recover ==
    /\ \A i \in DOMAIN ledger : ledger[i] # "running"
    /\ Every("adrift", "waiting")

Next ==
    \/ Submit \/ Halt \/ Recover
    \/ \E i \in DOMAIN ledger :
          Begin(i) \/ Mislay(i) \/ Finish(i) \/ Forget(i) \/ PutBack(i)

Spec == Init /\ [][Next]_ledger

=============================================================================
