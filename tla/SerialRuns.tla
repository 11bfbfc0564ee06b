----------------------------- MODULE SerialRuns -----------------------------
(***************************************************************************)
(* What racing runs promise: the retrying runs of CommandRun implement     *)
(* SerialCommands.  A run that has not begun is one that has not asked, a  *)
(* run asks at the head its clock was pinned to, and the answers are the   *)
(* outcomes; everything an attempt keeps for itself is hidden.             *)
(***************************************************************************)
EXTENDS CommandRun

\* When each run asked.
AskedAt == [r \in Run |-> IF pc[r] = "idle" THEN -1 ELSE prepared[r].now]

Serial == INSTANCE SerialCommands WITH began <- AskedAt

\* Racing runs are no more than commands deciding one at a time: a commit is
\* one decision over the whole log it appends to, a refusal one over the log
\* as it was at some moment of the call, and a conflict was lost to a record
\* the decision would have read (`execute` and `run_retrying` of
\* src/interp.rs).
SerializesCommands == Serial!Spec
=============================================================================
