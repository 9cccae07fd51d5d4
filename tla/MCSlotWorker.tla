---------------------------- MODULE MCSlotWorker ----------------------------
(***************************************************************************)
(* Instances of SlotWorker for TLC.                                        *)
(***************************************************************************)
EXTENDS SlotWorker

CONSTANTS t1, t2, t3

\* A task, and two of equal priority that outrank it.
MixedPriority == t1 :> 2 @@ t2 :> 1 @@ t3 :> 1

\* A task and one that outranks it.
TwoPriorities == t1 :> 2 @@ t2 :> 1

=============================================================================
