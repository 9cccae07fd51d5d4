--------------------------------- MODULE Focus --------------------------------
(***************************************************************************)
(* What the groups of components share. A behavior picks a component as    *)
(* its focus, and then is a behavior of that component alone. Each         *)
(* component has one variable, a record, for which "state" stands in the   *)
(* groups.                                                                 *)
(***************************************************************************)
VARIABLES focus, state

vars == <<focus, state>>

=============================================================================
