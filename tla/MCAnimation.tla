----------------------------- MODULE MCAnimation -----------------------------
(***************************************************************************)
(* Two animations: one is driven freely, the other one is there to finish  *)
(* in the same frame and to clear the first one in its callback.  Or the   *)
(* first one alone, with more calls.                                       *)
(***************************************************************************)
EXTENDS Animation, TLC

CONSTANTS first, second, Together, Alone

MCAnimations == {first, second}
MCBudgets == {first :> Together @@ second :> 1, first :> Alone @@ second :> 0}
=============================================================================
