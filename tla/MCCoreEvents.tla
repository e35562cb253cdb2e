---------------------------- MODULE MCCoreEvents ----------------------------
(* Two processors, symmetric; the bound on entries lets one be registered    *)
(* twice, or in two lists.                                                   *)
EXTENDS CoreEvents, TLC

CONSTANTS p1, p2

Symmetric == Permutations({p1, p2})
=============================================================================
