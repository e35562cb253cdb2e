---------------------------- MODULE MCUpdateManager ----------------------------
(***************************************************************************)
(* One actor and two animations of its colour, one that discards what it   *)
(* did when it ends and one that bakes.                                    *)
(***************************************************************************)
EXTENDS UpdateManager, TLC

CONSTANTS actor1, discarding, baking

MCNodes == {actor1}
MCAnimations == {discarding, baking}
MCColours == {5}
MCTarget == [a \in MCAnimations |-> actor1]
MCShortAnimators == {discarding}
MCEndAction == discarding :> "DISCARD" @@ baking :> "BAKE_FINAL"
=============================================================================
