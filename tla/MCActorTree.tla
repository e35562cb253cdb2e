----------------------------- MODULE MCActorTree -----------------------------
(***************************************************************************)
(* Three actors: a branch that is on the scene, or a chain that is not.    *)
(***************************************************************************)
EXTENDS ActorTree, TLC

CONSTANTS actor1, actor2, actor3

MCActors == {actor1, actor2, actor3}
Tree(top, under) == Root :> top @@ under @@ [x \in MCActors |-> << >>]
MCInitTrees == {Tree(<< actor1 >>, actor1 :> << actor2, actor3 >>),
                Tree(<< >>, actor1 :> << actor2 >> @@ actor2 :> << actor3 >>)}
===============================================================================
