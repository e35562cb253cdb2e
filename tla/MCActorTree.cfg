CONSTANTS
  actor1 = actor1
  actor2 = actor2
  actor3 = actor3
  Root = Root
  None = None
  Actors <- MCActors
  InitTrees <- MCInitTrees
  MaxCalls = 4
SPECIFICATION TreeSpec
INVARIANTS
  ChildrenAgree
  NodesFollowActors
  SignalledWhenSettled
CHECK_DEADLOCK FALSE
