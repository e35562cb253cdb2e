CONSTANTS
  actor1 = actor1
  discarding = discarding
  baking = baking
  Nodes <- MCNodes
  Animations <- MCAnimations
  Colours <- MCColours
  Target <- MCTarget
  EndAction <- MCEndAction
  DisconnectAction = "BAKE_FINAL"
  ShortAnimators <- MCShortAnimators
  MaxMessages = 4
SPECIFICATION FrameSpec
INVARIANTS
  ScreenIsRight
  RestIsClean
  NothingUsedIsFreed
PROPERTIES
  ComesToRest
CHECK_DEADLOCK FALSE
