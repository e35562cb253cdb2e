CONSTANTS
  first = first
  second = second
  Together = 3
  Alone = 5
  Animations <- MCAnimations
  Budgets <- MCBudgets
SPECIFICATION FairSpec
INVARIANTS
  LifetimesAgree
  HalvesAgree
PROPERTIES
  ClearedIsSilent
  PlayEnds
