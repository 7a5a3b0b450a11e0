SPECIFICATION Spec
CONSTANTS
  s1 = s1
  s2 = s2
  h1 = h1
  h2 = h2
  Sessions <- MCOne
  Tier <- MCBothTiers
  Handlers <- MCHandlers
  MaxReplays = 1
  MaxCrashes = 1
  Reorder = FALSE
INVARIANT PaidIsEntitled
CHECK_DEADLOCK FALSE
