SPECIFICATION Spec
CONSTANTS
  s1 = s1
  s2 = s2
  h1 = h1
  h2 = h2
  Sessions <- MCOne
  Tier <- MCBothTiers
  Handlers <- MCHandlers
  MaxReplays = 1
  MaxCrashes = 0
  Reorder = TRUE
INVARIANT RefundRevokes
CHECK_DEADLOCK FALSE
