SPECIFICATION MCSpec
CONSTANTS
  s1 = s1
  s2 = s2
  h1 = h1
  h2 = h2
  Sessions <- MCSessions
  Tier <- MCBothTiers
  Handlers <- MCHandlers
  MaxReplays = 1
  MaxCrashes = 2
  Reorder = TRUE
  j1 = j1
  j2 = j2
  j3 = j3
  w1 = w1
  w2 = w2
  JobIds <- MCJobIds
  Workers <- MCWorkers
  Retriers = {r1}
  MaxAttempts <- MCMaxAttempts
  BatchSize = 2
  Handled <- MCHandled
  Faults = {"audit", "handler"}
  NoJob = NoJob
CHECK_DEADLOCK FALSE
INVARIANTS
  TypeOK
  ActsOnce
  CalmMoneyMatches
PROPERTIES
  RefundIsFinal
  RetriesEnd
