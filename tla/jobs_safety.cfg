SPECIFICATION MCSpec
CONSTANTS
  j1 = j1
  j2 = j2
  j3 = j3
  w1 = w1
  w2 = w2
  JobIds <- MCJobIds
  Workers <- MCWorkers
  Retriers = {r1}
  MaxAttempts <- MCMaxAttempts
  BatchSize = 2
  Handled <- MCHandled
  Faults = {"audit", "crash", "handler"}
  NoJob = NoJob
INVARIANTS
  TypeOK
  SingleOwner
  StatusIsTrue
PROPERTIES
  SettledStays
  ImplementsLedger
