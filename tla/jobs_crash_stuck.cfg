SPECIFICATION FairSpec
CONSTANTS
  j1 = j1
  j2 = j2
  j3 = j3
  w1 = w1
  w2 = w2
  JobIds <- MCTwoJobs
  Workers <- MCWorkers
  Retriers = {r1}
  MaxAttempts <- MCTwice
  BatchSize = 2
  Handled <- MCHandled
  Faults = {"crash"}
  NoJob = NoJob
PROPERTY EveryJobSettles
