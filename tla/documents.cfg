SPECIFICATION MCSpec
CONSTANTS
  d1 = d1
  j1 = j1
  j2 = j2
  w1 = w1
  w2 = w2
  r1 = r1
  Docs <- MCDocs
  JobIds <- MCJobs
  Workers <- MCWorkers
  Requests <- MCRequests
  Limit <- MCLimit
  Found = 1
  Allowance = 2
  Faults = {"crash", "proposal"}
  NoDoc = NoDoc
  NoJob = NoJob
  c1 = c1
  c2 = c2
  k1 = k1
  k2 = k2
  i1 = i1
  i2 = i2
  Cases <- MCCases
  Documents <- MCDocuments
  CaseOf <- MCCaseOf
  Invocations <- MCInvocations
  Worker = i1
  NoDocument = NoDocument
  MaxFaults = 1
CHECK_DEADLOCK FALSE
INVARIANTS
  DocumentsTypeOK
  WaitingIsHonest
  DecisionsHold
  WithinAllowance
  FilesFollowRows
PROPERTIES
  EveryDocumentSettles
  ExpiredIsPurged
