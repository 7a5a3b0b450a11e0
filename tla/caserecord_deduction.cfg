SPECIFICATION MCFairSpec
CONSTANTS
  f1 = f1
  f2 = f2
  Facts <- MCFacts
  Key <- MCDeduction
  Events = {}
  Others = {}
  r1 = r1
  r2 = r2
  Requests <- MCRequests
  Builders = {"b1"}
  MaxRows = 1
  NoFact = NoFact
INVARIANT
  FreshOrStale
