SPECIFICATION MCSpec
CONSTANTS
  day1 = day1
  a1 = a1
  e1 = e1
  e2 = e2
  Procs <- MCProcs
  TypeOf <- MCTypeOf
  Dates = {day1}
  NoDate = NoDate
  Editors <- MCEditors
  MaxHistory = 3
  NoProc = NoProc
  Allegations = {a1}
  NoAllegation = NoAllegation
  q1 = q1
  q2 = q2
  w1 = w1
  w2 = w2
  Limits <- MCLimits
  Windows <- MCWindows
  KindOf <- MCKindOf
  LastDay = 1
  Pages <- MCPages
  Missing = Missing
  NoKind = NoKind
  o1 = o1
  o2 = o2
  c1 = c1
  c2 = c2
  i1 = i1
  i2 = i2
  Owners <- MCOwners
  Owner <- MCOwner
  CaseIds <- MCCaseIds
  Rows <- MCRows
  Segment <- MCSegment
  Home <- MCHome
  Clients <- MCClients
  Flag = TRUE
  NoRow = NoRow
SYMMETRY MCSymmetry
CHECK_DEADLOCK FALSE
INVARIANTS
  CasesTypeOK
  ListIsTrue
PROPERTIES
  HistoryIsAPath
  EntriesAreKept
  RoutesKeepTheirCase
