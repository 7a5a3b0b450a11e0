SPECIFICATION MCSpec
CONSTANTS
  u1 = u1
  u2 = u2
  p1 = p1
  p2 = p2
  s1 = s1
  s2 = s2
  l1 = l1
  r1 = r1
  r2 = r2
  k1 = k1
  k2 = k2
  NoUser = NoUser
  NoLink = NoLink
  Users <- MCUsers
  Email <- MCEmail
  Passwords <- MCPasswords
  Sessions <- MCSessions
  Links <- MCLinks
  Requests <- MCRequests
  Callers <- MCCallers
  Window = 3
  MaxRequests = 2
  Horizon = 6
  Routes <- MCRoutes
  t1 = t1
  t2 = t2
  a1 = a1
  g1 = g1
  Tabs <- MCTabs
  Kinds <- MCKinds
  Points <- MCPoints
  Changers <- MCChangers
  MaxRows = 2
SYMMETRY MCSymmetry
CHECK_DEADLOCK FALSE
INVARIANTS
  SiteTypeOK
  AccountsAreWhole
  OldPasswordIsOut
  AnswersReachOneCase
PROPERTIES
  LimiterIsExact
  DocumentsAreTrue
