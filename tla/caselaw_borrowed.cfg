SPECIFICATION MCCaseLawSpec
CONSTANTS
  n1 = n1
  n2 = n2
  i1 = i1
  i2 = i2
  Numbers = {n1}
  NoNumber = NoNumber
  TitleOf <- MCTitle
  Boilerplate = {"v", "ltd", "the"}
  Authorities <- MCAuthorities
  Citations <- MCCitations
  Calls <- MCCalls
  Ttl = 2
  Timeout = 1
  LastHour = 3
CHECK_DEADLOCK FALSE
INVARIANTS
  NumberIsNotSufficient
