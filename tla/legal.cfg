SPECIFICATION MCSpec
CONSTANTS
  LastMonth <- MCLastMonth
  MonthStart <- MCMonthStart
  MonthOf <- MCMonthOf
  RulesFrom <- MCRulesFrom
  Commencement <- MCCommencement
  ServiceChange <- MCServiceChange
  SIConfirmed = FALSE
  Choices <- MCChoices
  Jurisdictions = {"england_wales", "northern_ireland"}
  CaseFamilies = {"discrimination", "unlawful_deductions", "redundancy_payment"}
  FireAndRehireFrom <- MCFire
  Inputs <- MCInputs
  Answers <- MCAnswers
  MaxDowngrades = 1
  AnswerSets <- MCAnswerSets
  Attempts = 2
  n1 = n1
  n2 = n2
  i1 = i1
  i2 = i2
  Numbers = {n1}
  NoNumber = NoNumber
  TitleOf <- MCTitle
  Boilerplate = {"v", "ltd", "the"}
  Authorities <- MCAuthorities
  Citations <- MCCitations
  Calls <- MCCalls
  Ttl = 2
  Timeout = 1
  LastHour = 3
SYMMETRY MCSymmetry
CHECK_DEADLOCK FALSE
INVARIANTS
  LegalTypeOK
  MonthsAreCounted
  LimitIsTheStatutes
  RuleForEachDay
  ClaimsAreEarned
  CaseIsAsAnswered
  VerdictsAreRight
PROPERTIES
  CorrectionsAreSafe
