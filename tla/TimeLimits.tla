----------------------------- MODULE TimeLimits -----------------------------
(***************************************************************************)
(* The tribunal time limits of src/legal: date arithmetic, the Acas        *)
(* extension, the choice of the rule by the triggering date, the retained  *)
(* calculator beside the engine that replaced it, and the qualifying       *)
(* period.  A date is a day number of a calendar given by the constants;   *)
(* ISO strings order and subtract as their days do.                        *)
(***************************************************************************)
EXTENDS Integers

CONSTANTS
  LastMonth,      \* the calendar's months are 0..LastMonth
  MonthStart,     \* the first day of each month, and of the one after
  MonthOf,        \* the month of each day
  RulesFrom,      \* the day from which the oldest rule of a family applies
  Commencement,   \* TIME_LIMIT_CONFIG.COMMENCEMENT_DATE
  SIConfirmed,    \* TIME_LIMIT_CONFIG.TIME_LIMIT_SI_CONFIRMED
  ServiceChange   \* QUALIFYING_PERIOD_CONFIG.COMMENCEMENT_DATE

NoDate == 0

Dates == MonthStart[0]..(MonthStart[LastMonth + 1] - 1)

\* Dates far enough from the calendar's end for six months and one more.
Entries == {d \in Dates : MonthOf[d] + 7 <= LastMonth}

\* Families whose limit the Act lengthens, and those that had six months.
Lengthened == {"unfair_dismissal", "discrimination", "whistleblowing_detriment",
               "unlawful_deductions", "breach_of_contract"}
Standing   == {"redundancy_payment", "equal_pay"}
Families   == Lengthened \cup Standing \cup {"general"}

\* Months follow one another without a gap and have 28 to 31 days.
ASSUME CalendarAssumption ==
  /\ LastMonth \in Nat
  /\ MonthStart \in [0..(LastMonth + 1) -> Nat \ {0}]
  /\ \A m \in 0..LastMonth : MonthStart[m + 1] - MonthStart[m] \in 28..31
  /\ \A m, n \in 0..(LastMonth + 1) : m < n => MonthStart[m] < MonthStart[n]
  /\ MonthOf \in [Dates -> 0..LastMonth]
  /\ \A d \in Dates : MonthStart[MonthOf[d]] <= d /\ d < MonthStart[MonthOf[d] + 1]

ASSUME RulesAssumption ==
  /\ RulesFrom \in [Lengthened \cup Standing -> Nat \ {0}]
  /\ Commencement \in Nat
  /\ \A f \in Lengthened : RulesFrom[f] < Commencement
  /\ SIConfirmed \in BOOLEAN
  /\ ServiceChange \in Nat

-----------------------------------------------------------------------------
(* Calendar arithmetic.                                                    *)

Length(m) == MonthStart[m + 1] - MonthStart[m]
DayOf(d)  == d - MonthStart[MonthOf[d]] + 1

Later(d, e) == IF d > e THEN d ELSE e

\* The same day n months later, or the last day of that month.
AddMonths(d, n) ==
  LET m == MonthOf[d] + n IN
  MonthStart[m] - 1 + (IF DayOf(d) <= Length(m) THEN DayOf(d) ELSE Length(m))

\* Variants: the last day loses a day as well; a day that the month lacks runs
\* over into the next one.
LessOneDayAlways(d, n) == AddMonths(d, n) - 1
OverflowLessOneDay(d, n) == MonthStart[MonthOf[d] + n] + DayOf(d) - 2

\* The corresponding-date rule: the day before the corresponding date, or the
\* last day of a month that has none.
AddMonthsLessOneDay(d, n) ==
  LET m == MonthOf[d] + n IN
  MonthStart[m] - 1 + (IF DayOf(d) <= Length(m) THEN DayOf(d) - 1 ELSE Length(m))

\* Variant: a month begun counts.
MonthsBegun(start, end) == MonthOf[end] - MonthOf[start]

\* Complete months of service.
CompleteMonthsBetween(start, end) ==
  MonthOf[end] - MonthOf[start] - (IF DayOf(end) < DayOf(start) THEN 1 ELSE 0)

RequiredMonths(edt) == IF edt >= ServiceChange THEN 6 ELSE 24

HasQualifyingService(start, edt) ==
  CompleteMonthsBetween(start, edt) >= RequiredMonths(edt)

-----------------------------------------------------------------------------
(* Acas early conciliation: dayA its start, dayB the certificate.          *)

\* Variants: conciliation begun on the last day comes too late; the month after
\* the certificate replaces a later date.
AcasFromTheDayBefore(base, dayA, dayB) ==
  IF dayA = NoDate \/ dayA >= base \/ dayB = NoDate
    THEN base ELSE Later(base + Later(dayA, dayB) - dayA, AddMonths(Later(dayA, dayB), 1))
AcasMonthOnly(base, dayA, dayB) ==
  IF dayA = NoDate \/ dayA > base \/ dayB = NoDate
    THEN base ELSE AddMonths(Later(dayA, dayB), 1)

\* applyAcas: no effect when it began after the limit or has not ended; a Day B
\* before Day A counts as Day A; never before the base.
ApplyAcas(base, dayA, dayB) ==
  LET effectiveB == Later(dayA, dayB)
      extended   == base + (effectiveB - dayA)
  IN  IF dayA = NoDate \/ dayA > base \/ dayB = NoDate
        THEN base
        ELSE Later(Later(extended, AddMonths(effectiveB, 1)), base)

\* computeForRule.
ComputeForRule(months, trigger, dayA, dayB) ==
  ApplyAcas(AddMonthsLessOneDay(trigger, months), dayA, dayB)

\* computeOne of the retained calculator, which wants both days or none.
ComputeOne(months, act, dayA, dayB) ==
  LET base       == AddMonthsLessOneDay(act, months)
      effectiveB == IF dayB < dayA THEN dayA ELSE dayB
      extended   == base + (effectiveB - dayA)
      backstop   == AddMonths(effectiveB, 1)
      final      == IF extended > backstop THEN extended ELSE backstop
  IN  IF dayA = NoDate \/ dayB = NoDate \/ dayA > base THEN base
      ELSE IF final < base THEN base ELSE final

\* calculateDeadlines: the first, operative deadline for each claim type.
CalculateDeadline(act, dayA, dayB) ==
  ComputeOne(IF act >= Commencement /\ SIConfirmed THEN 6 ELSE 3, act, dayA, dayB)

-----------------------------------------------------------------------------
(* The rules and their choice.                                             *)

\* Variant: the old window includes the day of commencement.
ThreeMonthsTooLong(f) ==
  [family |-> f, from |-> RulesFrom[f], to |-> Commencement, months |-> 3, by |-> "statute"]

\* The rows of TIME_LIMIT_RULES; an open window has no end.
ThreeMonths(f) ==
  [family |-> f, from |-> RulesFrom[f], to |-> Commencement - 1, months |-> 3, by |-> "statute"]
SixMonths(f) ==
  [family |-> f, from |-> Commencement, to |-> NoDate, months |-> 6,
   by |-> IF SIConfirmed THEN "statute" ELSE "assumed"]
StandingSix(f) ==
  [family |-> f, from |-> RulesFrom[f], to |-> NoDate, months |-> 6, by |-> "statute"]

Rules == {ThreeMonths(f) : f \in Lengthened} \cup {SixMonths(f) : f \in Lengthened}
           \cup {StandingSix(f) : f \in Standing}

\* Every rule is for Great Britain.
Candidates(jurisdiction, f, trigger) ==
  {r \in Rules : /\ jurisdiction \in {"england_wales", "scotland"}
                 /\ r.family = f
                 /\ trigger >= r.from
                 /\ r.to = NoDate \/ trigger <= r.to}

\* The rules that ended before this one began.
Earlier(rule) ==
  {r \in Rules : r.family = rule.family /\ r.to # NoDate /\ r.to < rule.from}

Conservative(rule) == CHOOSE r \in Earlier(rule) : \A q \in Earlier(rule) : q.to <= r.to

Hedged(rule) == rule.by = "assumed" /\ Earlier(rule) # {}

\* Variant: the new limit leads.
NewLimitLeads(rule) ==
  [lead |-> rule.months, other |-> IF Hedged(rule) THEN Conservative(rule).months ELSE 0]

\* The conservative rule leads while the new one's commencement is assumed.
Shown(rule) ==
  IF Hedged(rule) THEN [lead |-> Conservative(rule).months, other |-> rule.months]
                  ELSE [lead |-> rule.months, other |-> 0]

\* calculateTimeLimit: the months that lead, and those shown beside them; none
\* without a date or a rule.
Months(jurisdiction, f, trigger) ==
  IF trigger = NoDate \/ Candidates(jurisdiction, f, trigger) = {}
    THEN [lead |-> 0, other |-> 0]
    ELSE Shown(CHOOSE r \in Candidates(jurisdiction, f, trigger) : TRUE)

CalculateTimeLimit(jurisdiction, f, trigger, dayA, dayB) ==
  LET months == Months(jurisdiction, f, trigger)
  IN  [date |-> IF months.lead = 0 THEN NoDate
                ELSE ComputeForRule(months.lead, trigger, dayA, dayB),
       secondary |-> IF months.other = 0 THEN NoDate
                     ELSE ComputeForRule(months.other, trigger, dayA, dayB)]

=============================================================================
