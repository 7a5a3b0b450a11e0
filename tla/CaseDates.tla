------------------------------ MODULE CaseDates ------------------------------
(***************************************************************************)
(* The dates of one case and the limits computed from them: the user       *)
(* records, corrects and removes dates; computeCaseDeadlines picks, for    *)
(* each family that matters, its triggering date and its limit.  When the  *)
(* stored rows are refreshed is the subject of CaseRecord.                 *)
(***************************************************************************)
EXTENDS TimeLimits, FiniteSets

CONSTANTS
  Choices,        \* the dates that each key may be given
  Jurisdictions,  \* where the case may be
  CaseFamilies    \* families by entry route and issues

VARIABLES
  given,          \* each date of the record, or NoDate
  jurisdiction    \* where the case is

vars == <<given, jurisdiction>>

\* Structured facts, the employment's dates and the Acas process's.
Keys == {"effective_date_of_termination", "dismissal_date", "endDate", "startDate",
         "date_of_last_act", "date_of_deduction", "notificationDate",
         "certificateIssueDate", "acas_day_a", "acas_day_b"}

ASSUME CaseDatesAssumption ==
  /\ Choices \in [Keys -> SUBSET Entries]
  /\ \A d \in Choices["startDate"] : MonthOf[d] + 25 <= LastMonth   \* two years of service
  /\ Jurisdictions \subseteq {"england_wales", "scotland", "northern_ireland"}
  /\ CaseFamilies \subseteq Families

-----------------------------------------------------------------------------
(* computeCaseDeadlines: which date triggers which limit.                  *)

\* The first of two sources that has a date.
Or(d, e) == IF d # NoDate THEN d ELSE e

EDT       == Or(given["effective_date_of_termination"], Or(given["dismissal_date"], given["endDate"]))
LastAct   == Or(given["date_of_last_act"], EDT)
Deduction == Or(given["date_of_deduction"], LastAct)
DayA      == Or(given["notificationDate"], given["acas_day_a"])
DayB      == Or(given["certificateIssueDate"], given["acas_day_b"])

Trigger(f) ==
  CASE f \in {"unfair_dismissal", "breach_of_contract", "redundancy_payment", "equal_pay"} -> EDT
    [] f = "unlawful_deductions" -> Deduction
    [] f \in {"discrimination", "whistleblowing_detriment", "general"} -> LastAct

\* relevantFamilies; a dismissal adds its own.
RelevantFamilies ==
  LET families == CaseFamilies \cup (IF EDT # NoDate THEN {"unfair_dismissal"} ELSE {})
  IN  IF families = {} THEN {"general"} ELSE families

Limit(f) == CalculateTimeLimit(jurisdiction, f, Trigger(f), DayA, DayB)

-----------------------------------------------------------------------------

Init ==
  /\ given = [k \in Keys |-> NoDate]
  /\ jurisdiction \in Jurisdictions

\* Variant: a date that is none is taken as it comes.
RecordDateUnchecked(k, d) ==
  given' = [given EXCEPT ![k] = -d] /\ UNCHANGED jurisdiction

\* setStructuredFact, updateEmployment and updateProcessData, with a valid date.
RecordDate(k, d) ==
  given' = [given EXCEPT ![k] = d] /\ UNCHANGED jurisdiction

RemoveDate(k) ==
  given' = [given EXCEPT ![k] = NoDate] /\ UNCHANGED jurisdiction

\* updateCase.
MoveCase(j) == jurisdiction' = j /\ UNCHANGED given

Next ==
  \/ \E k \in Keys : RemoveDate(k) \/ \E d \in Choices[k] : RecordDate(k, d)
  \/ \E j \in Jurisdictions : MoveCase(j)

Spec == Init /\ [][Next]_vars

-----------------------------------------------------------------------------

\* The record holds dates, and nothing else.
TypeOK ==
  /\ given \in [Keys -> Entries \cup {NoDate}]
  /\ jurisdiction \in Jurisdictions

\* A family with rules has exactly one for every day from its first on: no day
\* falls between the windows of two rules or into both.
OneRuleApplies ==
  \A f \in RelevantFamilies \ {"general"} :
    Trigger(f) >= RulesFrom[f] /\ jurisdiction # "northern_ireland"
      => Cardinality(Candidates(jurisdiction, f, Trigger(f))) = 1

\* The limit before conciliation is the last day on which fewer than the rule's
\* months are complete, counted as the qualifying period counts service.
EndsWithTheMonths ==
  \A f \in RelevantFamilies :
    LET months == Months(jurisdiction, f, Trigger(f)).lead
        base   == AddMonthsLessOneDay(Trigger(f), months)
    IN  months # 0 =>
          /\ CompleteMonthsBetween(Trigger(f), base) = months - 1
          /\ CompleteMonthsBetween(Trigger(f), base + 1) = months

\* s207B ERA 1996 as its subsections read: the days from A to B are not counted;
\* a limit that then ends between A and one month after B ends with that month;
\* a limit that had ended before A is left alone.
Statutory(base, a, b) ==
  IF a > base THEN base
  ELSE IF base + (b - a) <= AddMonths(b, 1) THEN AddMonths(b, 1) ELSE base + (b - a)

FollowsS207B ==
  \A f \in RelevantFamilies :
    LET months == Months(jurisdiction, f, Trigger(f)).lead
    IN  months # 0 /\ DayA # NoDate /\ DayA <= DayB =>
          Limit(f).date = Statutory(AddMonthsLessOneDay(Trigger(f), months), DayA, DayB)

\* While the new limit is only assumed, the one shown first is never the later
\* of the two, conciliation included.
ShorterLimitLeads ==
  \A f \in RelevantFamilies :
    Limit(f).secondary # NoDate => Limit(f).date <= Limit(f).secondary

\* The engine and the calculator it retains agree on every limit that the Act
\* lengthens.
EnginesAgree ==
  \A f \in RelevantFamilies \cap Lengthened :
    Limit(f).date # NoDate => Limit(f).date = CalculateDeadline(Trigger(f), DayA, DayB)

\* Service qualifies from the day after the required period has ended, the period
\* counted as a time limit counts it.
ServiceQualifies ==
  LET start == given["startDate"] IN
  start # NoDate /\ EDT # NoDate /\ start <= EDT =>
    (HasQualifyingService(start, EDT) <=> EDT > AddMonthsLessOneDay(start, RequiredMonths(EDT)))

\* The limit after a step.
LimitNext(f) == CalculateTimeLimit(jurisdiction', f, Trigger(f)', DayA', DayB')

\* "If you are unsure, treat the earliest possible date as the trigger": an
\* earlier triggering date never gives a later limit, whatever else is known.
EarliestTriggerIsSafe ==
  [][\A f \in RelevantFamilies :
          /\ Trigger(f)' < Trigger(f)
          /\ jurisdiction' = jurisdiction /\ DayA' = DayA /\ DayB' = DayB
          /\ Limit(f).date # NoDate /\ LimitNext(f).date # NoDate
       => LimitNext(f).date <= Limit(f).date]_vars

\* Conciliation never costs time: no limit moves forward to an earlier day when
\* its start is entered, nor when its end is, or is corrected to a later day.
ConciliationOnlyHelps ==
  [][\A f \in RelevantFamilies :
          /\ DayA \in {NoDate, DayA'} /\ DayB <= DayB' /\ <<DayA, DayB>> # <<DayA', DayB'>>
          /\ jurisdiction' = jurisdiction /\ Trigger(f)' = Trigger(f)
       => LimitNext(f).date >= Limit(f).date]_vars

\* Days and months are counted alike everywhere: a limit ends the day before its
\* months are complete, and service is long enough from the day they are.
MonthsAreCounted == EndsWithTheMonths /\ ServiceQualifies

\* Conciliation does to a limit what s207B says, in both of the application's
\* calculators.
LimitIsTheStatutes == FollowsS207B /\ EnginesAgree

\* Across the change of the law there is one rule for each day, and while it is
\* open which of two applies, the shorter leads.
RuleForEachDay == OneRuleApplies /\ ShorterLimitLeads

\* A user who corrects a date never loses what the limits promised: an earlier
\* trigger gives no later limit, and conciliation gives no earlier one.
CorrectionsAreSafe == EarliestTriggerIsSafe /\ ConciliationOnlyHelps

=============================================================================
