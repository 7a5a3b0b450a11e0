------------------------------- MODULE Intake -------------------------------
(***************************************************************************)
(* "Get help with a problem at work": the anonymous triage of one set of   *)
(* answers and the case made of them (coffeecup/src/intake/service.ts).    *)
(* createCaseFromIntake calls one service after another, with no           *)
(* transaction: what has been written stays when a later call throws, and  *)
(* the form, still filled in, may be sent again.                           *)
(***************************************************************************)
EXTENDS TimeLimits, Sequences

CONSTANTS
  AnswerSets,  \* what the form may hold
  Attempts     \* bound on the times it is sent

\* isoDate lets only dates in.  Of the rules for the families that intake may
\* find, the ones on unfair dismissal are the oldest.
ASSUME IntakeAssumption ==
  /\ Attempts \in Nat
  /\ AnswerSets \subseteq
       [jurisdiction : {"england_wales", "scotland", "northern_ireland"},
        route : STRING, still : {"yes", "no", "unknown"},
        start : Entries \cup {NoDate}, end : Entries \cup {NoDate},
        lastAct : Entries \cup {NoDate},
        dayA : Entries \cup {NoDate}, dayB : Entries \cup {NoDate}]
  /\ \A f \in {"discrimination", "whistleblowing_detriment", "unlawful_deductions",
              "redundancy_payment"} : RulesFrom["unfair_dismissal"] <= RulesFrom[f]

VARIABLES
  answers,   \* [jurisdiction, route, still, start, end, lastAct, dayA, dayB]
  made,      \* the cases made of them, one for each time the form was sent
  sending,   \* the calls still to make for the last of them, by their places
  replies    \* how each sending ended

intakeVars == <<answers, made, sending, replies>>

\* A case: its employment record, the date of each structured fact, the Acas
\* process's dates, and the limits last computed.
NewCase ==
  [jurisdiction |-> answers.jurisdiction, route |-> answers.route, issue |-> "none",
   start |-> NoDate, end |-> NoDate, still |-> answers.still,
   dismissalDate |-> NoDate, lastActDate |-> NoDate, employmentStart |-> NoDate,
   acas |-> "none", dayA |-> NoDate, dayB |-> NoDate, limits |-> {}]

Either(d, e) == IF d # NoDate THEN d ELSE e

-----------------------------------------------------------------------------
(* triage.                                                                 *)

Left == answers.still = "no" \/ answers.end # NoDate

TriageFamily ==
  CASE Left -> "unfair_dismissal"
    [] ~Left /\ answers.route \in {"discrimination", "disability_adjustments"} -> "discrimination"
    [] ~Left /\ answers.route = "whistleblowing" -> "whistleblowing_detriment"
    [] ~Left /\ answers.route = "pay" -> "unlawful_deductions"
    [] OTHER -> "general"

TriageTriggerLastAct == answers.lastAct                                   \* a mistake

TriageTrigger == IF Left THEN answers.end ELSE answers.lastAct

TriageDeadline ==
  CalculateTimeLimit(answers.jurisdiction, TriageFamily, TriageTrigger, answers.dayA, answers.dayB).date

-----------------------------------------------------------------------------
(* relevantFamilies and computeCaseDeadlines, for a case without other     *)
(* issues or facts than intake's.                                          *)

EndOf(c) == Either(c.dismissalDate, c.end)

FamiliesFor(c) ==
  LET about == {c.route, c.issue}
      families ==
        {f \in Families :
           \/ f = "unfair_dismissal" /\
                \/ EndOf(c) # NoDate \/ c.still = "no"
                \/ c.route \in {"dismissal", "redundancy"} \/ c.issue = "dismissal"
           \/ f = "discrimination" /\ about \cap {"discrimination", "disability_adjustments"} # {}
           \/ f = "whistleblowing_detriment" /\ "whistleblowing" \in about
           \/ f = "unlawful_deductions" /\ "pay" \in about
           \/ f = "redundancy_payment" /\ "redundancy" \in about}
  IN  IF families = {} THEN {"general"} ELSE families

StartsFrom(c, f) ==
  IF f \in {"unfair_dismissal", "redundancy_payment"} THEN EndOf(c) ELSE Either(c.lastActDate, EndOf(c))

LimitsOf(c) ==
  {[family |-> f, date |-> CalculateTimeLimit(c.jurisdiction, f, StartsFrom(c, f), c.dayA, c.dayB).date]
     : f \in FamiliesFor(c)}

-----------------------------------------------------------------------------
(* createCaseFromIntake.                                                   *)

CallsLimitsEarly ==                                                       \* a mistake
  <<"employment", "facts", "issue", "deadlines", "acas process", "acas dates">>

\* The calls in order; those of answers that were not given are left out, and with
\* them an outcome wished for under "not sure", whose issue changes no limit.
IntakeCalls == <<"employment", "facts", "issue", "acas process", "acas dates", "deadlines">>

\* To have notified Acas without a date adds a process that changes no limit.
AcasGiven == answers.dayA # NoDate \/ answers.dayB # NoDate

Wanted == {n \in DOMAIN IntakeCalls :
             /\ IntakeCalls[n] = "issue" => answers.route # "not_sure"
             /\ IntakeCalls[n] \in {"acas process", "acas dates"} => AcasGiven}

\* The next call.
Due == CHOOSE n \in sending : \A o \in sending : n <= o

\* createCase.
Submit ==
  /\ sending = {} /\ Len(made) < Attempts
  /\ \A n \in DOMAIN replies : replies[n] # "created"
  /\ made' = Append(made, NewCase)
  /\ sending' = Wanted
  /\ UNCHANGED <<answers, replies>>

\* updateEmployment refuses an end before the start, after the case was made.
EmploymentRefused == answers.start # NoDate /\ answers.end # NoDate /\ answers.end < answers.start

Written(c, step) ==
  CASE step = "employment"   -> [c EXCEPT !.start = answers.start, !.end = answers.end,
                                          !.still = answers.still]
    [] step = "facts"        -> [c EXCEPT !.employmentStart = answers.start,
                                          !.dismissalDate = answers.end, !.lastActDate = answers.lastAct]
    [] step = "issue"        -> [c EXCEPT !.issue = answers.route]
    [] step = "acas process" -> [c EXCEPT !.acas = IF answers.dayB # NoDate THEN "certificate_issued"
                                                   ELSE "notified"]
    [] step = "acas dates"   -> [c EXCEPT !.dayA = answers.dayA, !.dayB = answers.dayB]
    [] step = "deadlines"    -> [c EXCEPT !.limits = LimitsOf(c)]

Call ==
  /\ sending # {}
  /\ IntakeCalls[Due] = "employment" => ~EmploymentRefused
  /\ made' = [made EXCEPT ![Len(made)] = Written(@, IntakeCalls[Due])]
  /\ sending' = sending \ {Due}
  /\ replies' = IF sending = {Due} THEN Append(replies, "created") ELSE replies
  /\ UNCHANGED answers

CallThrowsUnnoticed ==                                                    \* a mistake
  sending # {} /\ sending' = {} /\ UNCHANGED <<answers, made, replies>>

\* A call throws, and the rest is not made.
CallThrows ==
  /\ sending # {}
  /\ sending' = {}
  /\ replies' = Append(replies, "refused")
  /\ UNCHANGED <<answers, made>>

\* The user takes out a date before sending the form again.
TakeOut(date) ==
  /\ sending = {} /\ replies # << >> /\ replies[Len(replies)] = "refused"
  /\ answers[date] # NoDate
  /\ answers' = [answers EXCEPT ![date] = NoDate]
  /\ UNCHANGED <<made, sending, replies>>

IntakeInit ==
  /\ answers \in AnswerSets
  /\ made = << >> /\ sending = {} /\ replies = << >>

IntakeNext ==
  \/ Submit \/ Call \/ CallThrows
  \/ \E date \in {"start", "end", "lastAct", "dayA", "dayB"} : TakeOut(date)

IntakeSpec == IntakeInit /\ [][IntakeNext]_intakeVars

-----------------------------------------------------------------------------
(* Properties.                                                             *)

\* A form sent is one case, answered or under way.
IntakeTypeOK ==
  /\ Len(replies) = IF sending = {} THEN Len(made) ELSE Len(made) - 1
  /\ \A n \in DOMAIN made : \A l \in made[n].limits : l.family \in Families

Made == made[Len(made)]
CreatedNow == replies # << >> /\ replies[Len(replies)] = "created"

\* A case that intake answers with is whole: the limits it shows are those of
\* all its dates, the Acas ones included, and no earlier sending is mixed in.
CreatedIsWhole ==
  CreatedNow => /\ Made.limits = LimitsOf(Made) /\ Made.limits # {}
                /\ Made.end = answers.end /\ Made.dismissalDate = answers.end
                /\ Made.dayA = answers.dayA /\ Made.dayB = answers.dayB
                /\ AcasGiven <=> Made.acas # "none"

Dated == {l \in Made.limits : l.date # NoDate}

\* What triage told an anonymous user and what the case then shows are the same
\* when the answers name one event only.
TriageAgrees ==
  CreatedNow /\ (answers.lastAct = NoDate \/ ~Left) =>
    IF Dated = {} THEN TriageDeadline = NoDate
    ELSE /\ \E l \in Dated : l.date = TriageDeadline
         /\ \A l \in Dated : TriageDeadline <= l.date

\* Intake keeps what its two answers say: the case made is whole, and its limits
\* are those that triage showed.
CaseIsAsAnswered == CreatedIsWhole /\ TriageAgrees

=============================================================================
