---------------------------- MODULE ClaimEngine ----------------------------
(***************************************************************************)
(* The claim engine (coffeecup/src/legal/claims): which claims a case's    *)
(* record suggests, what each of their elements rests on, and the two      *)
(* reviews of a model's answer.  The model is external: it may throw,      *)
(* return something that is not the JSON asked for, or any answer that is, *)
(* facts it made up included.  Every fact of the input is confirmed; one   *)
(* that is disputed, or only alleged by the employer, is "tainted".        *)
(***************************************************************************)
EXTENDS TimeLimits, Sequences, FiniteSets

LOCAL INSTANCE FiniteSetsExt

CONSTANTS
  Inputs,            \* engine inputs: what buildEngineInput may read
  Answers(_),        \* well-formed answers on a claim: some of its elements, assessed
  MaxDowngrades,     \* bound on the elements one model review downgrades
  FireAndRehireFrom  \* ERA_2025.FIRE_AND_REHIRE_AUTO_UNFAIR

VARIABLES
  input,   \* what was read of the case
  queue,   \* the claims still to analyse: their places among the definitions
  claim    \* the one under analysis: its elements as drafted and as they stand

claimVars == <<input, queue, claim>>

Statuses == {"supported", "potentially_supported", "disputed", "information_missing",
             "unsupported_on_current_information", "not_applicable"}

\* The statuses that say the record speaks for an element.
Claimed == {"supported", "potentially_supported"}

-----------------------------------------------------------------------------
(* The definitions: triggers, the elements a check of the code answers, the *)
(* elements left to the model.                                             *)

Definition(id, family, triggers, checks, elements) ==
  [id |-> id, family |-> family, triggers |-> triggers, checks |-> checks,
   elements |-> elements, from |-> NoDate, tbc |-> FALSE]

AnEmployee == {"employee_status", "dismissal"}

\* Only claims of a dismissed employee require a dismissal.
RequiresDismissal(def) == "dismissal" \in def.checks

UnfairDismissal ==
  Definition("unfair_dismissal", "unfair_dismissal", {"dismissal", "redundancy", "disciplinary"},
             AnEmployee \cup {"qualifying_service"}, {"reason", "fairness"})
WrongfulDismissal ==
  Definition("wrongful_dismissal", "breach_of_contract", {"dismissal"},
             AnEmployee, {"notice_entitlement", "no_notice_given", "no_gross_misconduct"})
DirectDiscrimination ==
  Definition("direct_discrimination", "discrimination", {"discrimination"}, {},
             {"protected_characteristic", "less_favourable_treatment", "because_of",
              "employment_context"})
IndirectDiscrimination ==
  Definition("indirect_discrimination", "discrimination", {"discrimination", "contract_change"}, {},
             {"pcp", "group_disadvantage", "personal_disadvantage", "justification"})
Harassment ==
  Definition("harassment", "discrimination", {"discrimination"}, {},
             {"unwanted_conduct", "related_to_characteristic", "purpose_or_effect",
              "reasonableness"})
Victimisation ==
  Definition("victimisation", "discrimination", {"discrimination", "grievance"}, {},
             {"protected_act", "detriment", "because_of_protected_act"})
ReasonableAdjustments ==
  Definition("reasonable_adjustments", "discrimination",
             {"disability_adjustments", "discrimination"}, {},
             {"disability", "employer_knowledge", "substantial_disadvantage",
              "reasonable_steps_not_taken"})
Whistleblowing ==
  Definition("whistleblowing", "whistleblowing_detriment", {"whistleblowing", "dismissal"},
             {"worker_status"},
             {"disclosure_of_information", "qualifying_disclosure", "protected_disclosure",
              "detriment_or_dismissal", "causation"})
UnlawfulDeductions ==
  Definition("unlawful_deductions", "unlawful_deductions", {"pay"}, {"worker_status"},
             {"wages_properly_payable", "deduction_made", "not_authorised"})
FireAndRehire ==
  [Definition("fire_and_rehire", "unfair_dismissal", {"contract_change", "dismissal"}, AnEmployee,
              {"reason_refusal_of_variation", "no_financial_distress_exception"})
     EXCEPT !.from = FireAndRehireFrom]
ZeroHoursRights ==
  [Definition("zero_hours_rights", "general", {"contract_change", "pay"}, {"worker_status"},
              {"zero_or_low_hours", "right_engaged"})
     EXCEPT !.tbc = TRUE]

ClaimDefinitions ==
  <<UnfairDismissal, WrongfulDismissal, DirectDiscrimination, IndirectDiscrimination, Harassment,
    Victimisation, ReasonableAdjustments, Whistleblowing, UnlawfulDeductions, FireAndRehire,
    ZeroHoursRights>>

-----------------------------------------------------------------------------
(* What the record says.                                                   *)

EndKeys == {"dismissal_date", "effective_date_of_termination"}

\* The places of the facts on some keys, in the order of the record.
FactsOn(keys)    == {n \in DOMAIN input.facts : input.facts[n].key \in keys}
FactIdsFor(keys) == {input.facts[n].id : n \in FactsOn(keys)}
First(places)    == CHOOSE n \in places : \A o \in places : n <= o
FirstOn(keys)    == IF FactsOn(keys) = {} THEN NoDate ELSE input.facts[First(FactsOn(keys))].value
OrElse(d, e)     == IF d # NoDate THEN d ELSE e

\* triggerCandidates.
WasDismissed ==
  input.end # NoDate \/ input.still = "no" \/ FactsOn(EndKeys) # {}

ClaimTags == input.tags \cup (IF WasDismissed THEN {"dismissal"} ELSE {})

\* The places of the candidates among the definitions.
Triggered ==
  {n \in DOMAIN ClaimDefinitions :
     /\ ClaimDefinitions[n].triggers \cap ClaimTags # {}
     /\ RequiresDismissal(ClaimDefinitions[n]) => WasDismissed}

\* setStructuredFact, addFact and correctFact refuse such a key without a date
\* (validateKeyValue); the tasks' schemas admit only the statuses.
ASSUME ClaimAssumption ==
  /\ \A i \in Inputs :
       /\ i.jurisdiction \in {"england_wales", "scotland", "northern_ireland"}
       /\ {i.end, i.dayA, i.dayB} \subseteq Entries \cup {NoDate}
       /\ DOMAIN i.facts \subseteq Nat
       /\ \A n \in DOMAIN i.facts : i.facts[n].key \in EndKeys => i.facts[n].value \in Entries
  /\ \A n \in DOMAIN ClaimDefinitions : \A answer \in Answers(ClaimDefinitions[n]) :
       \A el \in DOMAIN answer : answer[el].status \in Statuses

-----------------------------------------------------------------------------
(* evaluateDeterministic: what code answers without the model.             *)

Checked(status, ids) == [status |-> status, support |-> ids, by |-> "code"]

StatusCheck(el) ==
  CASE input.status = "unsure" -> Checked("information_missing", {})
    [] input.status = "employee" ->
         Checked("supported", IF el = "employee_status" THEN FactIdsFor({"employment_status"}) ELSE {})
    [] input.status = "agency" /\ el = "employee_status" -> Checked("information_missing", {})
    [] input.status \in {"worker", "agency"} /\ el = "worker_status" -> Checked("supported", {})
    [] OTHER -> Checked("unsupported_on_current_information", {})

DismissalCheckDatedOnly ==                                                \* a mistake
  IF FactsOn(EndKeys) # {} \/ input.end # NoDate
    THEN Checked("supported", FactIdsFor(EndKeys)) ELSE Checked("information_missing", {})
DismissalCheck ==
  IF FactsOn(EndKeys) # {} \/ input.end # NoDate THEN Checked("supported", FactIdsFor(EndKeys))
  ELSE IF input.still = "no" THEN Checked("potentially_supported", {})
  ELSE Checked("information_missing", {})

\* "Your employment ended on ...", and where continuous service ends: the first
\* of the facts, before the record.
EndSaid == OrElse(FirstOn(EndKeys), input.end)

\* A start after the end makes qualifyingPeriod throw.
ServiceCheck ==
  LET start == OrElse(FirstOn({"employment_start"}), input.start)
  IN  IF EndSaid = NoDate \/ start = NoDate \/ EndSaid < start THEN Checked("information_missing", {})
      ELSE Checked(IF HasQualifyingService(start, EndSaid)
                     THEN "supported" ELSE "unsupported_on_current_information",
                   FactIdsFor(EndKeys \cup {"employment_start"}))

Check(el) ==
  CASE el \in {"employee_status", "worker_status"} -> StatusCheck(el)
    [] el = "dismissal"          -> DismissalCheck
    [] el = "qualifying_service" -> ServiceCheck

\* availability.
Available(def) ==
  LET event == OrElse(input.end, FirstOn({"date_of_last_act"})) IN
  /\ input.jurisdiction # "northern_ireland"
  /\ \/ def.from = NoDate
     \/ event = NoDate
     \/ event >= def.from

-----------------------------------------------------------------------------
(* From the model's answer to the draft, and the deterministic review.     *)

Undone(def, status, by) ==
  [el \in def.elements |-> [status |-> status, support |-> {}, by |-> by]]

\* An element the answer leaves out is missing information; the answer's others
\* are not read.
NotAddressedUnset == [status |-> "none", support |-> {}]                  \* a mistake
NotAddressed      == [status |-> "information_missing", support |-> {}]

Assessed(def, answer) ==
  [el \in def.elements |->
     LET a == IF el \in DOMAIN answer THEN answer[el] ELSE NotAddressed
     IN  [status |-> a.status, support |-> a.support, by |-> "model"]]

Drafted(def, assessed) ==
  [el \in def.checks \cup def.elements |->
     IF el \in def.checks THEN Check(el) ELSE assessed[el]]

CaseFacts    == {input.facts[n].id : n \in DOMAIN input.facts}
TaintedFacts == {input.facts[n].id : n \in {m \in DOMAIN input.facts : input.facts[m].tainted}}

ReviewTrusting(el) == el                                                  \* a mistake

\* deterministicReview.
Review(el) ==
  LET known  == el.support \cap CaseFacts
      status == IF known \cap TaintedFacts # {} /\ el.status \in Claimed THEN "disputed"
                ELSE el.status
  IN  [status  |-> IF status = "supported" /\ known = {} /\ el.by = "model"
                   THEN "information_missing" ELSE status,
       support |-> known, by |-> el.by]

-----------------------------------------------------------------------------
(* runClaimEngine: the claims one after another.                           *)

NoClaim == [at |-> "none", draft |-> << >>, shown |-> << >>]

Under(def, at, draft, model) ==
  claim' = [at |-> at, def |-> def, available |-> Available(def), model |-> model,
            draft |-> draft, shown |-> [el \in DOMAIN draft |-> Review(draft[el])]]

ClaimInit ==
  /\ input \in Inputs
  /\ queue = Triggered
  /\ claim = NoClaim

\* The next candidate: its checks are made, and the model is asked unless the
\* right is not available.
Begin ==
  LET def == ClaimDefinitions[First(queue)] IN
  /\ claim.at \in {"none", "done"} /\ queue # {}
  /\ queue' = queue \ {First(queue)}
  /\ IF Available(def)
       THEN Under(def, "asked", << >>, "asked")
       ELSE Under(def, "done", Drafted(def, Undone(def, "not_applicable", "code")), "not asked")
  /\ UNCHANGED input

\* structuredGenerate: a malformed answer is asked for once more.
Malformed ==
  /\ claim.at = "asked"
  /\ claim' = [claim EXCEPT !.at = "asked again"]
  /\ UNCHANGED <<input, queue>>

AnalysisAnswered(answer) ==
  /\ claim.at \in {"asked", "asked again"}
  /\ Under(claim.def, "reviewing", Drafted(claim.def, Assessed(claim.def, answer)), "answered")
  /\ UNCHANGED <<input, queue>>

\* The backend throws, or the second answer is malformed too.
OnFailureSkips(def) == [el \in def.elements |-> [status |-> "not_applicable", support |-> {},
                                                 by |-> "code"]]          \* a mistake
OnFailure(def) == Undone(def, "information_missing", "model")

AnalysisFailed ==
  /\ claim.at \in {"asked", "asked again"}
  /\ Under(claim.def, "reviewing", Drafted(claim.def, OnFailure(claim.def)), "failed")
  /\ UNCHANGED <<input, queue>>

\* The model's findings on the elements that are claimed; those on others, and
\* on other questions, change nothing.
DowngradableAny == DOMAIN claim.shown                                     \* a mistake
Downgradable    == {el \in DOMAIN claim.shown : claim.shown[el].status \in Claimed}

ReviewAnswered(els, status) ==
  /\ claim.at \in {"reviewing", "reviewing again"}
  /\ els \subseteq Downgradable
  /\ claim' = [claim EXCEPT !.at = "done",
       !.shown = [el \in DOMAIN @ |-> IF el \in els THEN [@[el] EXCEPT !.status = status] ELSE @[el]]]
  /\ UNCHANGED <<input, queue>>

ReviewMalformed ==
  /\ claim.at = "reviewing"
  /\ claim' = [claim EXCEPT !.at = "reviewing again"]
  /\ UNCHANGED <<input, queue>>

ReviewFailed ==
  /\ claim.at \in {"reviewing", "reviewing again"}
  /\ claim' = [claim EXCEPT !.at = "done"]
  /\ UNCHANGED <<input, queue>>

ClaimNext ==
  \/ Begin \/ Malformed \/ AnalysisFailed \/ ReviewMalformed \/ ReviewFailed
  \/ claim.at \in {"asked", "asked again"} /\ \E answer \in Answers(claim.def) : AnalysisAnswered(answer)
  \/ /\ claim.at \in {"reviewing", "reviewing again"}
     /\ \E els \in UNION {kSubset(n, DOMAIN claim.shown) : n \in 0..MaxDowngrades},
           status \in {"disputed", "information_missing"} : ReviewAnswered(els, status)

ClaimSpec == ClaimInit /\ [][ClaimNext]_claimVars

-----------------------------------------------------------------------------
(* The time limit attached to a candidate.                                 *)

ClaimTriggerOneKey(def) == OrElse(input.end, FirstOn({"dismissal_date"})) \* a mistake
\* The record, before the first of the facts.
ClaimTrigger(def) ==
  LET lastAct == FirstOn({"date_of_last_act"}) IN
  CASE def.family \in {"unfair_dismissal", "breach_of_contract"} -> OrElse(input.end, FirstOn(EndKeys))
    [] def.family = "unlawful_deductions" -> OrElse(FirstOn({"date_of_deduction"}), lastAct)
    [] OTHER -> OrElse(lastAct, input.end)

ClaimLimit(def) ==
  CalculateTimeLimit(input.jurisdiction, def.family, ClaimTrigger(def), input.dayA, input.dayB)

-----------------------------------------------------------------------------
(* Properties.                                                             *)

Finished == claim.at = "done"

\* A candidate is available or not, and its elements have the statuses the table knows.
ClaimTypeOK ==
  claim # NoClaim =>
    /\ \E n \in DOMAIN ClaimDefinitions : claim.def = ClaimDefinitions[n]
    /\ DOMAIN claim.shown = DOMAIN claim.draft
    /\ \A el \in DOMAIN claim.shown : claim.shown[el].status \in Statuses

\* "Findings can only DOWNGRADE conclusions, never upgrade them": through both
\* reviews an element keeps its status, or loses the claim that the record
\* speaks for it.
OnlyDowngraded ==
  \A el \in DOMAIN claim.shown :
    LET from == claim.draft[el].status
        to   == claim.shown[el].status
    IN  to = from \/ (from \in Claimed /\ to \in {"disputed", "information_missing"})

\* What the model says is supported rests, once reviewed, on facts of the case,
\* on at least one, and on none that is disputed or the employer's word.
SupportedIsProven ==
  \A el \in DOMAIN claim.shown :
    LET e == claim.shown[el] IN
    e.status = "supported" =>
      /\ e.support \subseteq CaseFacts \ TaintedFacts
      /\ e.support # {} \/ e.by = "code"

\* A candidate is always shown with every element of its definition; when the
\* model gave no answer, those left to it are missing information, not claimed
\* and not waved through.
FailureClaimsNothing ==
  Finished =>
    /\ DOMAIN claim.shown = claim.def.checks \cup claim.def.elements
    /\ claim.model = "failed" =>
         \A el \in claim.def.elements : claim.shown[el].status = "information_missing"

\* A claim that needs a dismissal is a candidate only of a record that shows one:
\* the check of its dismissal never answers "No dismissal is recorded".
TriggeredIsDismissed ==
  Finished /\ "dismissal" \in DOMAIN claim.draft =>
    claim.draft["dismissal"].status \in Claimed

\* An end before the oldest rule of the claim's family.
BeforeTheRules(def) ==
  ClaimTrigger(def) # NoDate /\ ClaimTrigger(def) < RulesFrom[def.family]

\* The employment record and the first fact give different ends.
TwoEnds == input.end # NoDate /\ FactsOn(EndKeys) # {} /\ FirstOn(EndKeys) # input.end

\* A claim of which the engine says "Your employment ended on ..." has a limit,
\* and it runs from the very date that is said.  Only when the record and the
\* facts differ do the two part: what is said and the service are the facts',
\* the limit is the record's.
EndedHasLimit ==
  Finished /\ input.jurisdiction # "northern_ireland" /\ "dismissal" \in DOMAIN claim.draft =>
    (claim.draft["dismissal"].status = "supported" =>
       /\ ClaimTrigger(claim.def) = (IF TwoEnds THEN input.end ELSE EndSaid)
       /\ ClaimLimit(claim.def).date # NoDate \/ BeforeTheRules(claim.def))

\* What the engine says of a claim is earned: by a check of the record or by
\* cited facts, with a reviewer that may only lower it; a claim triggered by a
\* dismissal passes the check of one, and its limit runs from the end that is
\* said, unless the record and the facts give two.
ClaimsAreEarned ==
  /\ OnlyDowngraded /\ SupportedIsProven /\ FailureClaimsNothing
  /\ TriggeredIsDismissed /\ EndedHasLimit

=============================================================================
