------------------------------ MODULE MCClaims ------------------------------
(* Finite instances of ClaimEngine: what a case may hold, and what the model  *)
(* may answer about one element of a claim.                                   *)
EXTENDS ClaimEngine, MCCalendar

MCFire == Day(2027, 1, 1)

Fact(id, key, value, tainted) == [id |-> id, key |-> key, value |-> value, tainted |-> tainted]
ToldFact == Fact("f0", "none", NoDate, FALSE)

MCRecords == {
  << >>,
  <<ToldFact>>,
  <<Fact("f1", "dismissal_date", Day(2026, 11, 30), FALSE), ToldFact>>,
  <<Fact("f1", "effective_date_of_termination", Day(2027, 1, 31), TRUE),
    Fact("f2", "dismissal_date", Day(2026, 11, 30), FALSE),
    Fact("f3", "employment_start", Day(2025, 1, 31), FALSE)>>,
  <<Fact("f1", "date_of_last_act", Day(2026, 11, 30), FALSE),
    Fact("f2", "employment_status", NoDate, TRUE),
    Fact("f3", "date_of_deduction", Day(2027, 1, 30), TRUE)>> }

MCInputs ==
  { i \in [jurisdiction : {"england_wales", "northern_ireland"},
           tags   : {{"grievance"}, {"contract_change", "pay"}, {"discrimination"}, {"redundancy"}},
           status : {"unsure", "employee", "agency", "self_employed"},
           start  : {NoDate, Day(2026, 8, 31)},
           end    : {NoDate, Day(2026, 10, 31), Day(2027, 2, 28)},
           still  : {"unknown", "no"}, facts : MCRecords, dayA : {NoDate}, dayB : {NoDate}] :
     /\ i.jurisdiction = "northern_ireland" => i.status = "employee" /\ i.start = NoDate
     /\ i.end # NoDate => i.still = "no"
     /\ i.start # NoDate => i.status = "employee" }

A(s, ids) == [status |-> s, support |-> ids]

\* One element assessed in every way that matters, or none.
MCAnswers(def) ==
  { [el \in {watched} |-> a] :
      watched \in def.elements \cup {"not asked"},
      a \in { A("supported", {}), A("supported", {"f0"}), A("supported", {"made up"}),
              A("supported", {"f0", "f1"}), A("potentially_supported", {}),
              A("potentially_supported", {"f1", "made up"}),
              A("unsupported_on_current_information", {"f1"}), A("not_applicable", {}) } }

=============================================================================
