------------------------------ MODULE MCIntake ------------------------------
(* Finite instances of Intake: the answers a wizard may bring. *)
EXTENDS Intake, MCCalendar

MCAnswerSets ==
  { i \in [jurisdiction : {"england_wales", "northern_ireland"},
           route   : {"not_sure", "dismissal", "redundancy", "discrimination", "pay"},
           still   : {"no", "unknown"},
           start   : {NoDate, Day(2026, 10, 31)},
           end     : {NoDate, Day(2026, 9, 30), Day(2026, 11, 30)},
           lastAct : {NoDate, Day(2026, 10, 31)},
           dayA    : {NoDate, Day(2026, 12, 15)},
           dayB    : {NoDate, Day(2027, 1, 31)}] :
     i.jurisdiction = "northern_ireland" => i.route = "pay" /\ i.start = NoDate }

=============================================================================
