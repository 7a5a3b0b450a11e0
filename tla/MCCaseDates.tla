----------------------------- MODULE MCCaseDates -----------------------------
(* The dates a case may have, around those at which the rules turn. *)
EXTENDS CaseDates, MCCalendar

MCChoices == [k \in Keys |->
  CASE k = "dismissal_date" ->
         {Day(2026, 8, 31), Day(2026, 9, 30), Day(2026, 10, 1), Day(2026, 11, 29), Day(2026, 11, 30),
          Day(2026, 12, 1), Day(2027, 1, 1), Day(2027, 1, 31), Day(2027, 11, 30)}
    [] k = "effective_date_of_termination" -> {Day(2027, 8, 31)}
    [] k = "startDate"           -> {Day(2024, 2, 29), Day(2024, 11, 30), Day(2026, 8, 31)}
    [] k = "date_of_last_act"    -> {Day(2026, 9, 20), Day(2026, 11, 30)}
    [] k = "date_of_deduction"   -> {Day(2026, 12, 31)}
    [] k = "notificationDate"    -> {Day(2027, 1, 15), Day(2027, 2, 28), Day(2027, 3, 1)}
    [] k = "certificateIssueDate" -> {Day(2027, 1, 10), Day(2027, 3, 31), Day(2027, 6, 30)}
    [] k = "acas_day_b"          -> {Day(2027, 1, 31)}
    [] OTHER -> {}]

=============================================================================
