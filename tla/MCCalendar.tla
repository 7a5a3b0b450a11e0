------------------------------ MODULE MCCalendar ------------------------------
(* The calendar of 2024 to 2028 and the dates at which the rules turn. *)
EXTENDS TimeLimits

MCLastMonth == 59

\* Days before each month of a common year; 2024 and 2028 have a 29 February.
Before == <<0, 31, 59, 90, 120, 151, 181, 212, 243, 273, 304, 334>>

MCMonthStart ==
  [m \in 0..60 |-> 1 + 365 * (m \div 12) + Before[(m % 12) + 1]
                     + (IF m > 1 THEN 1 ELSE 0) + (IF m > 49 THEN 1 ELSE 0)]
MCMonthOf ==
  [d \in 1..(MCMonthStart[60] - 1) |->
     CHOOSE m \in 0..59 : MCMonthStart[m] <= d /\ d < MCMonthStart[m + 1]]

Day(y, m, d) == MCMonthStart[(y - 2024) * 12 + m - 1] + d - 1

MCRulesFrom     == [f \in Lengthened \cup Standing |->
                      IF f = "discrimination" THEN Day(2026, 11, 30) - 70 ELSE 1]
MCCommencement  == Day(2026, 10, 1)
MCServiceChange == Day(2027, 1, 1)

=============================================================================
