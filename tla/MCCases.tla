------------------------------- MODULE MCCases -------------------------------
(* The requests on a case that overlap: its processes, its deadline rows and  *)
(* tasks, and the routes to all its rows.  These components share no          *)
(* variable, so a behaviour moves one of them, chosen at its start, and       *)
(* leaves the others at an initial state.                                     *)
EXTENDS MCProcesses, MCDeadlines, MCRoutes, TLC

VARIABLE part

processSide  == <<processVars, topic, focus>>
deadlineSide == <<deadlineVars, study>>
routeSide    == <<routeVars, studied>>

\* What does not move starts at one state.
ProcessesRest == topic = "allegations"
DeadlinesRest == study = "pages"
RoutesRest    == studied = "people"

MCInit ==
  /\ part \in {"processes", "deadlines", "routes"}
  /\ MCProcessesInit /\ MCDeadlinesInit /\ MCRoutesInit
  /\ part # "processes" => ProcessesRest
  /\ part # "deadlines" => DeadlinesRest
  /\ part # "routes" => RoutesRest

MCNext ==
  /\ UNCHANGED part
  /\ \/ part = "processes" /\ MCProcessesNext /\ UNCHANGED <<deadlineSide, routeSide>>
     \/ part = "deadlines" /\ MCDeadlinesNext /\ UNCHANGED <<processSide, routeSide>>
     \/ part = "routes" /\ MCRoutesNext /\ UNCHANGED <<processSide, deadlineSide>>

MCSpec == MCInit /\ [][MCNext]_<<part, processSide, deadlineSide, routeSide>>

\* Pages have no order, nor two processes of one type.
MCSymmetry == Permutations(Pages) \cup Permutations(Windows)

\* Processes, deadlines, tasks and routes have the shape the code gives them.
CasesTypeOK == ProcessesTypeOK /\ DeadlinesTypeOK /\ CaseRoutesTypeOK

=============================================================================
