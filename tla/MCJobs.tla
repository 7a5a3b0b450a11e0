------------------------------- MODULE MCJobs -------------------------------
(* Finite instances of Jobs: attempts per job and the unhandled job. *)
EXTENDS Jobs

CONSTANTS j1, j2, j3, w1, w2

MCJobIds      == {j1, j2, j3}
MCTwoJobs     == {j1, j2}
MCWorkers     == {w1, w2}
MCMaxAttempts == [j \in JobIds |-> IF j = j1 THEN 1 ELSE 2]
MCTwice       == [j \in JobIds |-> 2]
MCHandled     == JobIds \ {j3}

=============================================================================
