-------------------------- MODULE MCJobsRefinement --------------------------
(* The instances of MCJobs, for the refinement. *)
EXTENDS JobsRefinement

CONSTANTS j1, j2, j3, w1, w2

MCJobIds      == {j1, j2, j3}
MCWorkers     == {w1, w2}
MCMaxAttempts == [j \in JobIds |-> IF j = j1 THEN 1 ELSE 2]
MCHandled     == JobIds \ {j3}

\* The audit insert that follows an outcome succeeds: when it throws, the catch
\* of the run it is in writes over the outcome, and no outcome is final.  The
\* insert that follows a failure may throw.
OutcomesAreAudited ==
  \A w \in Workers : worker[w].at = "audit" => worker'[w].at # "catch"

MCNext == Next /\ OutcomesAreAudited

MCSpec == Init /\ [][MCNext]_vars

=============================================================================
