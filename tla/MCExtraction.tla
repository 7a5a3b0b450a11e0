---------------------------- MODULE MCExtraction ----------------------------
(* A finite instance of Extraction. *)
EXTENDS Extraction

CONSTANTS d1, j1, j2, w1, w2, r1

MCDocs     == {d1}
MCJobs     == {j1, j2}
MCWorkers  == {w1, w2}
MCRequests == {r1}
\* One job may be tried twice, the other once.
MCLimit    == [j \in JobIds |-> IF j = j1 THEN 2 ELSE 1]

=============================================================================
