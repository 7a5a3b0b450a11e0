----------------------------- MODULE MCDocuments -----------------------------
(* A case's documents while they are read (Extraction) and a user's cases as  *)
(* they end (Retention).  The two share no variable: a behaviour moves one,   *)
(* chosen at its start, and leaves the other at its initial state, where      *)
(* fairness asks nothing of it.                                               *)
EXTENDS MCExtraction, Retention

CONSTANTS c1, c2, k1, k2, i1, i2

VARIABLE part

MCCases       == {c1, c2}
MCDocuments   == {k1, k2}
MCCaseOf      == [d \in Documents |-> IF d = k1 THEN c1 ELSE c2]
MCInvocations == {i1, i2}

MCInit == part \in {"extraction", "retention"} /\ Init /\ RetentionInit

MCNext ==
  /\ UNCHANGED part
  /\ \/ part = "extraction" /\ Next /\ UNCHANGED retentionVars
     \/ part = "retention" /\ RetentionNext /\ UNCHANGED vars

MCSpec == /\ MCInit /\ [][MCNext]_<<part, vars, retentionVars>>
          /\ Fairness /\ RetentionFairness

\* Extraction's and Retention's rows and actors have the shape the code gives
\* them.
DocumentsTypeOK == TypeOK /\ RetentionTypeOK

=============================================================================
