----------------------------- MODULE MCDeadlines -----------------------------
(* Finite instances of Deadlines: one limit and the builds of two pages, or a *)
(* limit, two processes of one type and one build at a time.                  *)
EXTENDS Deadlines

CONSTANTS q1, q2, w1, w2

VARIABLE study

MCLimits  == {"et"}
MCWindows == {w1, w2}
MCKindOf  == [w \in Windows |-> "appeal"]
MCPages   == {q1, q2}

MCDeadlinesInit ==
  /\ DeadlinesInit
  /\ study \in {"pages", "kinds"}
  /\ gives = [s \in Sources |-> IF s \in Limits THEN Unknown ELSE NotRelevant]

\* The tribunal's limit is always relevant, to a case of one family; next to the
\* windows it ends on the last day, if it ends.
MCGives(s) == CASE study = "pages" -> IF s \in Limits THEN Gives \ {NotRelevant} ELSE {NotRelevant}
                [] study = "kinds" -> IF s \in Limits THEN {Unknown, LastDay} ELSE Gives \ {Unknown}

MCDeadlinesNext ==
  /\ UNCHANGED study
  /\ \/ NextDay \/ MarkRows
     \/ \E k \in Kinds : TaskSteps(k)
     \/ \E s \in Sources : \E d \in MCGives(s) : ChangeInput(s, d)
     \/ \E p \in Pages : (study = "kinds" => Building \subseteq {p}) /\ PageSteps(p)

=============================================================================
