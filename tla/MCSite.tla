------------------------------- MODULE MCSite -------------------------------
(* What a browser meets outside the services of a case: accounts, the rate   *)
(* limiter, the intake form and the Exports screen.  They share no variable, *)
(* so a behaviour of this run moves one of them, chosen at its start, and    *)
(* the others stay at their initial states.                                  *)
EXTENDS Accounts, RateLimit, IntakeForm, MCExports, TLC

CONSTANTS u1, u2, p1, p2, s1, s2, l1, r1, r2,   \* Accounts
          k1, k2                                \* RateLimit

VARIABLE part   \* which of them moves

\* Two ids of users that could hold one address.
MCUsers     == {u1, u2}
MCEmail     == [u \in Users |-> "her address"]
MCPasswords == {p1, p2}
MCSessions  == {s1, s2}
MCLinks     == {l1}
MCRequests  == {r1, r2}

MCCallers == {k1, k2}

MCRoutes == {NotSure, ProblemAtWork, "pay"}

\* One start for each part, and as many as that part has.
MCInit ==
  /\ part \in {"accounts", "limiter", "form", "exports"}
  /\ AccountsInit /\ LimiterInit /\ IntakeFormInit /\ ExportsInit
  /\ part # "form" => login = "out"
  /\ part # "exports" => \A t \in Tabs : tab[t].open

MCNext ==
  /\ UNCHANGED part
  /\ \/ part = "accounts" /\ AccountsNext /\ UNCHANGED <<limiterVars, formVars, exportVars>>
     \/ part = "limiter" /\ LimiterNext /\ UNCHANGED <<accountVars, formVars, exportVars>>
     \/ part = "form" /\ IntakeFormNext /\ UNCHANGED <<accountVars, limiterVars, exportVars>>
     \/ part = "exports" /\ MCExportsNext /\ UNCHANGED <<accountVars, limiterVars, formVars>>

MCSpec == MCInit /\ [][MCNext]_<<part, accountVars, limiterVars, formVars, exportVars>>

\* Rows and requests have no order.
MCSymmetry == Permutations(Sessions) \cup Permutations(Requests)

\* Accounts, limiter, form and documents have the shape the code gives them.
SiteTypeOK == AccountsTypeOK /\ LimiterTypeOK /\ IntakeFormTypeOK /\ ExportsTypeOK

=============================================================================
