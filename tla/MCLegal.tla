------------------------------- MODULE MCLegal -------------------------------
(* What the application says about the law: limits and service from a case's  *)
(* dates, the claims engine with its model, the intake wizard, and the check  *)
(* of citations.  They share the calendar and the rules, and no variable: a   *)
(* behaviour moves one of them, chosen at its start, and leaves the others at *)
(* an initial state.                                                          *)
EXTENDS MCCaseDates, MCClaims, MCIntake, MCCaseLaw, TLC

VARIABLE part

dateSide == vars
lawSide  == <<caseLawVars, key>>

\* A component that stays at an initial state stays at one of them.
MCInit ==
  /\ part \in {"dates", "claims", "intake", "law"}
  /\ Init       /\ (part # "dates"  => jurisdiction = "england_wales")
  /\ ClaimInit  /\ (part # "claims" => input = CHOOSE i \in Inputs : i.facts = << >>)
  /\ IntakeInit /\ (part # "intake" => answers = CHOOSE a \in AnswerSets : TRUE)
  /\ MCCaseLawInit /\ (part # "law" => key = (CHOOSE k \in LawKeys : TRUE) /\ \A n \in Numbers : published[n] = 0)

MCNext ==
  /\ UNCHANGED part
  /\ \/ part = "dates" /\ Next /\ UNCHANGED <<claimVars, intakeVars, lawSide>>
     \/ part = "claims" /\ ClaimNext /\ UNCHANGED <<dateSide, intakeVars, lawSide>>
     \/ part = "intake" /\ IntakeNext /\ UNCHANGED <<dateSide, claimVars, lawSide>>
     \/ part = "law" /\ MCCaseLawNext /\ UNCHANGED <<dateSide, claimVars, intakeVars>>

MCSpec == MCInit /\ [][MCNext]_<<part, dateSide, claimVars, intakeVars, lawSide>>

\* Calls have no order.
MCSymmetry == Permutations(Calls)

\* The record of dates, the engine's claims, the intake's calls and the cache of
\* verdicts have the shape the code gives them.
LegalTypeOK == TypeOK /\ ClaimTypeOK /\ IntakeTypeOK /\ CaseLawTypeOK

=============================================================================
