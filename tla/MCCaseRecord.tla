---------------------------- MODULE MCCaseRecord ----------------------------
(* Finite instances of CaseRecord: facts and their keys.  Rows of different  *)
(* kinds never meet, so a behaviour builds one kind, chosen at its start; it *)
(* is one request that changes whatever there is, or several that overlap on *)
(* the facts of the case.                                                    *)
EXTENDS CaseRecord

CONSTANTS f1, f2, r1, r2

VARIABLE focus   \* the kind that is built, and the requests there are

MCRequests  == {r1, r2}
MCFacts     == {f1, f2}
\* Two rows of one key, for corrections.
MCDates     == [f \in Facts |-> "dismissal_date"]
MCDeduction == [f \in Facts |-> "date_of_deduction"]

Alone == focus.requests = {r1}

MCInit == Init /\ focus \in [kind : Kinds, requests : {{r1}, {r1, r2}}]

MCNext ==
  /\ UNCHANGED focus
  /\ \/ \E r \in focus.requests :
          RequestStep(r) \/ FactRequest(r) \/ (Alone /\ (EventRequest(r) \/ InputRequest(r)))
     \/ Alone /\ \E i \in Others : ChangeUnmarked(i)
     \/ \E b \in Builders : BuildStep(b) \/ Begin(b, focus.kind)

MCFairSpec ==
  /\ MCInit /\ [][MCNext]_<<vars, focus>>
  /\ \A r \in Requests : WF_<<vars, focus>>(RequestStep(r) /\ UNCHANGED focus)

=============================================================================
