----------------------------- MODULE JobLedger ------------------------------
(***************************************************************************)
(* What the job queue promises, without its statements: taking a job is    *)
(* one step, a job is in at most one pair of hands, it is taken at most    *)
(* Limit[j] times, and an outcome is final.  jobs/service.ts implements it *)
(* through module Jobs (see JobsRefinement).                               *)
(***************************************************************************)
EXTENDS Integers

CONSTANTS JobIds, Workers, Limit

VARIABLES
  phase,   \* what the queue says of each job
  taken,   \* how often each job was taken
  inHand   \* the pairs <<worker, job>> being worked on

vars == <<phase, taken, inHand>>

Init ==
  /\ phase = [j \in JobIds |-> "absent"]
  /\ taken = [j \in JobIds |-> 0]
  /\ inHand = {}

Submit(j) ==
  /\ phase[j] = "absent"
  /\ phase' = [phase EXCEPT ![j] = "queued"]
  /\ taken' = [taken EXCEPT ![j] = 0]
  /\ UNCHANGED inHand

Take(w, j) ==
  /\ phase[j] = "queued"
  /\ taken[j] < Limit[j]
  /\ \A p \in inHand : p[1] # w /\ p[2] # j
  /\ phase' = [phase EXCEPT ![j] = "processing"]
  /\ taken' = [taken EXCEPT ![j] = @ + 1]
  /\ inHand' = inHand \cup {<<w, j>>}

\* The job goes back to the queue only while it may be taken again.
Settle(w, j, s) ==
  /\ <<w, j>> \in inHand
  /\ phase[j] = "processing"
  /\ s \in {"completed", "requires_review", "failed", "queued"}
  /\ s = "queued" => taken[j] < Limit[j]
  /\ phase' = [phase EXCEPT ![j] = s]
  /\ inHand' = inHand \ {<<w, j>>}
  /\ UNCHANGED taken

\* The worker died: the job stays "processing" in nobody's hands.
Abandon(w, j) ==
  /\ <<w, j>> \in inHand
  /\ inHand' = inHand \ {<<w, j>>}
  /\ UNCHANGED <<phase, taken>>

Resubmit(j) ==
  /\ phase[j] = "failed"
  /\ taken[j] < Limit[j]
  /\ phase' = [phase EXCEPT ![j] = "queued"]
  /\ UNCHANGED <<taken, inHand>>

Next ==
  \E j \in JobIds :
    \/ Submit(j) \/ Resubmit(j)
    \/ \E w \in Workers :
         Take(w, j) \/ Abandon(w, j)
         \/ \E s \in {"completed", "requires_review", "failed", "queued"} : Settle(w, j, s)

Spec == Init /\ [][Next]_vars

=============================================================================
