--------------------------- MODULE JobsRefinement ---------------------------
(***************************************************************************)
(* The statement-level queue of Jobs implements JobLedger: the two steps   *)
(* of the claim are one Take, and a job is in hand from the flip until its *)
(* row is settled.                                                         *)
(***************************************************************************)
EXTENDS Jobs

\* The runs that may still settle the row they claimed.
InHand == {p \in Workers \X JobIds :
             worker[p[1]].at \in {"run", "catch", "requeue", "giveup"} /\ worker[p[1]].job = p[2]}

Ledger == INSTANCE JobLedger
  WITH Limit  <- MaxAttempts,
       phase  <- [j \in JobIds |-> job[j].status],
       taken  <- [j \in JobIds |-> job[j].attempts],
       inHand <- InHand

\* Claims, failures, requeues, crashes and retries of concurrent runs never
\* show anything but exclusive, bounded, final work: runPendingJobs and
\* retryJob implement the ledger.
ImplementsLedger == Ledger!Spec

=============================================================================
