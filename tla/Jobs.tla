-------------------------------- MODULE Jobs --------------------------------
(***************************************************************************)
(* The background job queue of coffeecup/src/jobs/service.ts.              *)
(*                                                                         *)
(* The jobs table is shared by any number of runPendingJobs invocations    *)
(* (cron requests, a worker container) and by retryJob.  There is no       *)
(* transaction: each database statement is one atomic step and invocations *)
(* interleave between statements.  The claim is a single UPDATE whose      *)
(* sub-select reads a snapshot before the row is locked, so it takes two   *)
(* steps: ClaimPick reads the oldest candidate, ClaimFlip re-checks the    *)
(* row's own columns and flips it.                                         *)
(***************************************************************************)
EXTENDS Integers

CONSTANTS
  JobIds,       \* rows that may be enqueued
  Workers,      \* concurrent invocations of runPendingJobs
  Retriers,     \* concurrent invocations of retryJob
  MaxAttempts,  \* column max_attempts, per job (3 by default)
  BatchSize,    \* runPendingJobs(limit)
  Handled,      \* the jobs whose type has a registered handler
  Faults,       \* which failures the environment may inject
  NoJob         \* no job in hand

ASSUME JobsAssumption ==
  /\ MaxAttempts \in [JobIds -> Nat \ {0}]
  /\ BatchSize \in Nat \ {0}
  /\ Handled \subseteq JobIds
  /\ Faults \subseteq {"crash", "audit", "handler"}
  /\ NoJob \notin JobIds

VARIABLES
  job,      \* the jobs table: status, attempts and createdAt of every row
  clock,    \* the database's now(), ticking once per insert
  worker,   \* where each runPendingJobs is, and the row it holds
  retrier   \* the row each retryJob has read and is about to requeue

vars == <<job, clock, worker, retrier>>

Final   == {"completed", "failed", "requires_review"}
Status  == {"absent", "queued", "processing"} \cup Final
Outcome == {"completed", "requires_review"}

\* Program points of runPendingJobs: between rounds of the loop ("claim"),
\* inside the claim ("flip"), in the handler ("run"), after finish()
\* ("audit"), in the catch block before ("catch") and after ("requeue",
\* "giveup") it re-read the attempts.
Points == {"idle", "claim", "flip", "run", "audit", "catch", "requeue", "giveup"}

\* runJob has the job in hand and may still write its row.
Holding == {"run", "audit", "catch", "requeue", "giveup"}

Claimable(j) == job[j].status = "queued" /\ job[j].attempts < MaxAttempts[j]

Idle == [at |-> "idle", job |-> NoJob, ran |-> 0]

\* The loop of runPendingJobs goes round once more, or reaches its limit.
AfterJob(w) ==
  IF worker[w].ran + 1 < BatchSize
  THEN [at |-> "claim", job |-> NoJob, ran |-> worker[w].ran + 1]
  ELSE Idle

SetStatus(j, s) == job' = [job EXCEPT ![j].status = s]
Goto(w, p)      == worker' = [worker EXCEPT ![w].at = p]

-----------------------------------------------------------------------------

Init ==
  /\ job = [j \in JobIds |-> [status |-> "absent", attempts |-> 0, created |-> 0]]
  /\ clock = 0
  /\ worker = [w \in Workers |-> Idle]
  /\ retrier = [r \in Retriers |-> NoJob]

\* Variant: the inserted status is not one the queue knows.
EnqueueJobPending(j) ==
  /\ job[j].status = "absent"
  /\ job' = [job EXCEPT ![j] = [status |-> "pending", attempts |-> 0, created |-> clock]]
  /\ clock' = clock + 1
  /\ UNCHANGED <<worker, retrier>>

\* enqueueJob: one insert with the column defaults.
EnqueueJob(j) ==
  /\ job[j].status = "absent"
  /\ job' = [job EXCEPT ![j] = [status |-> "queued", attempts |-> 0, created |-> clock]]
  /\ clock' = clock + 1
  /\ UNCHANGED <<worker, retrier>>

\* A scheduler request enters runPendingJobs.
StartRun(w) ==
  /\ worker[w].at = "idle"
  /\ Goto(w, "claim")
  /\ UNCHANGED <<job, clock, retrier>>

\* The claim's sub-select: the oldest row with attempts left.
ClaimPick(w) ==
  /\ worker[w].at = "claim"
  /\ \E j \in JobIds :
       /\ Claimable(j)
       /\ \A k \in JobIds : Claimable(k) => job[j].created <= job[k].created
       /\ worker' = [worker EXCEPT ![w].at = "flip", ![w].job = j]
  /\ UNCHANGED <<job, clock, retrier>>

\* The queue is empty: claimNext returns null and the loop breaks.
ClaimNothing(w) ==
  /\ worker[w].at = "claim"
  /\ \A j \in JobIds : ~Claimable(j)
  /\ worker' = [worker EXCEPT ![w] = Idle]
  /\ UNCHANGED <<job, clock, retrier>>

\* Variants: the UPDATE trusts its sub-select for the status, or altogether.
FlipGuardNoStatus(j) == job[j].attempts < MaxAttempts[j]
FlipGuardNone(j)     == TRUE

\* The row's own WHERE columns, re-checked once the row is locked.
FlipGuard(j) == Claimable(j)

ClaimFlip(w) ==
  LET j == worker[w].job IN
  /\ worker[w].at = "flip"
  /\ FlipGuard(j)
  /\ job' = [job EXCEPT ![j].status = "processing", ![j].attempts = @ + 1]
  /\ Goto(w, "run")
  /\ UNCHANGED <<clock, retrier>>

\* Another worker took the row: no row returned, the loop breaks.
ClaimLost(w) ==
  /\ worker[w].at = "flip"
  /\ ~FlipGuard(worker[w].job)
  /\ worker' = [worker EXCEPT ![w] = Idle]
  /\ UNCHANGED <<job, clock, retrier>>

\* No handler is registered for the type: failed at once, nothing logged.
RunUnhandled(w) ==
  /\ worker[w].at = "run"
  /\ worker[w].job \notin Handled
  /\ SetStatus(worker[w].job, "failed")
  /\ worker' = [worker EXCEPT ![w] = AfterJob(w)]
  /\ UNCHANGED <<clock, retrier>>

\* The handler returned an outcome and finish() stores it.
Finish(w, outcome) ==
  /\ worker[w].at = "run"
  /\ worker[w].job \in Handled
  /\ SetStatus(worker[w].job, outcome)
  /\ Goto(w, "audit")
  /\ UNCHANGED <<clock, retrier>>

\* The handler (or finish itself) threw.
HandlerThrows(w) ==
  /\ "handler" \in Faults
  /\ worker[w].at = "run"
  /\ worker[w].job \in Handled
  /\ Goto(w, "catch")
  /\ UNCHANGED <<job, clock, retrier>>

Audit(w) ==
  /\ worker[w].at = "audit"
  /\ worker' = [worker EXCEPT ![w] = AfterJob(w)]
  /\ UNCHANGED <<job, clock, retrier>>

\* recordAudit is inside the try: its failure is handled as the handler's.
AuditThrows(w) ==
  /\ "audit" \in Faults
  /\ worker[w].at = "audit"
  /\ Goto(w, "catch")
  /\ UNCHANGED <<job, clock, retrier>>

\* Variant: off by one.
ExhaustedPast(j) == job[j].attempts > MaxAttempts[j]

Exhausted(j) == job[j].attempts >= MaxAttempts[j]

\* The catch block re-reads the row and decides.
CatchRead(w) ==
  /\ worker[w].at = "catch"
  /\ Goto(w, IF Exhausted(worker[w].job) THEN "giveup" ELSE "requeue")
  /\ UNCHANGED <<job, clock, retrier>>

\* Requeued, or failed for good.  The audit insert after it is outside any
\* try: when it throws the whole run aborts.
CatchWrite(w) ==
  /\ worker[w].at \in {"requeue", "giveup"}
  /\ SetStatus(worker[w].job, IF worker[w].at = "giveup" THEN "failed" ELSE "queued")
  /\ \/ worker' = [worker EXCEPT ![w] = AfterJob(w)]
     \/ "audit" \in Faults /\ worker' = [worker EXCEPT ![w] = Idle]
  /\ UNCHANGED <<clock, retrier>>

\* The process dies (or a statement of the catch block throws): the run is
\* gone and nothing ever looks for the row it held.
Crash(w) ==
  /\ "crash" \in Faults
  /\ worker[w].at # "idle"
  /\ worker' = [worker EXCEPT ![w] = Idle]
  /\ UNCHANGED <<job, clock, retrier>>

\* Variants: retryJob also lets a stuck job through, or ignores the limit.
RetryGuardStuck(j)   == job[j].status \in {"failed", "processing"} /\ job[j].attempts < MaxAttempts[j]
RetryGuardNoLimit(j) == job[j].status = "failed"

\* retryJob reads the row and its early return lets only a failed job with
\* attempts left through...
RetryGuard(j) == job[j].status = "failed" /\ job[j].attempts < MaxAttempts[j]

RetryRead(r, j) ==
  /\ retrier[r] = NoJob
  /\ RetryGuard(j)
  /\ retrier' = [retrier EXCEPT ![r] = j]
  /\ UNCHANGED <<job, clock, worker>>

\* ... and then updates it by id alone.
RetryWrite(r) ==
  /\ retrier[r] # NoJob
  /\ SetStatus(retrier[r], "queued")
  /\ retrier' = [retrier EXCEPT ![r] = NoJob]
  /\ UNCHANGED <<clock, worker>>

-----------------------------------------------------------------------------

WorkerStep(w) ==
  \/ ClaimPick(w) \/ ClaimNothing(w) \/ ClaimFlip(w) \/ ClaimLost(w)
  \/ RunUnhandled(w) \/ \E o \in Outcome : Finish(w, o)
  \/ HandlerThrows(w) \/ Audit(w) \/ AuditThrows(w)
  \/ CatchRead(w) \/ CatchWrite(w)

Next ==
  \/ \E j \in JobIds : EnqueueJob(j)
  \/ \E w \in Workers : StartRun(w) \/ WorkerStep(w) \/ Crash(w)
  \/ \E r \in Retriers : RetryWrite(r) \/ \E j \in JobIds : RetryRead(r, j)

\* The cron schedule starts runs for ever (docs/DEPLOYMENT.md) and a run that
\* is not killed takes its next step; nobody has to enqueue, retry or fail.
Fairness == \A w \in Workers : WF_vars(StartRun(w)) /\ WF_vars(WorkerStep(w))

Spec     == Init /\ [][Next]_vars
FairSpec == Spec /\ Fairness

-----------------------------------------------------------------------------

JobRow    == [status : Status, attempts : Nat, created : Nat]
WorkerRow == [at : Points, job : JobIds \cup {NoJob}, ran : Nat]

\* Every row and every invocation is of the shape the schema and the code give it.
TypeOK ==
  /\ job \in [JobIds -> JobRow]
  /\ clock \in Nat
  /\ worker \in [Workers -> WorkerRow]
  /\ retrier \in [Retriers -> JobIds \cup {NoJob}]
  /\ \A w \in Workers : worker[w].at \in Holding \cup {"flip"} => worker[w].job \in JobIds

Holds(w, j) == worker[w].at \in Holding /\ worker[w].job = j

\* "Atomic claim: only one worker can flip a queued row to processing": however
\* claims, failures, requeues and retries interleave, no two runs ever have
\* the same job in hand.
SingleOwner ==
  \A j \in JobIds, v, w \in Workers : Holds(v, j) /\ Holds(w, j) => v = w

\* The row of a job in the handler says "processing"; nobody has requeued or
\* settled it behind the handler's back.
RunningIsProcessing ==
  \A w \in Workers : worker[w].at = "run" => job[worker[w].job].status = "processing"

\* No job is started more often than max_attempts allows, by any worker,
\* over all its failures and retries.
AttemptsBounded == \A j \in JobIds : job[j].attempts <= MaxAttempts[j]

\* A queued row can still be claimed.  A row left queued with its attempts
\* used up would wait for ever: the claim skips it and retryJob refuses it.
QueuedIsClaimable == \A j \in JobIds : job[j].status = "queued" => Claimable(j)

\* A job that reached its outcome keeps it; only a failed one with attempts
\* left may be queued again (retryJob).
SettledStays ==
  [][\A j \in JobIds :
       /\ job[j].status \in Outcome => job'[j].status = job[j].status
       /\ job[j].status = "failed" /\ job'[j].status # "failed"
            => job'[j].status = "queued" /\ job[j].attempts < MaxAttempts[j]]_vars

\* Every queued job is eventually settled: completed, for review, or failed
\* after its last attempt.
EveryJobSettles == \A j \in JobIds : job[j].status = "queued" ~> job[j].status \in Final

\* What a row's columns say is so: a queued row can be claimed, the row of a
\* handler at work is being processed, and attempts count up to the limit only.
StatusIsTrue == QueuedIsClaimable /\ RunningIsProcessing /\ AttemptsBounded

=============================================================================
