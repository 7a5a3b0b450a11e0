------------------------------ MODULE MCRetries ------------------------------
(* What is tried again until it ends: the provider's webhook deliveries       *)
(* (Payments) and the scheduler's runs of the queue (Jobs).  The settlement   *)
(* of payments is promised in calm weather only, and what the webhook does    *)
(* by itself in any; so a behaviour has a setting from its start.             *)
EXTENDS MCPayments

CONSTANTS j1, j2, j3, w1, w2,
          JobIds, Workers, Retriers, MaxAttempts, BatchSize, Handled, Faults, NoJob

VARIABLES setting, job, clock, worker, retrier

Queue == INSTANCE Jobs

queueVars == <<job, clock, worker, retrier>>

MCJobIds      == {j1, j2, j3}
MCWorkers     == {w1, w2}
MCMaxAttempts == [j \in JobIds |-> IF j = j1 THEN 1 ELSE 2]
MCHandled     == JobIds \ {j3}

MCInit == setting \in {"calm", "rough", "queue"} /\ Init /\ Queue!Init

\* "calm": a session for each tier, no invocation dies and a reversal follows
\* the handling of its completion.  "rough": one session, and anything goes.
Calm == /\ crashes' = crashes
        /\ \A h \in Handlers :
             handler[h].at = "idle" /\ handler'[h].at = "lookup" => InOrder(Event(h)')

Rough == \A s \in Sessions \ {s1} : session'[s] = "none"

MCNext ==
  /\ UNCHANGED setting
  /\ \/ setting = "calm" /\ Next /\ Calm /\ UNCHANGED queueVars
     \/ setting = "rough" /\ Next /\ Rough /\ UNCHANGED queueVars
     \/ setting = "queue" /\ Queue!Next /\ UNCHANGED vars

\* The scheduler's calls and a run's steps, as in Jobs.
QueueFairness ==
  \A w \in Workers : /\ WF_queueVars(setting = "queue" /\ Queue!StartRun(w))
                     /\ WF_queueVars(setting = "queue" /\ Queue!WorkerStep(w))

MCSpec == MCInit /\ [][MCNext]_<<setting, vars, queueVars>> /\ Fairness /\ QueueFairness

\* Payments.RefundRevokes and Payments.PaidIsEntitled, in calm weather: when all
\* events have been delivered no reversed session leaves its entitlement active,
\* and whoever has paid and was not refunded may use what was bought.
CalmMoneyMatches == setting = "calm" => RefundRevokes /\ PaidIsEntitled

\* What is tried again ends: the provider's deliveries of every event in an
\* acknowledgement, and every queued job, where handlers and audit inserts fail,
\* in an outcome, a review, or the failure of its last attempt.
RetriesEnd == EveryEventAcknowledged /\ Queue!EveryJobSettles

=============================================================================
