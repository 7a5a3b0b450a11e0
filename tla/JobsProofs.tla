----------------------------- MODULE JobsProofs -----------------------------
(***************************************************************************)
(* Proofs about the job queue, for any number of jobs and workers, any     *)
(* attempt limits and any combination of the failures.                     *)
(***************************************************************************)
EXTENDS MCJobsRefinement, TLAPS

\* At most one retryJob call is in flight (two that both read the failed row
\* can requeue a job whose attempts are used up meanwhile).
SingleRetrier == \A q, r \in Retriers : q = r

\* What a run that has a job in hand knows of its row.
HandInv ==
  \A w \in Workers :
    /\ worker[w].at = "run" => job[worker[w].job].status = "processing"
    /\ worker[w].at = "audit" => job[worker[w].job].status \in Outcome
    /\ worker[w].at \in {"catch", "requeue", "giveup"} => job[worker[w].job].status \in {"processing"} \cup Outcome
    /\ worker[w].at = "requeue" => ~Exhausted(worker[w].job)

\* The row a retryJob has read is still as it read it.
RetryInv == \A r \in Retriers : retrier[r] # NoJob => RetryGuard(retrier[r])

\* The inductive invariant.
JobsInv ==
  /\ TypeOK
  /\ SingleOwner
  /\ HandInv
  /\ RetryInv
  /\ AttemptsBounded
  /\ QueuedIsClaimable

-----------------------------------------------------------------------------

\* The shape of the tables survives every statement of every invocation.
LEMMA TypeInit == Init => TypeOK
BY JobsAssumption DEF Init, TypeOK, JobRow, WorkerRow, Status, Points, Idle, Final, Holding

LEMMA AfterJobType ==
  ASSUME TypeOK, NEW w \in Workers
  PROVE  /\ AfterJob(w) \in WorkerRow
         /\ AfterJob(w).at \in {"idle", "claim"}
         /\ AfterJob(w).job = NoJob
BY JobsAssumption DEF AfterJob, Idle, TypeOK, WorkerRow, Points

LEMMA IdleType == Idle \in WorkerRow /\ Idle.at = "idle" /\ Idle.job = NoJob
BY DEF Idle, WorkerRow, Points

LEMMA TypeStep == TypeOK /\ [Next]_vars => TypeOK'
<1> SUFFICES ASSUME TypeOK, [Next]_vars PROVE TypeOK'
  OBVIOUS
<1> USE DEF TypeOK, JobRow, WorkerRow, Status, Final, Outcome, Points, Holding
<1>1. ASSUME NEW j \in JobIds, EnqueueJob(j) PROVE TypeOK'
  BY <1>1 DEF EnqueueJob
<1>2. ASSUME NEW w \in Workers, StartRun(w) PROVE TypeOK'
  BY <1>2 DEF StartRun, Goto
<1>3. ASSUME NEW w \in Workers, WorkerStep(w) PROVE TypeOK'
  <2>1. CASE ClaimPick(w)
    <3>1. PICK j \in JobIds : worker' = [worker EXCEPT ![w].at = "flip", ![w].job = j]
      BY <2>1 DEF ClaimPick
    <3>2. UNCHANGED <<job, clock, retrier>> BY <2>1 DEF ClaimPick
    <3>3. worker' = [worker EXCEPT ![w] = [worker[w] EXCEPT !.at = "flip", !.job = j]] BY <3>1
    <3>4. [worker[w] EXCEPT !.at = "flip", !.job = j] \in WorkerRow OBVIOUS
    <3>5. [worker[w] EXCEPT !.at = "flip", !.job = j].job = j OBVIOUS
    <3> QED BY <3>2, <3>3, <3>4, <3>5
  <2>2. CASE ClaimNothing(w) \/ ClaimLost(w)
    BY <2>2, IdleType DEF ClaimNothing, ClaimLost
  <2>3. CASE ClaimFlip(w)
    BY <2>3 DEF ClaimFlip, Goto
  <2>4. CASE RunUnhandled(w)
    BY <2>4, AfterJobType DEF RunUnhandled, SetStatus
  <2>5. ASSUME NEW o \in Outcome, Finish(w, o) PROVE TypeOK'
    BY <2>5 DEF Finish, SetStatus, Goto
  <2>6. CASE HandlerThrows(w) \/ AuditThrows(w)
    BY <2>6 DEF HandlerThrows, AuditThrows, Goto
  <2>7. CASE Audit(w)
    BY <2>7, AfterJobType DEF Audit
  <2>8. CASE CatchRead(w)
    <3>1. PICK p \in {"giveup", "requeue"} : worker' = [worker EXCEPT ![w].at = p]
      BY <2>8 DEF CatchRead, Goto
    <3> QED BY <2>8, <3>1 DEF CatchRead
  <2>9. CASE CatchWrite(w)
    <3>1. job' \in [JobIds -> JobRow]
      BY <2>9 DEF CatchWrite, SetStatus
    <3>2. CASE worker' = [worker EXCEPT ![w] = AfterJob(w)]
      BY <2>9, <3>1, <3>2, AfterJobType DEF CatchWrite
    <3>3. CASE worker' = [worker EXCEPT ![w] = Idle]
      BY <2>9, <3>1, <3>3, IdleType DEF CatchWrite
    <3> QED BY <2>9, <3>2, <3>3 DEF CatchWrite
  <2> QED BY <1>3, <2>1, <2>2, <2>3, <2>4, <2>5, <2>6, <2>7, <2>8, <2>9 DEF WorkerStep
<1>4. ASSUME NEW w \in Workers, Crash(w) PROVE TypeOK'
  BY <1>4 DEF Crash, Idle
<1>5. ASSUME NEW r \in Retriers, RetryWrite(r) PROVE TypeOK'
  BY <1>5 DEF RetryWrite, SetStatus
<1>6. ASSUME NEW r \in Retriers, NEW j \in JobIds, RetryRead(r, j) PROVE TypeOK'
  BY <1>6 DEF RetryRead
<1>7. CASE UNCHANGED vars
  BY <1>7 DEF vars
<1> QED BY <1>1, <1>2, <1>3, <1>4, <1>5, <1>6, <1>7 DEF Next

\* The tables of the job queue are always well-typed.
THEOREM JobsTypeCorrect == Spec => []TypeOK
BY TypeInit, TypeStep, PTL DEF Spec

-----------------------------------------------------------------------------

LEMMA SafetyInit == Init => JobsInv
<1> SUFFICES ASSUME Init PROVE JobsInv
  OBVIOUS
<1>1. TypeOK
  BY TypeInit
<1>2. \A w \in Workers : worker[w].at = "idle"
  BY DEF Init, Idle
<1>3. \A j \in JobIds : job[j].status = "absent" /\ job[j].attempts = 0
  BY DEF Init
<1>4. SingleOwner /\ HandInv
  BY <1>2 DEF SingleOwner, Holds, Holding, HandInv
<1>5. AttemptsBounded /\ QueuedIsClaimable
  BY <1>3, JobsAssumption DEF AttemptsBounded, QueuedIsClaimable
<1>6. RetryInv
  BY DEF Init, RetryInv
<1> QED BY <1>1, <1>4, <1>5, <1>6 DEF JobsInv

\* A run that holds nothing after its step, and no other run's hands change:
\* exclusivity and what the others know survive when the rows do not change.
LEMMA LetGo ==
  ASSUME JobsInv, TypeOK', NEW w \in Workers, UNCHANGED <<job, retrier>>,
         NEW r, r.at \notin Holding, worker' = [worker EXCEPT ![w] = r]
  PROVE  JobsInv'
<1>1. worker'[w] = r /\ \A v \in Workers \ {w} : worker'[v] = worker[v]
  BY DEF JobsInv, TypeOK
<1>2. SingleOwner' /\ HandInv'
  BY <1>1 DEF JobsInv, SingleOwner, Holds, Holding, HandInv, Exhausted
<1>3. RetryInv' /\ AttemptsBounded' /\ QueuedIsClaimable'
  BY DEF JobsInv, RetryInv, RetryGuard, AttemptsBounded, QueuedIsClaimable, Claimable
<1> QED BY <1>2, <1>3 DEF JobsInv

\* A run that moves on with the job it holds.
LEMMA MoveOn ==
  ASSUME JobsInv, TypeOK', NEW w \in Workers, NEW p \in Holding,
         worker[w].at \in Holding, UNCHANGED <<job, retrier>>, Goto(w, p),
         p # "run",
         p = "audit" => job[worker[w].job].status \in Outcome,
         p = "requeue" => ~Exhausted(worker[w].job)
  PROVE  JobsInv'
<1>1. /\ worker'[w].at = p /\ worker'[w].job = worker[w].job
      /\ \A v \in Workers \ {w} : worker'[v] = worker[v]
  BY DEF JobsInv, TypeOK, WorkerRow, Goto
<1>2. SingleOwner'
  BY <1>1 DEF JobsInv, SingleOwner, Holds
<1>3. HandInv'
  BY <1>1 DEF JobsInv, HandInv, Holding, Exhausted
<1>4. RetryInv' /\ AttemptsBounded' /\ QueuedIsClaimable'
  BY DEF JobsInv, RetryInv, RetryGuard, AttemptsBounded, QueuedIsClaimable, Claimable
<1> QED BY <1>2, <1>3, <1>4 DEF JobsInv

\* The run that holds a job settles its row and lets go of it.
LEMMA SettleRow ==
  ASSUME JobsInv, TypeOK', NEW w \in Workers, worker[w].at \in Holding, UNCHANGED retrier,
         NEW s, SetStatus(worker[w].job, s),
         s = "queued" => ~Exhausted(worker[w].job),
         NEW r, r.at \notin Holding, worker' = [worker EXCEPT ![w] = r]
  PROVE  JobsInv'
<1> DEFINE j == worker[w].job
<1>1. /\ j \in JobIds
      /\ job'[j].status = s /\ job'[j].attempts = job[j].attempts
      /\ \A k \in JobIds \ {j} : job'[k] = job[k]
  BY DEF JobsInv, TypeOK, JobRow, SetStatus
<1>2. worker'[w] = r /\ \A v \in Workers \ {w} : worker'[v] = worker[v]
  BY DEF JobsInv, TypeOK
<1>3. \A v \in Workers \ {w} : worker[v].at \in Holding => worker[v].job \in JobIds \ {j}
  BY <1>1 DEF JobsInv, SingleOwner, Holds, TypeOK
<1>4. SingleOwner'
  BY <1>2 DEF JobsInv, SingleOwner, Holds
<1>5. HandInv'
  BY <1>1, <1>2, <1>3 DEF JobsInv, HandInv, Holding, Exhausted
<1>6. AttemptsBounded' /\ QueuedIsClaimable'
  BY <1>1, JobsAssumption DEF JobsInv, AttemptsBounded, QueuedIsClaimable, Claimable, Exhausted, TypeOK, JobRow
<1>7. job[j].status # "failed"
  BY DEF JobsInv, HandInv, Holding, Outcome
<1>8. RetryInv'
  BY <1>1, <1>7 DEF JobsInv, RetryInv, RetryGuard, TypeOK
<1> QED BY <1>4, <1>5, <1>6, <1>8 DEF JobsInv

LEMMA SafetyStep ==
  ASSUME SingleRetrier PROVE JobsInv /\ [Next]_vars => JobsInv'
<1> SUFFICES ASSUME JobsInv, [Next]_vars PROVE JobsInv'
  OBVIOUS
<1>0. TypeOK /\ TypeOK'
  BY TypeStep DEF JobsInv
<1>1. ASSUME NEW j \in JobIds, EnqueueJob(j) PROVE JobsInv'
  <2>1. /\ job'[j].status = "queued" /\ job'[j].attempts = 0
        /\ \A k \in JobIds \ {j} : job'[k] = job[k]
        /\ job[j].status = "absent"
        /\ UNCHANGED <<worker, retrier>>
    BY <1>0, <1>1 DEF EnqueueJob, TypeOK
  <2>2. \A w \in Workers : worker[w].at \in Holding => worker[w].job \in JobIds \ {j}
    BY <1>0, <2>1 DEF JobsInv, HandInv, Holding, Outcome, TypeOK
  <2>3. SingleOwner' /\ HandInv'
    BY <2>1, <2>2 DEF JobsInv, SingleOwner, Holds, Holding, HandInv, Exhausted
  <2>4. AttemptsBounded' /\ QueuedIsClaimable'
    BY <2>1, JobsAssumption DEF JobsInv, AttemptsBounded, QueuedIsClaimable, Claimable
  <2>5. RetryInv'
    BY <1>0, <2>1 DEF JobsInv, RetryInv, RetryGuard, TypeOK
  <2> QED BY <1>0, <2>3, <2>4, <2>5 DEF JobsInv
<1>2. ASSUME NEW w \in Workers, StartRun(w) PROVE JobsInv'
  <2>1. worker' = [worker EXCEPT ![w] = [worker[w] EXCEPT !.at = "claim"]]
    BY <1>0, <1>2 DEF StartRun, Goto
  <2>2. [worker[w] EXCEPT !.at = "claim"].at \notin Holding
    BY <1>0 DEF TypeOK, WorkerRow, Holding
  <2> QED BY <1>0, <1>2, <2>1, <2>2, LetGo DEF StartRun
<1>3. ASSUME NEW w \in Workers, WorkerStep(w) PROVE JobsInv'
  <2>1. CASE ClaimPick(w)
    <3>1. PICK j \in JobIds : worker' = [worker EXCEPT ![w].at = "flip", ![w].job = j]
      BY <2>1 DEF ClaimPick
    <3>2. worker' = [worker EXCEPT ![w] = [worker[w] EXCEPT !.at = "flip", !.job = j]]
      BY <1>0, <3>1 DEF TypeOK
    <3>3. [worker[w] EXCEPT !.at = "flip", !.job = j].at \notin Holding
      BY <1>0 DEF TypeOK, WorkerRow, Holding
    <3> QED BY <1>0, <2>1, <3>2, <3>3, LetGo DEF ClaimPick
  <2>2. CASE ClaimNothing(w) \/ ClaimLost(w)
    BY <1>0, <2>2, IdleType, LetGo DEF ClaimNothing, ClaimLost, Holding
  <2>3. CASE ClaimFlip(w)
    <3> DEFINE j == worker[w].job
    <3>1. /\ j \in JobIds
          /\ Claimable(j)
          /\ job'[j].status = "processing" /\ job'[j].attempts = job[j].attempts + 1
          /\ \A k \in JobIds \ {j} : job'[k] = job[k]
          /\ worker'[w].at = "run" /\ worker'[w].job = j
          /\ \A v \in Workers \ {w} : worker'[v] = worker[v]
          /\ UNCHANGED retrier
      BY <1>0, <2>3 DEF ClaimFlip, FlipGuard, Goto, TypeOK, JobRow, WorkerRow
    <3>2. \A v \in Workers : worker[v].at \in Holding => worker[v].job \in JobIds \ {j}
      BY <1>0, <3>1 DEF JobsInv, HandInv, Holding, Outcome, Claimable, TypeOK
    <3>3. SingleOwner'
      BY <3>1, <3>2 DEF JobsInv, SingleOwner, Holds
    <3>4. HandInv'
      BY <3>1, <3>2 DEF JobsInv, HandInv, Holding, Exhausted
    <3>5. AttemptsBounded'
      <4>1. job[j].attempts + 1 <= MaxAttempts[j]
        BY <1>0, <3>1, JobsAssumption DEF Claimable, TypeOK, JobRow
      <4> QED BY <3>1, <4>1 DEF JobsInv, AttemptsBounded
    <3>7. QueuedIsClaimable'
      BY <3>1 DEF JobsInv, QueuedIsClaimable, Claimable
    <3>6. RetryInv'
      BY <1>0, <3>1 DEF JobsInv, RetryInv, RetryGuard, Claimable, TypeOK
    <3> QED BY <1>0, <3>3, <3>4, <3>5, <3>6, <3>7 DEF JobsInv
  <2>4. CASE RunUnhandled(w)
    BY <1>0, <2>4, AfterJobType, SettleRow DEF RunUnhandled, Holding
  <2>5. ASSUME NEW o \in Outcome, Finish(w, o) PROVE JobsInv'
    <3> DEFINE j == worker[w].job
    <3>1. /\ j \in JobIds
          /\ job'[j].status = o /\ job'[j].attempts = job[j].attempts
          /\ \A k \in JobIds \ {j} : job'[k] = job[k]
          /\ worker'[w].at = "audit" /\ worker'[w].job = j
          /\ \A v \in Workers \ {w} : worker'[v] = worker[v]
          /\ job[j].status = "processing"
          /\ UNCHANGED retrier
      BY <1>0, <2>5 DEF Finish, SetStatus, Goto, TypeOK, JobRow, WorkerRow, JobsInv, HandInv, Holding
    <3>2. \A v \in Workers \ {w} : worker[v].at \in Holding => worker[v].job \in JobIds \ {j}
      BY <1>0, <2>5, <3>1 DEF JobsInv, SingleOwner, Holds, Finish, Holding, TypeOK
    <3>3. SingleOwner'
      BY <2>5, <3>1 DEF JobsInv, SingleOwner, Holds, Finish, Holding
    <3>4. HandInv'
      BY <3>1, <3>2 DEF JobsInv, HandInv, Holding, Exhausted
    <3>5. AttemptsBounded' /\ QueuedIsClaimable'
      BY <3>1 DEF JobsInv, AttemptsBounded, QueuedIsClaimable, Claimable, Outcome
    <3>6. RetryInv'
      BY <1>0, <3>1 DEF JobsInv, RetryInv, RetryGuard, TypeOK
    <3> QED BY <1>0, <3>3, <3>4, <3>5, <3>6 DEF JobsInv
  <2>6. CASE HandlerThrows(w) \/ AuditThrows(w)
    BY <1>0, <2>6, MoveOn DEF HandlerThrows, AuditThrows, Holding
  <2>7. CASE Audit(w)
    BY <1>0, <2>7, AfterJobType, LetGo DEF Audit, Holding
  <2>8. CASE CatchRead(w)
    BY <1>0, <2>8, MoveOn DEF CatchRead, Holding
  <2>9. CASE CatchWrite(w)
    <3>1. PICK r : worker' = [worker EXCEPT ![w] = r] /\ r.at \notin Holding
      BY <1>0, <2>9, AfterJobType, IdleType DEF CatchWrite, Holding
    <3>2. worker[w].at = "requeue" => ~Exhausted(worker[w].job)
      BY DEF JobsInv, HandInv
    <3>3. worker[w].at \in Holding
      BY <2>9 DEF CatchWrite, Holding
    <3> DEFINE s == IF worker[w].at = "giveup" THEN "failed" ELSE "queued"
    <3>4. SetStatus(worker[w].job, s) /\ UNCHANGED retrier /\ (s = "queued" => ~Exhausted(worker[w].job))
      BY <2>9, <3>2 DEF CatchWrite
    <3> HIDE DEF s
    <3> QED BY <1>0, <3>1, <3>3, <3>4, SettleRow
  <2> QED BY <1>3, <2>1, <2>2, <2>3, <2>4, <2>5, <2>6, <2>7, <2>8, <2>9 DEF WorkerStep
<1>4. ASSUME NEW w \in Workers, Crash(w) PROVE JobsInv'
  BY <1>0, <1>4, IdleType, LetGo DEF Crash, Holding
<1>5. ASSUME NEW r \in Retriers, RetryWrite(r) PROVE JobsInv'
  <2> DEFINE j == retrier[r]
  <2>1. /\ j \in JobIds /\ RetryGuard(j)
        /\ job'[j].status = "queued" /\ job'[j].attempts = job[j].attempts
        /\ \A k \in JobIds \ {j} : job'[k] = job[k]
        /\ UNCHANGED worker
    BY <1>0, <1>5 DEF RetryWrite, SetStatus, JobsInv, RetryInv, TypeOK, JobRow
  <2>2. \A w \in Workers : worker[w].at \in Holding => worker[w].job \in JobIds \ {j}
    BY <1>0, <2>1 DEF JobsInv, HandInv, Holding, Outcome, RetryGuard, TypeOK
  <2>3. SingleOwner' /\ HandInv'
    BY <2>1, <2>2 DEF JobsInv, SingleOwner, Holds, Holding, HandInv, Exhausted
  <2>4. AttemptsBounded' /\ QueuedIsClaimable'
    BY <2>1 DEF JobsInv, AttemptsBounded, QueuedIsClaimable, Claimable, RetryGuard
  <2>5. RetryInv'
    BY <1>0, <1>5, SingleRetrier DEF SingleRetrier, RetryWrite, RetryInv, TypeOK
  <2> QED BY <1>0, <2>3, <2>4, <2>5 DEF JobsInv
<1>6. ASSUME NEW r \in Retriers, NEW j \in JobIds, RetryRead(r, j) PROVE JobsInv'
  <2>1. UNCHANGED <<job, worker>>
    BY <1>6 DEF RetryRead
  <2>2. SingleOwner' /\ HandInv' /\ AttemptsBounded' /\ QueuedIsClaimable'
    BY <2>1 DEF JobsInv, SingleOwner, Holds, HandInv, Exhausted, AttemptsBounded, QueuedIsClaimable, Claimable
  <2>3. RetryInv'
    BY <1>0, <1>6 DEF JobsInv, RetryInv, RetryRead, RetryGuard, TypeOK
  <2> QED BY <1>0, <2>2, <2>3 DEF JobsInv
<1>7. CASE UNCHANGED vars
  BY <1>0, <1>7 DEF vars, JobsInv, SingleOwner, Holds, HandInv, Exhausted, RetryInv, RetryGuard,
     AttemptsBounded, QueuedIsClaimable, Claimable
<1> QED BY <1>1, <1>2, <1>3, <1>4, <1>5, <1>6, <1>7 DEF Next

\* The invariant holds of every reachable state.
LEMMA JobsInvariant == ASSUME SingleRetrier PROVE Spec => []JobsInv
BY SafetyInit, SafetyStep, PTL DEF Spec

\* No two runs ever have the same job in hand, whatever fails.
THEOREM NoSharedJob == ASSUME SingleRetrier PROVE Spec => []SingleOwner
<1>1. JobsInv => SingleOwner
  BY DEF JobsInv
<1> QED BY <1>1, JobsInvariant, PTL

\* A step starts a job only while attempts are left, and a new row has none used.
LEMMA AttemptStep == TypeOK /\ AttemptsBounded /\ [Next]_vars => AttemptsBounded'
<1> SUFFICES ASSUME TypeOK, AttemptsBounded, [Next]_vars, NEW j \in JobIds
             PROVE  job'[j].attempts <= MaxAttempts[j]
  BY DEF AttemptsBounded
<1>1. /\ job[j] \in JobRow /\ MaxAttempts[j] \in Nat \ {0}
      /\ job[j].attempts \in Nat /\ job[j].attempts <= MaxAttempts[j]
  BY JobsAssumption DEF TypeOK, JobRow, AttemptsBounded
<1>2. ASSUME NEW k, NEW s, SetStatus(k, s) PROVE job'[j].attempts = job[j].attempts
  BY <1>1, <1>2 DEF SetStatus, TypeOK, JobRow
<1>3. ASSUME NEW k \in JobIds, EnqueueJob(k) PROVE job'[j].attempts <= MaxAttempts[j]
  BY <1>1, <1>3 DEF EnqueueJob, TypeOK
<1>4. ASSUME NEW w \in Workers, ClaimFlip(w) PROVE job'[j].attempts <= MaxAttempts[j]
  BY <1>1, <1>4 DEF ClaimFlip, FlipGuard, Claimable, TypeOK, JobRow
<1>5. ASSUME NEW w \in Workers, StartRun(w) \/ WorkerStep(w) \/ Crash(w), ~ClaimFlip(w)
      PROVE  UNCHANGED job \/ \E k, s : SetStatus(k, s)
  <2>1. CASE CatchWrite(w) \/ RunUnhandled(w)
    BY <2>1 DEF CatchWrite, RunUnhandled
  <2>2. CASE \E o \in Outcome : Finish(w, o)
    BY <2>2 DEF Finish
  <2>3. CASE UNCHANGED job
    BY <2>3
  <2> QED
    BY <1>5, <2>1, <2>2, <2>3
    DEF WorkerStep, StartRun, Crash, ClaimPick, ClaimNothing, ClaimLost, HandlerThrows, Audit,
        AuditThrows, CatchRead
<1>6. ASSUME NEW r \in Retriers, RetryWrite(r) \/ \E k \in JobIds : RetryRead(r, k)
      PROVE  UNCHANGED job \/ \E k, s : SetStatus(k, s)
  BY <1>6 DEF RetryWrite, RetryRead
<1>7. CASE UNCHANGED vars
  BY <1>1, <1>7 DEF vars
<1> QED BY <1>1, <1>2, <1>3, <1>4, <1>5, <1>6, <1>7 DEF Next

\* No job is started more often than its max_attempts, however many retryJob
\* calls cross.
THEOREM AttemptLimit == Spec => []AttemptsBounded
<1>1. ASSUME Init, NEW j \in JobIds PROVE job[j].attempts <= MaxAttempts[j]
  <2>1. job[j].attempts = 0 /\ MaxAttempts[j] \in Nat
    BY <1>1, JobsAssumption DEF Init
  <2> QED BY <2>1
<1>2. Init => AttemptsBounded
  BY <1>1 DEF AttemptsBounded
<1> QED BY <1>2, TypeInit, TypeStep, AttemptStep, PTL DEF Spec

\* The row of a job in the handler says so: nothing requeues or settles it meanwhile.
THEOREM HandlerOwnsRow == ASSUME SingleRetrier PROVE Spec => []RunningIsProcessing
<1>1. JobsInv => RunningIsProcessing
  BY DEF JobsInv, HandInv, RunningIsProcessing
<1> QED BY <1>1, JobsInvariant, PTL

\* A queued job is never beyond the claim's reach.
THEOREM NoDeadRow == ASSUME SingleRetrier PROVE Spec => []QueuedIsClaimable
<1>1. JobsInv => QueuedIsClaimable
  BY DEF JobsInv
<1> QED BY <1>1, JobsInvariant, PTL

-----------------------------------------------------------------------------

\* The refinement: every statement is a step of the ledger or leaves it alone.

LEMMA LedgerInit == Init => Ledger!Init
<1> SUFFICES ASSUME Init PROVE Ledger!Init
  OBVIOUS
<1>1. InHand = {}
  BY DEF Init, Idle, InHand
<1>2. /\ [j \in JobIds |-> job[j].status] = [j \in JobIds |-> "absent"]
      /\ [j \in JobIds |-> job[j].attempts] = [j \in JobIds |-> 0]
  BY DEF Init
<1> QED BY <1>1, <1>2 DEF Ledger!Init

\* What the ledger sees of a step that leaves the rows alone.
LEMMA RowsKept ==
  UNCHANGED job =>
    /\ [j \in JobIds |-> job[j].status]' = [j \in JobIds |-> job[j].status]
    /\ [j \in JobIds |-> job[j].attempts]' = [j \in JobIds |-> job[j].attempts]
OBVIOUS

\* What the ledger sees of a step that rewrites one row's status.
LEMMA StatusSet ==
  ASSUME TypeOK, NEW j \in JobIds, NEW s, SetStatus(j, s)
  PROVE  /\ [k \in JobIds |-> job[k].status]' = [[k \in JobIds |-> job[k].status] EXCEPT ![j] = s]
         /\ [k \in JobIds |-> job[k].attempts]' = [k \in JobIds |-> job[k].attempts]
BY DEF SetStatus, TypeOK, JobRow

\* Points at which a run holds its job in the ledger's sense.
Working == {"run", "catch", "requeue", "giveup"}

\* A step of one run changes the pairs in hand at that run only.
LEMMA HandsDrop ==
  ASSUME TypeOK, NEW w \in Workers, NEW r, r.at \notin Working,
         worker' = [worker EXCEPT ![w] = r]
  PROVE  InHand' = {p \in InHand : p[1] # w}
BY DEF InHand, TypeOK, Working

LEMMA HandsAlone ==
  ASSUME TypeOK, NEW w \in Workers, worker[w].at \in Working, worker[w].job \in JobIds
  PROVE  /\ <<w, worker[w].job>> \in InHand
         /\ {p \in InHand : p[1] # w} = InHand \ {<<w, worker[w].job>>}
BY DEF InHand, TypeOK, Working

LEMMA HandsNot ==
  ASSUME TypeOK, NEW w \in Workers, worker[w].at \notin Working
  PROVE  {p \in InHand : p[1] # w} = InHand
BY DEF InHand, TypeOK, Working

LEMMA HandsKept ==
  ASSUME TypeOK, NEW w \in Workers, worker[w].at \in Working, NEW p \in Working, Goto(w, p)
  PROVE  InHand' = InHand
BY DEF InHand, TypeOK, WorkerRow, Goto, Working

\* Where the audit insert after an outcome succeeds the catch block is only
\* entered by the handler's failure, so a run that is still working finds its
\* row "processing".
WorkingInv == \A w \in Workers : worker[w].at \in Working => job[worker[w].job].status = "processing"

LEMMA NoAuditThrows ==
  ASSUME TypeOK, [MCNext]_vars, NEW w \in Workers, AuditThrows(w)
  PROVE  FALSE
<1>1. worker[w].at = "audit" /\ worker'[w].at = "catch"
  BY DEF AuditThrows, Goto, TypeOK, WorkerRow
<1> QED BY <1>1 DEF MCNext, OutcomesAreAudited, vars

LEMMA WorkingStep == JobsInv /\ WorkingInv /\ [MCNext]_vars => WorkingInv'
<1> SUFFICES ASSUME JobsInv, WorkingInv, [MCNext]_vars PROVE WorkingInv'
  OBVIOUS
<1> USE DEF WorkingInv, Working
<1>0. TypeOK
  BY DEF JobsInv
\* A step of w that leaves the other runs alone and no working run at w.
<1>a. ASSUME NEW w \in Workers, NEW r, worker' = [worker EXCEPT ![w] = r], r.at \notin Working,
             \A v \in Workers \ {w} : worker[v].at \in Working =>
                job'[worker[v].job].status = job[worker[v].job].status
      PROVE  WorkingInv'
  <2>1. worker'[w] = r /\ \A v \in Workers \ {w} : worker'[v] = worker[v]
    BY <1>0, <1>a DEF TypeOK
  <2> QED BY <1>a, <2>1
<1>b. ASSUME NEW w \in Workers, worker[w].at \in Holding, NEW s, SetStatus(worker[w].job, s)
      PROVE  \A v \in Workers \ {w} : worker[v].at \in Working =>
                job'[worker[v].job].status = job[worker[v].job].status
  BY <1>0, <1>b DEF JobsInv, SingleOwner, Holds, Holding, SetStatus, TypeOK
<1>1. ASSUME NEW j \in JobIds, EnqueueJob(j) PROVE WorkingInv'
  BY <1>0, <1>1 DEF EnqueueJob, TypeOK, Holding
<1>2. ASSUME NEW w \in Workers, StartRun(w) PROVE WorkingInv'
  BY <1>0, <1>2 DEF StartRun, Goto, TypeOK, WorkerRow
<1>3. ASSUME NEW w \in Workers, WorkerStep(w) PROVE WorkingInv'
  <2>1. CASE ClaimPick(w)
    BY <1>0, <2>1 DEF ClaimPick, TypeOK, WorkerRow
  <2>2. CASE ClaimNothing(w) \/ ClaimLost(w)
    BY <1>0, <2>2, <1>a, IdleType DEF ClaimNothing, ClaimLost
  <2>3. CASE ClaimFlip(w)
    BY <1>0, <2>3 DEF ClaimFlip, Goto, TypeOK, WorkerRow, JobRow
  <2>4. CASE RunUnhandled(w)
    BY <1>0, <2>4, <1>a, <1>b, AfterJobType DEF RunUnhandled, Holding
  <2>5. ASSUME NEW o \in Outcome, Finish(w, o) PROVE WorkingInv'
    <3>1. worker' = [worker EXCEPT ![w] = [worker[w] EXCEPT !.at = "audit"]]
      BY <1>0, <2>5 DEF Finish, Goto
    <3>2. [worker[w] EXCEPT !.at = "audit"].at \notin Working
      BY <1>0 DEF TypeOK, WorkerRow
    <3>3. worker[w].at \in Holding /\ SetStatus(worker[w].job, o)
      BY <2>5 DEF Finish, Holding
    <3> QED BY <3>1, <3>2, <3>3, <1>a, <1>b
  <2>6. CASE HandlerThrows(w)
    BY <1>0, <2>6 DEF HandlerThrows, Goto, TypeOK, WorkerRow
  <2>10. CASE AuditThrows(w)
    BY <1>0, <1>3, <2>10, NoAuditThrows
  <2>7. CASE Audit(w)
    BY <1>0, <2>7, <1>a, AfterJobType DEF Audit
  <2>8. CASE CatchRead(w)
    BY <1>0, <2>8 DEF CatchRead, Goto, TypeOK, WorkerRow
  <2>9. CASE CatchWrite(w)
    <3>1. PICK r : worker' = [worker EXCEPT ![w] = r] /\ r.at \notin Working
      BY <1>0, <2>9, AfterJobType, IdleType DEF CatchWrite
    <3>2. worker[w].at \in Holding
      BY <2>9 DEF CatchWrite, Holding
    <3>3. \E s : SetStatus(worker[w].job, s)
      BY <2>9 DEF CatchWrite
    <3> QED BY <3>1, <3>2, <3>3, <1>a, <1>b
  <2> QED BY <1>3, <2>1, <2>2, <2>3, <2>4, <2>5, <2>6, <2>7, <2>8, <2>9, <2>10 DEF WorkerStep
<1>4. ASSUME NEW w \in Workers, Crash(w) PROVE WorkingInv'
  BY <1>0, <1>4, <1>a, IdleType DEF Crash
<1>5. ASSUME NEW r \in Retriers, RetryWrite(r) PROVE WorkingInv'
  BY <1>0, <1>5 DEF RetryWrite, SetStatus, JobsInv, RetryInv, RetryGuard, TypeOK, Holding
<1>6. ASSUME NEW r \in Retriers, NEW j \in JobIds, RetryRead(r, j) PROVE WorkingInv'
  BY <1>6 DEF RetryRead
<1>7. CASE UNCHANGED vars
  BY <1>7 DEF vars
<1> QED BY <1>1, <1>2, <1>3, <1>4, <1>5, <1>6, <1>7 DEF MCNext, Next

\* The ledger's actions, one by one, are its steps.
LEMMA LedgerActions ==
  ASSUME NEW j \in JobIds
  PROVE  /\ Ledger!Submit(j) => Ledger!Next
         /\ Ledger!Resubmit(j) => Ledger!Next
         /\ \A w \in Workers : Ledger!Take(w, j) => Ledger!Next
         /\ \A w \in Workers : Ledger!Abandon(w, j) => Ledger!Next
         /\ \A w \in Workers, s \in {"completed", "requires_review", "failed", "queued"} :
              Ledger!Settle(w, j, s) => Ledger!Next
BY Zenon DEF Ledger!Next

LEMMA LedgerStep ==
  JobsInv /\ WorkingInv /\ [MCNext]_vars => [Ledger!Next]_(Ledger!vars)
<1> SUFFICES ASSUME JobsInv, WorkingInv, [MCNext]_vars
             PROVE  Ledger!Next \/ UNCHANGED Ledger!vars
  BY DEF Ledger!vars
<1>0. TypeOK
  BY DEF JobsInv
<1>1. ASSUME NEW j \in JobIds, EnqueueJob(j) PROVE Ledger!Submit(j)
  <2>1. InHand' = InHand
    BY <1>1 DEF EnqueueJob, InHand
  <2>2. [k \in JobIds |-> job[k].status]' = [[k \in JobIds |-> job[k].status] EXCEPT ![j] = "queued"]
    BY <1>0, <1>1 DEF EnqueueJob, TypeOK, JobRow
  <2>3. [k \in JobIds |-> job[k].attempts]' = [[k \in JobIds |-> job[k].attempts] EXCEPT ![j] = 0]
    BY <1>0, <1>1 DEF EnqueueJob, TypeOK, JobRow
  <2> QED BY <1>1, <2>1, <2>2, <2>3 DEF EnqueueJob, Ledger!Submit
\* A run that was not working and is not working after its step.
<1>a. ASSUME NEW w \in Workers, worker[w].at \notin Working, UNCHANGED job,
             NEW r, r.at \notin Working, worker' = [worker EXCEPT ![w] = r]
      PROVE  UNCHANGED Ledger!vars
  BY <1>0, <1>a, HandsDrop, HandsNot, RowsKept DEF Ledger!vars
\* A working run that settles its row and lets go.
<1>b. ASSUME NEW w \in Workers, worker[w].at \in Working,
             NEW s \in {"completed", "requires_review", "failed", "queued"},
             SetStatus(worker[w].job, s), s = "queued" => ~Exhausted(worker[w].job),
             NEW r, r.at \notin Working, worker' = [worker EXCEPT ![w] = r],
             NEW j \in JobIds, j = worker[w].job
      PROVE  Ledger!Settle(w, j, s)
  <2>1. worker[w].job \in JobIds
    BY <1>0, <1>b DEF TypeOK, Working, Holding
  <2>2. job[worker[w].job].status = "processing"
    BY <1>b DEF WorkingInv
  <2>3. s = "queued" => job[worker[w].job].attempts < MaxAttempts[worker[w].job]
    BY <1>0, <1>b, <2>1, JobsAssumption DEF Exhausted, TypeOK, JobRow
  <2> QED BY <1>0, <1>b, <2>1, <2>2, <2>3, HandsDrop, HandsAlone, StatusSet DEF Ledger!Settle
<1>2. ASSUME NEW w \in Workers, StartRun(w) PROVE UNCHANGED Ledger!vars
  <2>1. /\ worker[w].at \notin Working /\ [worker[w] EXCEPT !.at = "claim"].at \notin Working
        /\ worker' = [worker EXCEPT ![w] = [worker[w] EXCEPT !.at = "claim"]]
    BY <1>0, <1>2 DEF StartRun, Goto, TypeOK, WorkerRow, Working
  <2> QED BY <1>2, <2>1, <1>a DEF StartRun
<1>3. ASSUME NEW w \in Workers, WorkerStep(w) PROVE Ledger!Next \/ UNCHANGED Ledger!vars
  <2>1. CASE ClaimPick(w)
    <3>1. PICK j \in JobIds : worker' = [worker EXCEPT ![w].at = "flip", ![w].job = j]
      BY <2>1 DEF ClaimPick
    <3>2. /\ worker' = [worker EXCEPT ![w] = [worker[w] EXCEPT !.at = "flip", !.job = j]]
          /\ [worker[w] EXCEPT !.at = "flip", !.job = j].at \notin Working
      BY <1>0, <3>1 DEF TypeOK, WorkerRow, Working
    <3> QED BY <2>1, <3>2, <1>a DEF ClaimPick, Working
  <2>2. CASE ClaimNothing(w) \/ ClaimLost(w)
    BY <2>2, <1>a, IdleType DEF ClaimNothing, ClaimLost, Working
  <2>3. CASE ClaimFlip(w)
    <3>1. PICK j \in JobIds : j = worker[w].job /\ Claimable(j)
      BY <1>0, <2>3 DEF ClaimFlip, FlipGuard, TypeOK
    <3>2. \A p \in InHand : p[1] # w /\ p[2] # j
      BY <2>3, <3>1 DEF InHand, WorkingInv, Working, ClaimFlip, Claimable
    <3>3. InHand' = InHand \cup {<<w, j>>}
      BY <1>0, <2>3, <3>1 DEF InHand, ClaimFlip, Goto, TypeOK, WorkerRow
    <3>4. Ledger!Take(w, j)
      BY <1>0, <2>3, <3>1, <3>2, <3>3 DEF Ledger!Take, ClaimFlip, Claimable, TypeOK, JobRow
    <3> QED BY <3>1, <3>4, LedgerActions
  <2>4. CASE RunUnhandled(w)
    <3>1. PICK j \in JobIds : j = worker[w].job
      BY <1>0, <2>4 DEF RunUnhandled, TypeOK, Holding
    <3>2. Ledger!Settle(w, j, "failed")
      BY <1>0, <2>4, <3>1, <1>b, AfterJobType DEF RunUnhandled, Working
    <3> QED BY <3>2, LedgerActions
  <2>5. ASSUME NEW o \in Outcome, Finish(w, o) PROVE Ledger!Next
    <3>1. /\ worker' = [worker EXCEPT ![w] = [worker[w] EXCEPT !.at = "audit"]]
          /\ [worker[w] EXCEPT !.at = "audit"].at \notin Working
      BY <1>0, <2>5 DEF Finish, Goto, TypeOK, WorkerRow, Working
    <3>2. PICK j \in JobIds : j = worker[w].job
      BY <1>0, <2>5 DEF Finish, TypeOK, Holding
    <3>3. Ledger!Settle(w, j, o)
      BY <2>5, <3>1, <3>2, <1>b DEF Finish, Outcome, Working
    <3> QED BY <3>3, LedgerActions DEF Outcome
  <2>6. CASE HandlerThrows(w) \/ CatchRead(w)
    <3>1. UNCHANGED job /\ InHand' = InHand
      BY <1>0, <2>6, HandsKept DEF HandlerThrows, CatchRead, Working
    <3> QED BY <3>1, RowsKept DEF Ledger!vars
  <2>7. CASE Audit(w)
    BY <1>0, <2>7, <1>a, AfterJobType DEF Audit, Working
  <2>8. CASE AuditThrows(w)
    BY <1>0, <2>8, NoAuditThrows
  <2>9. CASE CatchWrite(w)
    <3>1. PICK r : worker' = [worker EXCEPT ![w] = r] /\ r.at \notin Working
      BY <1>0, <2>9, AfterJobType, IdleType DEF CatchWrite, Working
    <3>2. worker[w].at \in Working
      BY <2>9 DEF CatchWrite, Working
    <3>3. PICK j \in JobIds : j = worker[w].job
      BY <1>0, <3>2 DEF TypeOK, Working, Holding
    <3>4. CASE worker[w].at = "giveup"
      <4>1. SetStatus(worker[w].job, "failed")
        BY <2>9, <3>4 DEF CatchWrite
      <4>2. Ledger!Settle(w, j, "failed")
        BY <3>1, <3>2, <3>3, <4>1, <1>b
      <4> QED BY <4>2, LedgerActions
    <3>5. CASE worker[w].at = "requeue"
      <4>1. SetStatus(worker[w].job, "queued") /\ ~Exhausted(worker[w].job)
        BY <2>9, <3>5 DEF CatchWrite, JobsInv, HandInv
      <4>2. Ledger!Settle(w, j, "queued")
        BY <3>1, <3>2, <3>3, <4>1, <1>b
      <4> QED BY <4>2, LedgerActions
    <3> QED BY <2>9, <3>4, <3>5 DEF CatchWrite
  <2> QED BY <1>3, <2>1, <2>2, <2>3, <2>4, <2>5, <2>6, <2>7, <2>8, <2>9 DEF WorkerStep
<1>4. ASSUME NEW w \in Workers, Crash(w) PROVE Ledger!Next \/ UNCHANGED Ledger!vars
  <2>1. CASE worker[w].at \notin Working
    BY <1>4, <2>1, <1>a, IdleType DEF Crash, Working
  <2>2. CASE worker[w].at \in Working
    <3>1. PICK j \in JobIds : j = worker[w].job
      BY <1>0, <2>2 DEF TypeOK, Working, Holding
    <3>2. InHand' = InHand \ {<<w, j>>} /\ <<w, j>> \in InHand
      BY <1>0, <1>4, <2>2, <3>1, HandsDrop, HandsAlone, IdleType DEF Crash, Working
    <3>3. Ledger!Abandon(w, j)
      BY <1>4, <3>2, RowsKept DEF Crash, Ledger!Abandon
    <3> QED BY <3>3, LedgerActions
  <2> QED BY <2>1, <2>2
<1>5. ASSUME NEW r \in Retriers, RetryWrite(r) PROVE Ledger!Next
  <2>1. PICK j \in JobIds : j = retrier[r] /\ RetryGuard(j)
    BY <1>0, <1>5 DEF RetryWrite, JobsInv, RetryInv, TypeOK
  <2>2. InHand' = InHand
    BY <1>5 DEF RetryWrite, InHand
  <2>3. Ledger!Resubmit(j)
    BY <1>0, <1>5, <2>1, <2>2, StatusSet DEF RetryWrite, RetryGuard, Ledger!Resubmit
  <2> QED BY <2>1, <2>3, LedgerActions
<1>6. ASSUME NEW r \in Retriers, NEW j \in JobIds, RetryRead(r, j) PROVE UNCHANGED Ledger!vars
  BY <1>6, RowsKept DEF RetryRead, Ledger!vars, InHand
<1>7. CASE UNCHANGED vars
  BY <1>7, RowsKept DEF vars, Ledger!vars, InHand
<1> QED BY <1>1, <1>2, <1>3, <1>4, <1>5, <1>6, <1>7, LedgerActions DEF MCNext, Next

\* With at most one retryJob in flight, and where the audit insert after an
\* outcome succeeds, the queue's statements implement the ledger: exclusive,
\* bounded, final.
THEOREM JobsImplementLedger ==
  ASSUME SingleRetrier PROVE MCSpec => ImplementsLedger
<1>1. Init => WorkingInv
  BY DEF Init, Idle, WorkingInv, Working
<1>2. [MCNext]_vars => [Next]_vars
  BY DEF MCNext
<1> QED BY <1>1, <1>2, SafetyInit, SafetyStep, WorkingStep, LedgerInit, LedgerStep, PTL
        DEF MCSpec, ImplementsLedger, Ledger!Spec

\* The ledger never moves a settled job, except to resubmit a failed one.
LEMMA LedgerSettled ==
  ASSUME [Ledger!Next]_(Ledger!vars), NEW j \in JobIds
  PROVE  /\ job[j].status \in Outcome => job'[j].status = job[j].status
         /\ job[j].status = "failed" /\ job'[j].status # "failed"
              => job'[j].status = "queued" /\ job[j].attempts < MaxAttempts[j]
<1> DEFINE ph == [k \in JobIds |-> job[k].status]
           tk == [k \in JobIds |-> job[k].attempts]
<1>1. /\ ph[j] = job[j].status /\ ph'[j] = job'[j].status
      /\ tk[j] = job[j].attempts
  OBVIOUS
<1>2. \/ ph'[j] = ph[j]
      \/ ph[j] \in {"absent", "queued", "processing"}
      \/ ph[j] = "failed" /\ ph'[j] = "queued" /\ tk[j] < MaxAttempts[j]
  <2>1. CASE UNCHANGED Ledger!vars
    BY <2>1 DEF Ledger!vars
  <2>2. CASE Ledger!Next
    <3>1. PICK k \in JobIds :
            \/ Ledger!Submit(k) \/ Ledger!Resubmit(k)
            \/ \E w \in Workers :
                 \/ Ledger!Take(w, k) \/ Ledger!Abandon(w, k)
                 \/ \E s \in {"completed", "requires_review", "failed", "queued"} : Ledger!Settle(w, k, s)
      BY <2>2 DEF Ledger!Next
    <3>2. CASE Ledger!Submit(k) \/ Ledger!Resubmit(k)
      BY <3>2 DEF Ledger!Submit, Ledger!Resubmit
    <3>3. ASSUME NEW w \in Workers, Ledger!Take(w, k) \/ Ledger!Abandon(w, k) PROVE <1>2!1 \/ <1>2!2 \/ <1>2!3
      BY <3>3 DEF Ledger!Take, Ledger!Abandon
    <3>4. ASSUME NEW w \in Workers, NEW s, Ledger!Settle(w, k, s) PROVE <1>2!1 \/ <1>2!2 \/ <1>2!3
      BY <3>4 DEF Ledger!Settle
    <3> QED BY <3>1, <3>2, <3>3, <3>4
  <2> QED BY <2>1, <2>2
<1> HIDE DEF ph, tk
<1> QED BY <1>1, <1>2 DEF Outcome

\* Where the audit insert after an outcome succeeds an outcome is final.
THEOREM OutcomeIsFinal == ASSUME SingleRetrier PROVE MCSpec => SettledStays
<1>1. Init => WorkingInv
  BY DEF Init, Idle, WorkingInv, Working
<1>2. JobsInv /\ WorkingInv /\ [MCNext]_vars =>
        [\A j \in JobIds :
           /\ job[j].status \in Outcome => job'[j].status = job[j].status
           /\ job[j].status = "failed" /\ job'[j].status # "failed"
                => job'[j].status = "queued" /\ job[j].attempts < MaxAttempts[j]]_vars
  BY LedgerStep, LedgerSettled
<1>3. [MCNext]_vars => [Next]_vars
  BY DEF MCNext
<1> QED BY <1>1, <1>2, <1>3, SafetyInit, SafetyStep, WorkingStep, PTL DEF MCSpec, SettledStays

\* For any number of jobs, runs and failures a row's columns are true: queued is
\* claimable, at work is processing, and attempts end at the limit.
THEOREM StatusAlwaysTrue == ASSUME SingleRetrier PROVE Spec => []StatusIsTrue
BY NoDeadRow, HandlerOwnsRow, AttemptLimit, PTL DEF StatusIsTrue

=============================================================================
