# Coffeecup, modelled and proved

This directory holds TLA+ modules for the repository's live application,
`coffeecup/` (a Next.js application that helps a person prepare an employment
tribunal case), configurations with which TLC checks them, and proofs that TLAPS
checks. The older product under `tribunal-harness-rs/`, a Rust server, is in the
inventory and not modelled.

Paths below are relative to `coffeecup/src/` unless they start otherwise.

Check a run with `tlc -config <run>.cfg <module>` and a proof with
`tlapm <module>.tla`; `PROJECT.json` lists every run with its module, the
source lines of every definition, the hazards, and for every property a mutation
of the model under which it fails.

## The system and what is hard about it

Handlers of the web routes call services, and services write PostgreSQL through
drizzle. There is **no transaction anywhere** (`db/client.ts:71-84`): every
`await db...` is one atomic statement, two requests interleave between their
statements, and a process that dies leaves what its finished statements wrote.
That one fact makes most of the hazards here, and decides the grain of the
models: one action per statement wherever a statement can be separated from the
next by somebody else's.

| Component | State | Operations | What is hard | What makes it correct |
|---|---|---|---|---|
| Job queue (`jobs/service.ts`) | `jobs` rows | enqueueJob, claimNext, finish, runJob, runPendingJobs, retryJob | concurrent claims, failures after the outcome is stored, crashes, retries racing runs | one owner per job, attempts bounded, no row queued for ever, outcomes final, every job settles |
| Payments and entitlements (`payments/`, `entitlements/service.ts`) | `payment_events`, `entitlements`; the provider's sessions | startCheckout, handleWebhook, grantEntitlement, revokeEntitlement | at-least-once delivery, concurrent deliveries, reordering, crash between two statements | an event acts once, refunds are final, money and entitlement agree in the end |
| Documents and extraction (`documents/service.ts`) | documents, files, links, proposals, usage counter | upload, reclassify, link, delete, re-run; the `document.extract` handler | the handler works for minutes on a row that users edit and delete meanwhile; failures half-way | a failed job leaves the case alone, a waiting document has a job, deletions and chosen types hold |
| Case record (`facts/`, `timeline/`, `issues/`, `claims/`, `cases/staleness.ts`, `legal/deadlines/case-deadlines.ts`) | facts, events, issues; deadlines, claim candidates and artifacts derived from them | add, confirm, reject, correct, remove; the three builds; markStale | derived rows are invalidated by hand, by a map from the input's key to the kinds that read it | what is derived is fresh or marked stale |
| Time limits (`legal/deadlines/`, `legal/rules/time-limits.ts`, `lib/dates.ts`) | deadline rows | calculateTimeLimit, applyAcas, selectTimeLimitRule, computeCaseDeadlines, listDeadlines | month ends, the Acas extension's boundaries, a change of law in the middle, rows that outlive the day they were computed on | the statute's arithmetic, one rule per day, the safe limit first, a list that is true |
| Tasks (`tasks/service.ts`) | one row per (case, systemKey) | upsertSystemTask, complete, reopen, delete | concurrent upserts, tasks of a deadline that moved | one task per key, due when its deadline is |
| Processes (`processes/`) | processes, their history, data; allegations; the Acas dates mirrored in facts | startProcess, transitionProcess, updateProcessData, allegations | check-then-write transitions, merged JSON | only transitions of the tables, no edit lost |
| Cases, access, retention (`cases/`) | cases with `deletedAt`, documents' rows and files | create, soft delete, purge, delete account; the guard of every route | files are outside the database; a purge overlaps uploads | no file outlives its case, no row of another's case, an expired case goes |
| Accounts and sessions (`auth/service.ts`) | users, consents, sessions, recovery tokens | sign-up, sign-in, validate, sign-out, recover, reset | check-then-write on addresses and tokens, sign-in racing a reset or the account's end | one account per address, a reset puts old passwords out, nothing outlives the account |
| Rate limiter (`lib/rate-limit.ts`) | timestamps per key, in one process | check | the window's edge, the sweep | exactly the allowance in any stretch of the window |
| Intake (`intake/service.ts`, `components/intake/`) | none on the server; the form and the browser's session storage | triage, createCaseFromIntake; the form, sign-up, return | many calls that fail one by one; pages that forget where to go | the case is whole, its limits are those shown before, answers reach one case |
| Claims engine (`legal/claims/`) | none | trigger, checks, the model's findings, two reviews | external answers; one date decided in three places | what is said is earned; reviews only lower |
| Legal sources (`legal/sources/`) | curated list; a cache in memory | validate, verifyCitation | the cache, outages, new judgments | a verdict is right both ways |
| Exports and ET1 (`artifacts/`, `et1/`, `components/case/Exports.tsx`) | artifacts with version, status, stale flag | generate, save, finalise, delete; marks | version numbers read and then written, edits that arrive late | documents can be told apart, say when they are out of date, stay final |
| Case routes (`app/api/cases/[caseId]/[[...path]]/route.ts`) | none | each a guard, a lookup, a write | a case or row that goes between two of those | every route stays with its user and its case |
| Model providers (`ai/`) | none | structured call, one repair | external answers | a wrong shape never reaches the record |
| Debate and refinement, deadlines, server (Rust) | none kept | - | - | not modelled |

How they interact: uploads and re-runs enqueue jobs that the queue's workers run
(`Extraction` over `JobLedger`); confirmed proposals become facts and events of the
record; writes to the record mark what is derived (`CaseRecord`); the dates of the
record trigger the limits (`CaseDates`, `TimeLimits`) that the deadlines build
stores with its task (`Deadlines`); claims read the same dates and limits
(`ClaimEngine`); a submission of the intake form calls cases, facts, processes and
deadlines in turn (`Intake`); the entries of a process are set out in the documents
of `Exports`; payments grant the entitlements that the generating services check;
and the end of a case or account (`Retention`, `Accounts`) takes the rows of all of
them with it by foreign keys, and the files by hand.

## The modules

| Module | Stands for |
|---|---|
| `Jobs` | the queue statement by statement; the claim is two steps, the snapshot of its sub-select and the flip that re-checks the row |
| `JobLedger` | the abstract queue: taking a job is one step, exclusive and bounded |
| `JobsRefinement` | `Jobs` implements `JobLedger` under the mapping written there |
| `Payments` | checkout, the external payment provider, deliveries, grants and revocations |
| `Extraction` | documents and the extraction handler, with `JobLedger` as its queue |
| `Retention` | rows and files of documents, through uploads, deletions, purges of cases and the end of an account |
| `CaseRecord` | facts, events and other inputs, the three builds, and markStale |
| `TimeLimits` | the date arithmetic, the rules, the engine and the retained calculator, as pure operators |
| `CaseDates` | the dates of one case as state, the choice of the triggering date, and the limits |
| `Deadlines` | the stored rows with their status by today, overlapping builds, and system tasks |
| `Processes` | the state machines, transitions and their history, process data and its mirror, allegations |
| `CaseRoutes` | every route of a case as guard, lookup, write and read-back, against deletions |
| `Accounts` | users, sessions and recovery links, statement by statement |
| `RateLimit` | the window of timestamps per key and its sweep |
| `Intake` | triage, and the calls of a submission with their failures |
| `IntakeForm` | the form in the browser, from the first answer to the case's page |
| `ClaimEngine` | triggers, checks, the model's answer and the two reviews |
| `CaseLaw` | a citation against the list, the archive and the cache |
| `Exports` | two Exports screens, the artifacts table, and a record that changes |
| `MC*` | finite instances; `MCDocuments`, `MCRetries`, `MCSite`, `MCCases` and `MCLegal` put several components into one run |
| `JobsProofs`, `PaymentsProofs`, `CaseRecordProofs`, `CaseDatesProofs` | theorems about one component each, and `PaymentsProofs` about `MCRetries` |
| `DocumentsProofs`, `SiteProofs`, `CasesProofs`, `LegalProofs` | theorems about the components of the run of that name, and of the run |

### Jobs

`job` is the table; `worker` is where each `runPendingJobs` is, with the row it
holds and its count in the loop; `retrier` is the row each `retryJob` has read.
`Points` names the places between two awaits of `runPendingJobs` and `runJob`
(`jobs/service.ts:57-128`). `recordAudit` is inside the `try` of a successful
handler and outside any in the catch block: a failing audit insert sends a finished
job to the catch block (`AuditThrows`) or ends the whole run (`CatchWrite`). Results,
error texts and payloads are left out.

### Payments

`session`, `emitted`, `acked` and `replays` are the provider's and external: it
emits an event when money moves and delivers it until it gets a 200. `stored` is
`payment_events` (no row, a row without outcome, its outcome), `entitlement` the
rows by their `paymentRef`, and `handler` where each `handleWebhook` is. The unique
index on the provider's event id is `StoreConflict`, which answers 400. Signatures,
the event types that are stored as `ignored`, and prices are left out; only
checkouts paid at completion are modelled.

### Extraction

`run` is where the handler of each worker is and what it has read, `request` where
each user request is. The handler's `setExtraction` writes by id, and so reaches
rows that were deleted since it looked. A document is an image or readable (`kind`),
and `extractText` a choice among the outcomes of its kind (`Results`); extracted
text, dates, authors and the content of proposals are left out, and the model's
answer is one among its own. Nothing keeps runs and requests apart, and the code
lets them undo each other, so three history variables say where they met: `crossed`,
the documents whose type was chosen, or that were deleted, after a run had looked at
them that had still to write; `torn`, the attempts that threw among their proposals;
and `raced`, the counts written while another run stood between its own read of the
counter and its write. The properties say that what the user decided, the case and the
allowance suffer from these and from nothing else.

### Retention

`case` and `row` are the tables, `files` the store, which no foreign key reaches.
`running` holds every request and worker run: an upload stores the file and then
inserts the row, a deletion goes the other way, a purge lists cases, reads the keys
of one, deletes the files one by one and then the case's row, which takes its
documents' rows along (`Erase`). `strays` and `hurt` are history variables: uploads
that overlapped a purge or died before their row, and documents whose deletion, or
whose case's purge, died half-way; the code keeps no such record, and the properties
say that nothing else goes wrong. 30 days are one step (`Expire`), all cases are of
one account, and a fault may strike between any two statements.

### CaseRecord

The contents of the record are abstracted to what the hazard is about. A derived
row is `current`; `outdated` (an input changed after it was read, by a write whose
handler marks it); `unmarked` (the same by writes that no handler marks); `missed`
(written by a build that had read an input before it changed, after the mark had
passed); or `stale` (marked). A build reads its inputs one by one in the code's order
(`Reads`), deletes the old rows in between (`ClearsAfter`) and inserts the new. A
request writes, and what its `markStale` calls will name is `owes`.

Which writes mark, and what, is the module's main content. `Changes` is a write that
its handler marks, `Slips` one that it does not: `RejectEvent`, which takes confirmed
events too; `ChangeOutcome`, which marks the artifacts and not the deadlines;
`ChangeUnmarked`, for the employment fields other than dates and status, an upload, the
end of an extraction, a deleted document, and a process started with Acas dates; and
`RejectUnseen`, a rejection whose read a confirmation has overtaken. The profile,
issues, documents and Acas dates are single inputs, which some writes mark and others
do not; facts and events have their statuses. Left out: the case summary's own flag,
and `refreshArtifactStaleness`, which nothing calls; artifacts have their own module,
`Exports`.

### TimeLimits and CaseDates

A date is a day number; months are numbers too, and the calendar is given by three
constants (`LastMonth`, `MonthStart`, `MonthOf`) about which only
`CalendarAssumption` is known: consecutive months of 28 to 31 days. JavaScript's
overflow of a day that a month lacks, which the code guards against with its
"last day of the month" branches, is in those branches of `AddMonths` and
`AddMonthsLessOneDay`. `Rules` are the rows of `TIME_LIMIT_RULES`, open-ended ones
with `to = NoDate`; families of one shape share one operator. `CaseDates` has the
dates a user may enter as state, takes the triggering date of each family from them
as `computeCaseDeadlines` does (with its fall-backs), and lets any date be
recorded, corrected and removed. Left out: the wording of explanations and
warnings, and the non-working days, which only word a warning.

### Deadlines

`gives` is what the inputs of each source of a row give now (a date, `Unknown`, or not
relevant). A source is a statutory limit, or a grievance or disciplinary with its
appeal window; the rows of two processes of one type are of one `Kind` and share the
key of their task. `today` is the day, `rows` the table, `task` the task of each key,
and `page` where each build of a page is. A build reads what the limits need, deletes,
then reads the processes, inserts and writes the task of the most urgent deadline, each
as a statement of its own; the unique index on (case, systemKey) is in `WriteTask`'s
clash. Which date the inputs give is for `CaseDates`, and which changes mark the rows
for `CaseRecord`; here a date comes and goes and rows are marked or not.

### Processes

`Machine` holds the transition tables of `processes/machines.ts`. `edit` is where
each request is and what it has read; the write is by id alone. `entered` is what
the user last typed for each field, and `crossed`, `mixed` and `reread` mark the
processes and allegations whose requests overlapped; the properties are about all
others. An edit of an Acas process ends by mirroring its dates in the facts
(`MirrorDates`), and may end before it does (`BreakEdit`). The facts have writers of
their own: `RecordFact`, `CorrectFact` and `RemoveFact` are addFact, confirmFact,
correctFact, rejectFact and the form's `setStructuredFact`, and `StartProcess` stores
the dates it is sent without mirroring them. `apart` names the fields this has touched
since their last edit, and `several` those with an older confirmed fact, which a
cleared date leaves in force.

### CaseRoutes

`Routes` is the dispatch of `route.ts`: for each segment, tail and method whether
the operation reads, adds, edits or removes, whether it finds the row first, by its
id and case (`found`), in the statement itself (`within`) or through a parent
(`parent`), and whether it reads the row again to answer (`ends`). `client` is a
request on its way from the guard to its answer. A row is only who wrote it last.
The other requests delete rows and cases and purge them. What each operation means
is for the other modules.

### Accounts

A request goes through the statements of one handler (`Steps`). A unique index is
part of the insert that it may refuse, a foreign key part of the insert that needs
its user, the cascade part of the deletion (`Cascade`). `raced` and `halted` are
history variables: sessions and requests whose password check a reset overtook, and
users whose reset died before its revocation. Passwords are model values and no hash
is modelled; policies, cookies and audit rows are left out.

### RateLimit

`map` is the limiter's `Map` (keys to the timestamps kept), `admitted` all times at
which a key's calls were let through. `check` is synchronous, so a call is one
step, with its filter, its sweep and its push. `ColdStart` empties the map; the
properties are about one process, and `admitted` starts again with it.

### Intake and IntakeForm

`Intake` has one set of answers, what triage computes from it, and the record that
`createCaseFromIntake`'s seven calls make: any of them may throw, and the form, still
filled in, may be sent again, up to `Attempts` times. `IntakeForm` has the pages, the
form's fields, the draft in session storage, and one request on its way. What is
stored is the payload and not the fields (`Payload`, `Restored`), as in the code.

### ClaimEngine and CaseLaw

`ClaimEngine` raises the claims of an input (`Triggered`), gives each its checks, asks
the model about the remaining elements and runs both reviews. The model is external:
no answer, or any of `Answers`. The definitions keep the elements the checks tell apart.
Limits come from `TimeLimits`. `CaseLaw` keeps the list, the archive's judgments as
they are published, and the cache with its hour; calls overlap and may time out.
A name is a sequence of words. The archive is assumed to find a judgment by its number
as soon as it is published.

### Exports

`tab` is a screen with the request it waits for, `artifact` the table, `point` the
entries of a process (allegations, grounds) that a document sets out, and `changer`
the requests that have written the process and have still to mark. `Propose` is an
extraction that adds an allegation and marks nothing; `unmarked` remembers it until
the next mark. A screen acts on
any row there has been, because what it shows may be old. A request of a screen that
goes unanswered is taken to have stopped.

## The runs

Safety runs use two concurrent actors of each kind, which is what an interleaving
between statements needs; a third would meet the same statements. The figures are
distinct states.

Five runs hold several components that share no variable. Each behaviour moves one
of them, chosen at its start by `part` (or `setting`), and the others stay at an
initial state; so the states of such a run are the sum of its parts', not their
product, and a property of one component is checked on that component's own
behaviours. Fairness asks nothing of what does not move.

Where a run names one property for several of a module, that property is their
conjunction and is defined at the module's end: read the parts there
(`HistoryIsAPath`, for instance, is `HistoryTellsState` and `MovesAlongEdges`).

| Run | States | Question and bounds |
|---|---|---|
| `jobs_safety` | 153,775 | Three jobs (one attempt; two attempts; no handler), two runs of two jobs each, one `retryJob`; crashes, failing handlers, audit inserts that throw after a failure. One owner per job, rows that say what is so, final outcomes, and the statements implement the ledger. Two attempts are enough to fail, be requeued and fail for good. |
| `retries` | 249,469 | What is tried again until it ends. `queue`: the same rows with failing handlers and audit inserts, no crash. `rough`: one payment session, both reversals, two concurrent deliveries, one replay, two crashes, reversals overtaking completions. `calm`: a session per tier, reversals in order, no crash. An event acts once, refunds are final, calm money and entitlements agree, every event is acknowledged, every queued job settles. |
| `jobs_crash_stuck` | violated | With a crash in the handler, `EveryJobSettles` fails: the row stays `processing`. |
| `payments_refund_first` | violated | A refund handled before its completion leaves the entitlement active for good. |
| `payments_crash_lost` | violated | A crash between the event row and the grant: the redelivery is a duplicate and nothing is ever granted. |
| `documents` | 1,232,133 | `extraction`: one document, which is an image or can be read, one job with two attempts and one with one, two workers, one user request, all overlapping as they like; one proposal, an allowance of two, workers that die, proposals that throw, usage conflicts. `retention`: two cases with a document each, the worker and a request, one fault anywhere. A waiting document has a job and gets its answer, failed jobs propose nothing, chosen types, deletions and the allowance hold but where the history variables say, rows and files end together, and an expired case goes. |
| `caserecord_fresh` | 504,612 | Two facts of one key (so that one can correct the other), one event, five other inputs, a build of one kind chosen at the start (`focus`), and either one request that changes any of them or two that overlap on the facts: rows are fresh, stale or about to be marked, but for those named `unmarked` and `missed`, and `outdated` ones are so only for a while. |
| `caserecord_deduction` | violated | The same with `date_of_deduction`, which the deadlines read and the dependency map does not know. |
| `caselaw_borrowed` | violated | The `law` part of `legal`: a name that contradicts the title, in the citation's own text, is told the `VERIFIED` kept for a name that does not. |
| `legal` | 687,956 | `dates`: the calendar of 2024 to 2028, with dates at month ends, in both Februaries, on both sides of the commencement and of the limits themselves, two jurisdictions, three families besides the dismissal's. `claims`: records with no date, several, tainted ones, against answers about one element at a time. `intake`: every combination of a few dates and routes, two sendings, any call failing. `law`: a judgment that may be published late, a curated one, eight ways to cite, two overlapping calls on one entry of the cache (`key`), outages, the cache's time-to-live in two ticks. |
| `site` | 2,565,191 | `accounts`: two ids that could hold one address, two passwords, two sessions, one link, two requests that may die. `limiter`: two calls in three ticks, two keys, cold starts. `form`: three routes, both orders of signing up and in. `exports`: two screens, two rows, one entry that changes or that an extraction adds. |
| `cases` | 1,749,999 | `processes`: one process of every machine, two requests, three transitions; for edits, one Acas process started with or without dates, and the facts changed by themselves; one allegation. `deadlines`: a limit and two builds that overlap, or a limit, two processes of one type and one build at a time; two days. `routes`: two owners with a case each, a row of each of five tables, any route of a request against any that removes. |

The bounds are constants or operators of the `MC` modules and named in the
configurations: `MaxAttempts`, `BatchSize`, `MaxReplays`, `MaxCrashes`, `Limit`,
`Found`, `Allowance`, `MaxFaults`, `MaxRows`, `MaxHistory`, `LastDay`, `LastHour`,
`Horizon`, `Attempts`, `MaxDowngrades`, the sets of rows and actors, and `Choices`.
`Rough`, `Calm`, `Apart`, `study`, `topic`, `focus`, `key` and `studied` say in the `MC`
modules which interplay a part leaves out, for instance a second screen while a record
changes. What a run leaves out for its size and a proof covers: two user requests on one
document, three and more runs (`DocumentsProofs`), and two requests that overlap on
events and other inputs (`CaseRecordProofs`).

One restriction is about the environment and not about size. `OutcomesAreAudited`
(`jobs_safety`): the audit insert after a completed job succeeds; when it throws, the
catch block takes the job for a failed one and queues it again, and no outcome is final
(`retries` has it throw).

Symmetry is declared in the three safety runs `site` (sessions, requests), `cases`
(pages, windows) and `legal` (calls), over model values that no definition tells apart; the
other runs distinguish theirs or check liveness.

Deadlock is not checked where the system really stops: when every event is
acknowledged and the replays are used up, when all job ids are used and every
document has its answer, when a case is gone, or when days, hours, rows or sendings
have reached their bound.

### Fairness

- `Jobs`: the cron schedule calls the job route every minute
  (`coffeecup/docs/DEPLOYMENT.md:60-64`), so `StartRun` is weakly fair, and a run
  that is not killed takes its next step. Nothing obliges anyone to enqueue, retry
  or fail.
- `Payments`: the provider delivers an unacknowledged event again and again, and an
  invocation that is not killed goes on. Nobody has to buy or reverse.
- `Extraction`: jobs go on being taken (this is what `EveryJobSettles` says of the
  queue), and runs and requests that were begun go on. A worker may die instead
  (`Crash`): the job it had stays `processing`, and `EveryDocumentSettles` excepts the
  document of such a job (`Orphaned`), the queue's own finding.
- `Retention`: the same schedule calls the purge again and again, and a purge that
  has begun goes on to its end or to one of finitely many faults. Users owe nothing.
- `CaseRecord`: a request that has begun runs to its end. Nobody has to make
  another, and no build has to run.

All other modules state safety only.

### Where the code departs from what it says

Five runs end in a violation, each of a sentence of the repository; `PROJECT.json`
quotes them under `findings`.

1. A job whose process dies stays `processing`: nothing reclaims it and `retryJob`
   refuses it (`jobs/service.ts:64,73`).
2. A refund handled before its completion revokes nothing (`payments/service.ts:81`).
3. The duplicate check looks for an event's row and not for its `processedAt`
   (`payments/service.ts:71`).
4. `date_of_deduction` marks claims and artifacts and not the deadlines that read it
   (`cases/staleness.ts:53`).
5. The cache of verdicts is keyed by the number and the separate case name, while the
   name checked against the title may be in the citation's own text, which the key
   leaves out: "Nonexistent v Fabricated Ltd" with a real number is told `VERIFIED` once
   that was found for the same number and a matching name
   (`legal/sources/find-case-law.ts:271`; the comment at `:304` and the test at
   `find-case-law.test.ts:145` say never).

Met while modelling, and worth knowing. The properties name these where they touch
them, and say that nothing else happens.

*Jobs, payments, documents*

- When the audit insert after a completed job fails, the catch block takes the job
  for a failed one and queues it again, or fails it (`jobs/service.ts:99`).
- Of two `retryJob` calls in flight the second writes by what it read before the
  first's job ran (`jobs/service.ts:64`). It can requeue a job whose last attempt has
  been used, which is then neither claimable nor retriable, and one that a run has in
  hand, which a second run then takes. Nothing calls `retryJob` yet. The runs have one
  call, the proofs assume one (`SingleRetrier`), but for `AttemptLimit`, which holds
  with any number.
- A tier bought twice grants one row, the first session's; refunding that session
  leaves the second payment with nothing (`entitlements/service.ts:65`). `calm` has,
  and `CalmMoney` assumes, a session per tier (`OneSessionPerTier`).
- A completed checkout whose payment is still pending is stored as `ignored`
  (`payments/providers/stripe.ts:57`); the event of its later success is not among
  those handled.
- When a proposal insert throws, the job is retried and proposes the first rows
  again (`documents/service.ts:212`); `torn` in `FailureKeepsCase`.
- A document is left `processing` for good, with its job failed, when what follows
  its text throws on the job's last attempt: two first uses of a day whose inserts
  meet at the counter's unique index (`entitlements/fair-use.ts:46`), or a proposal's
  insert. `docs/AI_PROVIDER_ARCHITECTURE.md:61` has it marked `requires_review`, and
  the page offers "Try again" only to documents that failed or require review
  (`components/case/Documents.tsx:82`). `Stranded` names it in `WaitingIsHonest` and
  `EveryDocumentSettles`; it came up when the former was proved.
- A run that finds an image writes the type over that the user had chosen, confirmed
  or not, whenever it comes (`documents/service.ts:177`; `:241` looks).
  `ChosenTypeStays` excepts images by name.
- A run restores the type that the user changed after its check, and the text of a
  document deleted after it (`documents/service.ts:189,241`); a link checked before a
  deletion is inserted after it (`:127`). These are `crossed` in `DecisionsHold`.
- Each run that counts while another stands between its read of the usage counter and
  its write may exceed the allowance by one (`entitlements/fair-use.ts:44`); `raced` in
  `WithinAllowance`.
- An upload that overlaps its case's purge leaves its file in the store for good
  (`cases/retention.ts:22`), and so does one that dies before its row.

*The record and its deadlines*

- `rejectFact` marks by the status it read; a confirmation between its read and its
  update loses the mark (`facts/service.ts:180`). `rejectEvent` marks nothing, and
  takes confirmed events too (`timeline/service.ts:180`). Nothing is marked by a change
  of `stillEmployed` or the employer alone (`cases/service.ts:203`), by an upload, the
  end of an extraction or a document's deletion (`documents/service.ts:54,239,121`), nor
  by a process started with Acas dates (`processes/service.ts:64`). An outcome date
  marks only the artifacts, and deadlines read it (`processes/service.ts:129`). The rows
  these leave are `unmarked`.
- A mark falls on rows about to be deleted when a build has read its inputs and not yet
  inserted (`legal/deadlines/case-deadlines.ts:83`): the new row, computed from the old
  inputs, looks fresh (`missed`).
- Two overlapping builds leave every deadline row twice, and one of them answers
  with an error when both insert the same task
  (`legal/deadlines/case-deadlines.ts:83`, `tasks/service.ts`). A stored deadline
  keeps the status of the day it was written (`case-deadlines.ts:154`), and a row
  marked stale loses its `expired`: the ET1 pack then has no warning for it.
- While conciliation is under way the limit shown is the one before it, and may be
  called expired although the clock is stopped (`legal/deadlines/engine.ts:83-86`);
  `FollowsS207B` speaks of conciliations whose end is known.
- Two transitions that cross may leave a process where its history does not lead,
  and two edits of one process lose one of them (`processes/service.ts:92,118`).
- The Acas facts and the process they mirror come apart when a fact is corrected,
  rejected or set by the case's form (`facts/service.ts:174,195,229`), when the process
  is started with dates (`processes/service.ts:64`), and when a date is cleared while an
  older confirmed fact of the key is there. Deadlines read the process first, claims the
  facts: `apart` and `several` in `MirrorIsTrue`.
- Two grievances, or disciplinaries, give two rows of one kind, and one task between
  them (`legal/deadlines/case-deadlines.ts:112`); the task follows the more urgent.

*Law, claims, intake*

- The claims engine runs a claim's limit from the employment record's end first, and
  takes what it says of the end, and the service, from the facts first
  (`legal/claims/engine.ts:256,125,130`; `TwoEnds` in `EndedHasLimit`); and the availability of a fire-and-rehire claim
  looks at no dismissal fact (`legal/claims/engine.ts:254,154`). A right without any
  date of commencement is available by `:153`, before `:155` can say that it is not
  yet in force.
- A dismissal before the oldest rule of its family is called one ("Your employment
  ended on...") and has no limit (`BeforeTheRules` in `EndedHasLimit`; met while
  proving it).
- Triage uses the end of employment for a dismissed user's discrimination claim even
  when the last act was earlier (`intake/service.ts:88`; the comment at `:85` promises
  the conservative date). `TriageAgrees` is about answers that name one event.
- Employment dates that are refused leave a case behind, and sending the form again
  makes another.
- The form sends answers whose questions are hidden by then; a second triage uses the
  route chosen in the first, and its first suggestion replaces the route picked
  before sign-up; a result stays on the screen when the answers change; "Sign in" on
  the sign-up page forgets where to go on; reloading `/app/cases/new` loses the
  restored draft. In `SituationSummary`, a proposal overwrites what was being typed.

*Exports*

- Two screens may give two documents one version number (`et1/service.ts:193`,
  `artifacts/service.ts`); numbers of case-level documents begin again after a
  document is finalised, because the query looks at drafts only.
- Deleting an allegation or a ground marks nothing (`processes/service.ts:197,259`), and
  neither does an extraction that proposes allegations, which a letter sets out as well
  (`documents/service.ts:231`, `artifacts/service.ts:128`), although the page says that a changed record marks its documents.
- A box opened while an earlier save is under way is closed by that save's answer.

## What is proved

TLC shows a property on the instance of its configuration; the theorems below hold
for every value of the constants that satisfies the named assumptions. 58 theorems
in eight modules, with the lemmas they rest on. Every invariant and every action
property that a passing run checks is stated by one of them; liveness is not.

All are proved the same way. A module's invariant is a conjunction of named parts;
it holds at first; a lemma for each action says that a step keeps it (or, where
many actions change alike, one lemma says what an action does and another what
such changes keep); and the property follows from it, or, for an action property,
from it before and after the step.

**`JobsProofs`** (from `JobsAssumption`). `JobsTypeCorrect`, `AttemptLimit`; and, with
at most one `retryJob` in flight (`SingleRetrier`), `NoSharedJob` and
`StatusAlwaysTrue`; where the audit insert after an outcome succeeds
(`OutcomesAreAudited`, as in the run) also `JobsImplementLedger` and
`OutcomeIsFinal`, whatever else fails. That two runs never hold one job is not
inductive: a run can only lose its row to another if that
row says `queued` while it is held. The invariant `JobsInv` therefore ties each
program point to its row (`HandInv`: in the handler the row is `processing`, after
`finish` it has an outcome, before a requeue attempts are left), a retrier's row to
what it read (`RetryInv`), and adds the bounds. Each action then changes one row,
and one lemma per kind of change (a run lets go, moves on, settles) carries the
invariant over. The refinement uses `JobsInv`, and that a run still at work finds its
row `processing` (`WorkingInv`): the flip is `Take`, the writes that
settle are `Settle`, a crash with a job in hand is `Abandon`, all else stutters.

**`PaymentsProofs`** (from `PaymentsAssumption`). `PaymentsTypeCorrect`,
`WebhookActsOnce`, `RefundsStay`, with any number of deliveries and crashes, in any
order. `PaymentsInv` adds to the property `GrantInv`: an entitlement's row that
exists was inserted by an invocation acting on the completion's row, so an
invocation that could still insert it finds none. Without it, a late grant could
meet a refunded row.

`CalmMoney` is the other half, for `calm` of `MCRetries`: nothing crashes, a reversal
is delivered after its completion was handled, and no two sessions are of one tier.
Then money and entitlements agree whenever nothing is left to deliver. `CalmInv`
follows an event from the provider to its effect: events are of the session's state
(`EventsAgree`), a row without outcome has an invocation at work and an acknowledged
event a row (`Worked`), one that has acted shows in the entitlement (`Effects`), and
an invocation's reversal is preceded by its completion (`Ordered`).

**`CaseRecordProofs`** (from `CaseRecordAssumption`, and `Mapped`: no fact has the key
`date_of_deduction`). `RecordTypeCorrect`, which does not need it, and
`NothingSilentlyWrong`, for any facts, events, builders, rows and requests that overlap
as they like. `CaseInv` adds to `FreshOrStale` the same about builds that are under way
(a build whose basis is outdated is of a kind still owed), what a request that has read
a fact will mark, and that what is owed belongs to a request at its marks. A rejection
whose read was overtaken needs no assumption: it is a step of its own, which leaves its
rows `unmarked`.

**`CaseDatesProofs`** (from `CalendarAssumption`, `RulesAssumption`,
`CaseDatesAssumption`). Every property of the dates in `legal`, for every calendar,
every set of dates that leaves room for the months to come, every commencement and
either reading of the statutory instrument: `DatesTyped`, `MonthsCounted`,
`StatutesFollowed`, `RulesCoverEachDay`, `CorrectionsSafe`. The argument is
arithmetic over the type invariant: months are in order (`MonthsInOrder`), a day
between the first of a month and of the next is of that month (`MonthFound`), dates
order by month and then by day (`DateOrder`), so periods keep the order of the dates
they start from (`BaseMonotone`, `BackstopMonotone`), applyAcas keeps the order of
limits and of certificates (`AcasMonotone`, `CertificateMonotone`), and a rule shows
3 or 6 months as the day lies before or after the commencement (`LeadMonths`).

**`SiteProofs`**, about the four components of `site`.

- *Limiter* (`RateLimitAssumption`): `LimiterTyped`, `LimiterExact`, for every limit,
  window and number of keys. That the sweep forgets nothing has to be carried along:
  every stamp still within the window is in the map (`Remembered`), and the stamps of
  a key are in order (`Ordered`), so that those within the window are the last ones,
  and one more call than `MaxRequests` would put two of them closer than the window.
- *Accounts* (`AccountsAssumption`): `AccountsTyped`, `AccountsBeginAndEndWhole`,
  `ResetPutsOut`, for any number of requests, addresses and faults. A sign-up's id is
  not yet anybody's (`IdIsNew`), every request and every link is about some user,
  there or gone (`Addressed`), and a request that has checked a password holds the
  current one or is `raced` (`Current`): a session that a later statement opens is as
  old as the check before it.
- *Form* (`IntakeFormAssumption`): `AnswersArrive`, by any route through the pages.
  `FormInv` adds that a form makes one case at most, and none before it was sent
  (`MadeOnce`), and that the triage it waits for is of a route (`AskedAbout`).
- *Exports* (`ExportsAssumption`): `ExportsTyped`, `DocumentsStayTrue`, for any number of
  screens, rows, entries and writers. `ScreenGood` says what a screen's request may
  rely on: the version it read is beyond its kind's others when there is one screen
  (`NumberedLast`), never beyond the number of rows with its own (`NumberedNext`), and what it read
  of the process is what the process says unless a mark is still to come
  (`ReadIsFresh`).
- `SiteTyped` is about the run: `EachAlone` shows that its behaviours are behaviours of
  each component.

**`CasesProofs`**, about the three components of `cases`.

- *Routes* (`CaseRoutesAssumption`): `RoutesTyped`, `RoutesKeep`, for any users, cases,
  rows and requests, through every route of the table. A request past its guard named
  a case its user owns, and one past its lookup a row of that case (`Knows`); one that
  will answer with its row has written it (`Honest`).
- *Processes* (`ProcessesAssumption`): `ProcessesTyped`, `HistoriesArePaths`,
  `EntriesStayKept`, for any processes, fields' dates and requests. A transition writes
  the state and the history as two statements, so in between the history lacks one
  step: `PathEnds` says that this is the step of the one request under way
  (`OneMover`), which fits the row (`MoverFits`). The same for data and, field by field
  outside `apart`, their mirror in the facts (`EntriesEnd`, `OneMerger`, `MergerFits`),
  and for allegations
  (`AnswersKept`). Each part is about the rows that the history variables do not name:
  who crosses another's request marks the row in the step that makes two of them.
- *Deadlines* (`DeadlinesAssumption`): `DeadlinesTyped`, `ListsAreTrue`, for any number
  of days, limits, processes and builds. A build nothing has overlapped is the only one
  (`AloneIsAlone`), so it inserts into an empty table (`OwnRowsOnly`), what it found of
  a task is still so when it writes (`FoundIsTrue`), and the day it writes is the row's
  (`DueIsListed`); after it, nobody writes that task before the next build has begun
  (`ToldAgrees`).
- `CasesTyped` is about the three together: any behaviour that is one of each.

**`DocumentsProofs`**, about the two components of `documents`.

- *Retention* (`RetentionAssumption`): `RetentionTyped`, `FilesAndRowsEndTogether`, for any
  cases, documents, requests and faults. That no file outlives its case is not
  inductive: the deletion of a case's row must know that its files are gone.
  `PurgesSee` says that once a purge has read a case's keys, every file of the case is
  among the keys left or a stray, and `AccountSees` the same of the cases an account's
  deletion did not list; `OnlyUploads` that an upload's row is nobody else's yet,
  `KeysOfRows` that keys are of rows that are or were there, `FilesHaveRows` that a
  file's row is there, on its way, or the file a stray. For the converse,
  `RowsHaveFiles` names whoever is about to remove the row.
- *Extraction* (`ExtractionAssumption`): `ExtractionIsTyped`, `WaitingStaysHonest`, for any
  documents, jobs, workers and requests, overlapping as they like. That a waiting
  document has a job is not inductive, because its job may be a run that has already
  settled what it will answer. `EachIsOwed` names whoever owes the document its answer:
  a request about to enqueue, a queued or abandoned job, a run before its answer, or a
  run past the text that will fail and leave it `Stranded`. `ProposedWhole` says the
  same of a job's proposals. `DecisionsStand` asks nothing of the environment.
  `DecisionInv` says of every document what its decisions have come to (`Decided`): a run
  holds no type older than the choice unless it is `crossed` (`RunsFit`, `PastFits`), the
  row fits the choice (`ChoiceFits`), a deleted row has nothing that a `crossed` one may
  have (`DeletionFits`), and a request that is past its check fits the row it found
  (`HandsFit`). `AllowanceHolds` is about any number of runs: the counter is behind what
  was admitted by no more than was `raced`, and a run that has read an older value of it
  stands in the way of one more (`MeterInv`).
- `DocumentsAreTyped` is about the run.

**`LegalProofs`**, about the components of `legal` besides the dates.

- *Case law* (`CaseLawAssumption`): `CaseLawTyped`, `VerdictsStayRight`, for any list,
  archive, citations, calls and outages. `CacheInv` says of every entry what it must
  have been when it was written: a verified one was in the archive under the name, or
  else the words, of the citation it was reached for (`Earned`), a denied one was not there when its search began (`Denied`), and a search
  lasts no longer than its timer (`SearchInv`); so a published judgment is denied for at
  most the cache's hour and one timeout.
- *Claims* (`ClaimAssumption`, `CalendarAssumption`, `RulesAssumption`): `ClaimsTyped`,
  `ClaimsStayEarned`, for any inputs and any answers, made-up facts and failures
  included. Every element of a claim has been through a review (`Reviewed`), which only
  lowers (`Lowered`) and leaves nothing supported without proof (`Proven`); a claim
  under analysis has nothing drafted yet or everything, its dismissal as the record has
  it (`Complete`). That a claim the engine calls ended has a limit is arithmetic: every
  day from the oldest rule on has a rule (`RuleFound`), and its months and conciliation
  give a date (`BasePositive`, `AcasTyped`).
- *Intake* (`IntakeAssumption`: no rule is older than unfair dismissal's):
  `IntakeTyped`, `CaseStaysAsAnswered`, whichever calls throw. `IntakeInv` says what is
  written while some calls are still to make (`Filled`), that the deadlines are the last
  of them, and that the limits of a case just created are those of its record. Triage
  shows one of them and none is earlier, since of all families that start from one day
  the dismissal's ends first (`DismissalEndsFirst`).
- `LegalTyped` is about the run, by its own `EachAlone`.

Only model-checked, because liveness is out of this prover's reach: `RetriesEnd`
(`EveryJobSettles`, `EveryEventAcknowledged`), `EveryDocumentSettles`,
`ExpiredIsPurged` and `WrongIsTransient`.

## Not modelled

- **The Rust server** (`tribunal-harness-rs/`): its debate of three agents and its
  refinement keep no state between requests and share none with the application; its
  dates and deadlines are a port of `et-time-limit.ts`, whose arithmetic is
  `TimeLimits`, and its fixtures compare the two languages output by output; its
  limiter is that of `lib/rate-limit.ts`, which `RateLimit` models.
- **Read-only summaries**: the dashboard, the stages of a case, process timelines,
  the contents of exports (docx, pdf, the sections of the pack). They keep nothing
  that another component depends on.
- **Words**: explanations, warnings, questions, non-working days (which only word a
  warning), the regular expressions that find citations in a text.
- **Data**: the lists of verified authorities, definitions and sources, the mock
  provider's canned answers, seeds.
- **Configuration**: which provider a call is sent to, cookies, password policy,
  hashing, headers.
- **Crashes between a write and its mark** (`cases/staleness.ts:28`):
  `WrongIsTransient` assumes that a request runs to its end. Nothing in the code
  repairs what a crash leaves there, so there is no property to state.

Of what could still be proved, fewer hypotheses come first: `SingleRetrier` could give
way to a row that names the two retries that crossed, as the history variables do
elsewhere, and the one-screen hypothesis of the version numbers to the pair of screens
that generated together.
