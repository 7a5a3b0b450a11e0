----------------------------- MODULE Extraction -----------------------------
(***************************************************************************)
(* The documents of a case and the job that reads them:                    *)
(* coffeecup/src/documents/service.ts on top of the job queue.             *)
(*                                                                         *)
(* User requests (upload, reclassify, link, delete, re-run) and extraction *)
(* runs interleave between statements.  The queue is the abstract one of   *)
(* JobLedger, which jobs/service.ts implements (JobsProofs).               *)
(***************************************************************************)
EXTENDS Integers, FiniteSets

CONSTANTS
  Docs, JobIds, Workers,
  Requests,   \* concurrent user requests on this case's documents
  Limit,      \* column max_attempts of every job
  Found,      \* proposals the model makes of a document
  Allowance,  \* fair use: extractions a day
  Faults,     \* failures the environment may inject
  NoDoc, NoJob

ASSUME ExtractionAssumption ==
  /\ Limit \in [JobIds -> Nat \ {0}]
  /\ Found \in Nat /\ Allowance \in Nat \ {0}
  /\ Faults \subseteq {"crash", "proposal"}
  /\ NoDoc \notin Docs /\ NoJob \notin JobIds

VARIABLES
  phase, taken, inHand,  \* the job queue, see JobLedger
  payload,     \* the document each job is for
  doc,         \* the documents table
  confirmed,   \* documents whose docTypeConfirmed is set
  bytes,       \* documents with a stored file
  links,       \* documents with document_links rows
  proposals,   \* proposed rows: job, attempt and number of each
  usage,       \* the usage counter's row, 0 when there is none
  admitted,    \* extractions the fair-use check has let through
  run,         \* where the handler of each worker is, and what it has read
  request,     \* where each user request is, and its document
  \* history
  crossed,     \* documents with a choice of type, or a deletion, made after the check of a
               \* run, or of a link, that had still to write
  torn,        \* attempts that threw among their proposals
  raced        \* counts written while another run had read and not written

queue == <<phase, taken, inHand>>
noted == <<crossed, torn, raced>>
vars  == <<queue, payload, doc, confirmed, bytes, links, proposals, usage, admitted, run, request, noted>>

Queue == INSTANCE JobLedger

Verdicts == {"completed", "requires_review", "throw"}
Busy     == {"queued", "processing"}
Statuses == Busy \cup {"completed", "failed", "requires_review", "unsupported"}
Types    == {"unknown", "guessed", "fallback", "chosen"}
Kinds    == {"image", "readable"}

NoRun     == [at |-> "idle", job |-> NoJob, type |-> "unknown", seen |-> 0, item |-> 0, verdict |-> "completed"]
NoRequest == [at |-> "idle", doc |-> NoDoc]

Live(d) == doc[d].life = "live"

Row(life, kind) == [life |-> life, status |-> "queued", text |-> "none", type |-> "unknown", kind |-> kind]

Init ==
  /\ Queue!Init
  /\ payload = [j \in JobIds |-> NoDoc]
  /\ doc \in [Docs -> {Row("absent", k) : k \in Kinds}]
  /\ confirmed = {} /\ bytes = {} /\ links = {} /\ proposals = {}
  /\ usage = 0 /\ admitted = 0
  /\ run = [w \in Workers |-> NoRun]
  /\ request = [r \in Requests |-> NoRequest]
  /\ crossed = {} /\ torn = {} /\ raced = 0

-----------------------------------------------------------------------------
(* User requests.  Each checks the document first and then writes by id.   *)

\* Runs and requests that are under way with d.
RunsOn(d)     == {w \in Workers : run[w].at # "idle" /\ payload[run[w].job] = d}
RequestsOn(d) == {r \in Requests : request[r].doc = d}

\* A run goes by what it read of the document at its start.
PastRead(w) == run[w].at \notin {"idle", "read", "finish"}

\* Job ids are a bound: a request that enqueues starts only while one is left.
Spare ==
  Cardinality({j \in JobIds : phase[j] = "absent"})
    > Cardinality({r \in Requests : request[r].at \in {"insert", "requeue", "enqueue"}})

Enter(r, d, p) ==
  /\ request[r].at = "idle"
  /\ request' = [request EXCEPT ![r] = [at |-> p, doc |-> d]]

At(r, p)   == request[r].at = p
Then(r, p) == request' = [request EXCEPT ![r].at = p]
Leave(r)   == request' = [request EXCEPT ![r] = NoRequest]

\* uploadDocument: the bytes, the row, the job.
StoreBytes(r, d) ==
  /\ doc[d].life = "absent" /\ RequestsOn(d) = {} /\ d \notin bytes
  /\ Spare
  /\ Enter(r, d, "insert")
  /\ bytes' = bytes \cup {d}
  /\ UNCHANGED <<queue, payload, doc, confirmed, links, proposals, usage, admitted, run, noted>>

InsertDocument(r) ==
  LET d == request[r].doc IN
  /\ At(r, "insert")
  /\ doc' = [doc EXCEPT ![d] = Row("live", doc[d].kind)]
  /\ Then(r, "enqueue")
  /\ UNCHANGED <<queue, payload, confirmed, bytes, links, proposals, usage, admitted, run, noted>>

Enqueue(r, j) ==
  /\ At(r, "enqueue")
  /\ Queue!Submit(j)
  /\ payload' = [payload EXCEPT ![j] = request[r].doc]
  /\ Leave(r)
  /\ UNCHANGED <<doc, confirmed, bytes, links, proposals, usage, admitted, run, noted>>

\* getDocument succeeds and the request goes on to its writes.
Ask(r, d, p) ==
  /\ Live(d)
  /\ p = "requeue" => Spare
  /\ Enter(r, d, p)
  /\ UNCHANGED <<queue, payload, doc, confirmed, bytes, links, proposals, usage, admitted, run, noted>>

\* updateDocument with a docType.
Retype(r) ==
  LET d == request[r].doc
      stale == \E w \in RunsOn(d) : PastRead(w) /\ run[w].type # "chosen"
  IN
  /\ At(r, "retype")
  /\ doc' = [doc EXCEPT ![d].type = "chosen"]
  /\ confirmed' = confirmed \cup {d}
  /\ crossed' = IF stale THEN crossed \cup {<<d, "choice">>} ELSE crossed \ {<<d, "choice">>}
  /\ Leave(r)
  /\ UNCHANGED <<queue, payload, bytes, links, proposals, usage, admitted, run, torn, raced>>

LinkDocument(r) ==
  /\ At(r, "link")
  /\ links' = links \cup {request[r].doc}
  /\ Leave(r)
  /\ UNCHANGED <<queue, payload, doc, confirmed, bytes, proposals, usage, admitted, run, noted>>

\* reprocessDocument: back to "queued", then a job of its own.
Requeue(r) ==
  /\ At(r, "requeue")
  /\ doc' = [doc EXCEPT ![request[r].doc].status = "queued"]
  /\ Then(r, "enqueue")
  /\ UNCHANGED <<queue, payload, confirmed, bytes, links, proposals, usage, admitted, run, noted>>

\* deleteDocument: the bytes, the row and its text, the links.
EraseBytes(r) ==
  /\ At(r, "erase")
  /\ bytes' = bytes \ {request[r].doc}
  /\ Then(r, "delete")
  /\ UNCHANGED <<queue, payload, doc, confirmed, links, proposals, usage, admitted, run, noted>>

\* Variant: the text stays in the deleted row.
DeletedRowWithText(d) == [doc[d] EXCEPT !.life = "deleted"]

DeletedRow(d) == [doc[d] EXCEPT !.life = "deleted", !.text = "none"]

MarkDeleted(r) ==
  LET d == request[r].doc
      late == (\E w \in RunsOn(d) : PastRead(w)) \/ (\E q \in RequestsOn(d) : At(q, "link"))
  IN
  /\ At(r, "delete")
  /\ doc' = [doc EXCEPT ![d] = DeletedRow(d)]
  /\ crossed' = IF late THEN crossed \cup {<<d, "deletion">>} ELSE crossed
  /\ Then(r, "unlink")
  /\ UNCHANGED <<queue, payload, confirmed, bytes, links, proposals, usage, admitted, run, torn, raced>>

Unlink(r) ==
  /\ At(r, "unlink")
  /\ links' = links \ {request[r].doc}
  /\ Leave(r)
  /\ UNCHANGED <<queue, payload, doc, confirmed, bytes, proposals, usage, admitted, run, noted>>

-----------------------------------------------------------------------------
(* The handler of document.extract, one action per statement.              *)

Doc(w)     == payload[run[w].job]
Attempt(w) == taken[run[w].job]
Goto(w, p) == run' = [run EXCEPT ![w].at = p]
Done(w, v) == run' = [run EXCEPT ![w].at = "finish", ![w].verdict = v]
OnlyRun    == UNCHANGED <<queue, payload, doc, confirmed, bytes, links, proposals, usage, admitted, request, noted>>
OnlyDocRun == UNCHANGED <<queue, payload, confirmed, bytes, links, proposals, usage, admitted, request, noted>>

\* setExtraction(documentId, status), by id alone: a deleted row too.
Status(w, s) == doc' = [doc EXCEPT ![Doc(w)].status = s]

Take(w, j) ==
  /\ Queue!Take(w, j)
  /\ run' = [run EXCEPT ![w] = [NoRun EXCEPT !.at = "read", !.job = j]]
  /\ UNCHANGED <<payload, doc, confirmed, bytes, links, proposals, usage, admitted, request, noted>>

Missing(d) == ~Live(d)

\* Variant: the model's type whatever the user said.
TypeAfterModel(d) == "guessed"

\* The type a run will write: the row's own if it is confirmed now.
TypeAfter(d) == IF d \in confirmed THEN doc[d].type ELSE "guessed"

ReadDocument(w) ==
  /\ run[w].at = "read"
  /\ IF Missing(Doc(w)) THEN Done(w, "completed")
     ELSE run' = [run EXCEPT ![w].at = "mark", ![w].type = TypeAfter(Doc(w))]
  /\ OnlyRun

MarkProcessing(w) ==
  /\ run[w].at = "mark"
  /\ Status(w, "processing")
  /\ Goto(w, "bytes")
  /\ OnlyDocRun

\* storage.get and extractText, which reads no image.
Results(kind) == IF kind = "image" THEN {"unsupported"} ELSE {"text", "review", "unreadable"}

ReadBytes(w) ==
  /\ run[w].at = "bytes"
  /\ IF Doc(w) \in bytes THEN \E x \in Results(doc[Doc(w)].kind) : Goto(w, x) ELSE Goto(w, "unreadable")
  /\ OnlyRun

\* No file, or extractText failed: the handler throws.
Unreadable(w) ==
  /\ run[w].at = "unreadable"
  /\ Status(w, "failed")
  /\ Done(w, "throw")
  /\ OnlyDocRun

\* The type is written over, confirmed or not.
Unsupported(w) ==
  /\ run[w].at = "unsupported"
  /\ doc' = [doc EXCEPT ![Doc(w)].status = "unsupported", ![Doc(w)].type = "fallback"]
  /\ Done(w, "requires_review")
  /\ OnlyDocRun

NoText(w) ==
  /\ run[w].at = "review"
  /\ doc' = [doc EXCEPT ![Doc(w)].status = "requires_review", ![Doc(w)].text = "none"]
  /\ Done(w, "requires_review")
  /\ OnlyDocRun

KeepText(w) ==
  /\ run[w].at = "text"
  /\ doc' = [doc EXCEPT ![Doc(w)].status = "processing", ![Doc(w)].text = "kept"]
  /\ Goto(w, "usage")
  /\ OnlyDocRun

\* Variant: one extraction more than the allowance.
WithinUsageOffByOne(n) == n <= Allowance

WithinUsage(n) == n < Allowance

\* checkAndCountUsage reads the counter ...
ReadUsage(w) ==
  /\ run[w].at = "usage"
  /\ IF WithinUsage(usage) THEN run' = [run EXCEPT ![w].at = "count", ![w].seen = usage]
                           ELSE Goto(w, "park")
  /\ OnlyRun

\* ... and writes what it read plus one; the first of the day inserts a row.
CountUsage(w) ==
  /\ run[w].at = "count"
  /\ run[w].seen = 0 => usage = 0
  /\ usage' = run[w].seen + 1
  /\ admitted' = admitted + 1
  /\ raced' = raced + IF \E v \in Workers \ {w} : run[v].at = "count" THEN 1 ELSE 0
  /\ Goto(w, "model")
  /\ UNCHANGED <<queue, payload, doc, confirmed, bytes, links, proposals, request, crossed, torn>>

\* Another run inserted the day's row first: the unique index throws.
UsageConflict(w) ==
  /\ run[w].at = "count"
  /\ run[w].seen = 0 /\ usage > 0
  /\ Done(w, "throw")
  /\ OnlyRun

\* The provider answers, or fails and the text is kept for the user.
AskModel(w) ==
  /\ run[w].at = "model"
  /\ Goto(w, "propose") \/ Goto(w, "park")
  /\ OnlyRun

\* Variants: a status of the job, not of the document, or none at all.
ParkStatusRunning(w) == Status(w, "running")
ParkStatusKept(w) == UNCHANGED doc

ParkStatus(w) == Status(w, "requires_review")

\* No proposals: over the allowance, or no answer from the provider.
Park(w) ==
  /\ run[w].at = "park"
  /\ ParkStatus(w)
  /\ Done(w, "requires_review")
  /\ OnlyDocRun

\* One event, fact or allegation and its document link.
Propose(w) ==
  /\ run[w].at = "propose"
  /\ run[w].item < Found
  /\ proposals' = proposals \cup {<<run[w].job, Attempt(w), run[w].item>>}
  /\ links' = links \cup {Doc(w)}
  /\ run' = [run EXCEPT ![w].item = @ + 1]
  /\ UNCHANGED <<queue, payload, doc, confirmed, bytes, usage, admitted, request, noted>>

\* A statement of the loop throws; the rows inserted so far remain.
ProposalThrows(w) ==
  /\ "proposal" \in Faults
  /\ run[w].at = "propose"
  /\ Done(w, "throw")
  /\ torn' = torn \cup {<<run[w].job, Attempt(w)>>}
  /\ UNCHANGED <<queue, payload, doc, confirmed, bytes, links, proposals, usage, admitted, request, crossed, raced>>

Complete(w) ==
  /\ run[w].at = "propose"
  /\ run[w].item = Found
  /\ doc' = [doc EXCEPT ![Doc(w)].status = "completed", ![Doc(w)].type = run[w].type]
  /\ Done(w, "completed")
  /\ OnlyDocRun

\* Variant: a job goes back to the queue whatever its handler answered.
SettledAsRetry(w) ==
  IF Attempt(w) < Limit[run[w].job] THEN "queued"
  ELSE IF run[w].verdict = "throw" THEN "failed" ELSE run[w].verdict

\* What runJob makes of the handler's answer.
SettledAs(w) ==
  IF run[w].verdict # "throw" THEN run[w].verdict
  ELSE IF Attempt(w) < Limit[run[w].job] THEN "queued" ELSE "failed"

Finish(w) ==
  /\ run[w].at = "finish"
  /\ Queue!Settle(w, run[w].job, SettledAs(w))
  /\ run' = [run EXCEPT ![w] = NoRun]
  /\ UNCHANGED <<payload, doc, confirmed, bytes, links, proposals, usage, admitted, request, noted>>

\* The worker dies: its job stays "processing".
Crash(w) ==
  /\ "crash" \in Faults
  /\ run[w].at # "idle"
  /\ Queue!Abandon(w, run[w].job)
  /\ run' = [run EXCEPT ![w] = NoRun]
  /\ UNCHANGED <<payload, doc, confirmed, bytes, links, proposals, usage, admitted, request, noted>>

-----------------------------------------------------------------------------

RequestStep(r) ==
  \/ InsertDocument(r) \/ \E j \in JobIds : Enqueue(r, j)
  \/ Retype(r) \/ LinkDocument(r) \/ Requeue(r)
  \/ EraseBytes(r) \/ MarkDeleted(r) \/ Unlink(r)

RunStep(w) ==
  \/ ReadDocument(w) \/ MarkProcessing(w) \/ ReadBytes(w)
  \/ Unreadable(w) \/ Unsupported(w) \/ NoText(w) \/ KeepText(w)
  \/ ReadUsage(w) \/ CountUsage(w) \/ UsageConflict(w) \/ AskModel(w) \/ Park(w)
  \/ Propose(w) \/ Complete(w) \/ Finish(w)

Next ==
  \/ \E r \in Requests :
       \/ RequestStep(r)
       \/ \E d \in Docs : StoreBytes(r, d) \/ \E p \in {"retype", "link", "requeue", "erase"} : Ask(r, d, p)
  \/ \E w \in Workers :
       RunStep(w) \/ ProposalThrows(w) \/ Crash(w) \/ \E j \in JobIds : Take(w, j)

\* The scheduler keeps taking jobs, and what was begun goes on.
Fairness ==
  /\ \A r \in Requests : WF_vars(RequestStep(r))
  /\ \A w \in Workers : WF_vars(RunStep(w))
  /\ WF_vars(\E w \in Workers, j \in JobIds : Take(w, j))

Spec     == Init /\ [][Next]_vars
FairSpec == Spec /\ Fairness

-----------------------------------------------------------------------------

RunPoints == {"idle", "read", "mark", "bytes", "unreadable", "unsupported", "review", "text",
              "usage", "count", "model", "park", "propose", "finish"}
RequestPoints == {"idle", "insert", "enqueue", "retype", "link", "requeue", "erase", "delete", "unlink"}

\* The tables, the runs and the requests are of the shape the schema and the code give them.
TypeOK ==
  /\ payload \in [JobIds -> Docs \cup {NoDoc}]
  /\ doc \in [Docs -> [life : {"absent", "live", "deleted"}, status : Statuses,
                       text : {"none", "kept"}, type : Types, kind : Kinds]]
  /\ confirmed \subseteq Docs /\ bytes \subseteq Docs /\ links \subseteq Docs
  /\ proposals \subseteq JobIds \X Nat \X Nat
  /\ usage \in Nat /\ admitted \in Nat /\ raced \in Nat
  /\ crossed \subseteq Docs \X {"choice", "deletion"} /\ torn \subseteq JobIds \X Nat
  /\ run \in [Workers -> [at : RunPoints, job : JobIds \cup {NoJob}, type : Types,
                          seen : Nat, item : 0..Found, verdict : Verdicts]]
  /\ request \in [Requests -> [at : RequestPoints, doc : Docs \cup {NoDoc}]]
  /\ \A w \in Workers : run[w].at = "idle" \/ <<w, run[w].job>> \in inHand

\* "A failing job never corrupts the case ... a failure only updates the job
\* row": a job that failed, or will be tried again, has proposed nothing, and
\* so no attempt repeats another's proposals, but for one that threw among its
\* own: the rows inserted so far remain.
FailureKeepsCase ==
  \A p \in proposals : phase[p[1]] \in {"queued", "failed"} => <<p[1], p[2]>> \in torn

\* The text was kept, and what the handler does next has thrown on the job's
\* last attempt: nothing there sets the status, and nobody will.
Stranded(d) == doc[d].text = "kept" /\ \E j \in JobIds : payload[j] = d /\ phase[j] = "failed"

\* "only the proposal step failed": a document that says it is waiting or
\* being read has a job that still owes it an answer, or had one that failed
\* for good after the text was kept.
BusyHasJob ==
  \A d \in Docs : Live(d) /\ doc[d].status \in Busy =>
    \/ \E j \in JobIds : payload[j] = d /\ phase[j] \in Busy
    \/ \E r \in RequestsOn(d) : request[r].at = "enqueue"
    \/ Stranded(d)

\* A docType the user has chosen stays, whatever runs come after or were under
\* way, but for two the code writes over: that of an image, whenever it is read
\* again, and one chosen while a run was past its own look at the document.
ChosenTypeStays ==
  \A d \in confirmed : \/ doc[d].type = "chosen"
                       \/ doc[d].kind = "image" /\ doc[d].type = "fallback"
                       \/ <<d, "choice">> \in crossed

\* A deleted document keeps no file; and neither text nor, once its requests are
\* over, any link, unless a run or a link had checked it before the deletion and
\* wrote after.
DeletedLeavesNothing ==
  \A d \in Docs : doc[d].life = "deleted" =>
    /\ d \notin bytes
    /\ \/ <<d, "deletion">> \in crossed
       \/ doc[d].text = "none" /\ (RequestsOn(d) = {} => d \notin links)

\* "Limits are enforced": no more extractions than the day's allowance, but one
\* for each count that was written while another run stood between its own read
\* and write.
WithinAllowance == admitted <= Allowance + raced

\* The worker of its job has died, and the job stays "processing" (see Jobs).
Orphaned(d) == \E j \in JobIds : payload[j] = d /\ phase[j] = "processing" /\ \A w \in Workers : <<w, j>> \notin inHand

\* Every document that is waiting gets an answer or is deleted, unless its
\* last attempt has thrown with the text kept, or its worker has died.
EveryDocumentSettles ==
  \A d \in Docs : Live(d) /\ doc[d].status \in Busy
                  ~> ~Live(d) \/ doc[d].status \notin Busy \/ Stranded(d) \/ Orphaned(d)

\* What the user sees of a document's jobs is so: one shown as waiting has a job
\* that will answer, and a job that failed has put nothing into the case.
WaitingIsHonest == BusyHasJob /\ FailureKeepsCase

\* What the user decided about a document holds against a run of its extraction:
\* the type that was chosen, and the deletion.
DecisionsHold == ChosenTypeStays /\ DeletedLeavesNothing

=============================================================================
