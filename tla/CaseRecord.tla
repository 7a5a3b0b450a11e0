----------------------------- MODULE CaseRecord -----------------------------
(***************************************************************************)
(* The record of one case and what is derived from it: facts, events and   *)
(* the other inputs; deadlines, claim candidates and artifacts computed    *)
(* from them; and cases/staleness.ts, which must mark a derived row stale  *)
(* when an input it was computed from changes.                             *)
(*                                                                         *)
(* A user's request writes the record and then calls markStale; a build    *)
(* reads the inputs one by one and then writes its rows.  Nothing is       *)
(* locked: requests and builds interleave between statements.  Contents    *)
(* are abstracted to what the hazard is about: whether the inputs a row    *)
(* was computed from have changed since they were read.                    *)
(***************************************************************************)
EXTENDS Integers, Sequences, FiniteSets

CONSTANTS
  Facts,     \* rows of the facts table
  Key,       \* the key of each: dismissal_date stands for the keys of
             \* staleKindsForFactKey's switch that deadlines read
  Events,    \* rows of the events table
  Others,    \* the other inputs that requests change
  Requests,  \* concurrent user requests
  Builders,  \* concurrent computations of derived rows
  MaxRows,   \* bound: different rows of the artifacts
  NoFact     \* no fact in hand

ASSUME CaseRecordAssumption ==
  /\ Key \in [Facts -> {"dismissal_date", "date_of_deduction", "none"}]
  /\ Others \subseteq {"profile", "issues", "acas", "outcome", "documents"}
  /\ MaxRows \in Nat
  /\ NoFact \notin Facts

VARIABLES
  fact,     \* status of each fact
  event,    \* status of each event
  derived,  \* the rows of each kind, as what can be said of their basis
  request,  \* where each request is, its fact, what it read, what it must mark
  build     \* where each build is, its kind, its reads and their basis

vars == <<fact, event, derived, request, build>>

\* markStale's kinds, in the order in which it writes them.
KindOrder == <<"deadlines", "claims", "artifacts">>
Kinds     == {"deadlines", "claims", "artifacts"}

FactStatus  == {"absent", "proposed", "confirmed", "rejected", "superseded"}
EventStatus == {"absent", "proposed", "confirmed", "rejected"}

\* A row is marked stale; or its inputs are as they were read, or have changed
\* since: by a write that is to be marked; by one whose mark went by before the
\* row was written; or by nothing but writes that are never marked.
Basis == {"current", "outdated", "missed", "unmarked"}
Rows  == Basis \cup {"stale"}

\* The order in which each build reads its inputs ...
Reads(k) ==
  CASE k = "deadlines" -> <<"profile", "issues", "acas", "dates", "outcome">>
    [] k = "claims"    -> <<"profile", "issues", "facts", "acas">>
    [] k = "artifacts" -> <<"events", "facts", "documents", "profile", "issues">>

\* ... and the number of reads before the old rows are deleted; artifacts
\* are versions, and none is.
ClearsAfter(k) == IF k = "artifacts" THEN 0 ELSE 4

NoRequest == [at |-> "idle", fact |-> NoFact, seen |-> "absent", owes |-> {}]
NoBuild   == [at |-> "idle", kind |-> "deadlines", reads |-> 0, basis |-> "current"]

Init ==
  /\ fact \in [Facts -> {"absent", "proposed"}]
  /\ event = [e \in Events |-> "proposed"]
  /\ derived = [k \in Kinds |-> {}]
  /\ request = [r \in Requests |-> NoRequest]
  /\ build = [b \in Builders |-> NoBuild]

-----------------------------------------------------------------------------
(* What a write to some inputs does to the rows and to the builds that     *)
(* have read one of them.                                                  *)

ReadBy(k, n, inputs) == \E m \in 1..n : Reads(k)[m] \in inputs

\* What a basis becomes: a write to be marked leaves all but a stale row
\* outdated, and one that is not leaves only what was right until then unmarked.
Aged(basis, wrong) ==
  IF basis = "stale" \/ (wrong = "unmarked" /\ basis # "current") THEN basis ELSE wrong

Ages(inputs, wrong) ==
  /\ derived' = [k \in Kinds |->
                   IF ReadBy(k, Len(Reads(k)), inputs)
                     THEN {Aged(row, wrong) : row \in derived[k]} ELSE derived[k]]
  /\ build' = [b \in Builders |->
                 IF ReadBy(build[b].kind, build[b].reads, inputs)
                   THEN [build[b] EXCEPT !.basis = Aged(@, wrong)] ELSE build[b]]

Changes(inputs) == Ages(inputs, "outdated")

\* A write that its handler marks nothing for.
Slips(inputs) == Ages(inputs, "unmarked")

\* Engines read confirmed facts, those with a key as dates too.
FactInputs(f, statuses) ==
  {i \in {"facts", "dates"} : "confirmed" \in statuses /\ (i = "dates" => Key[f] # "none")}

SetFact(f, status) ==
  /\ fact' = [fact EXCEPT ![f] = status]
  /\ Changes(FactInputs(f, {fact[f], status}))
  /\ UNCHANGED event

\* The engines rely on the event when it is, or becomes, confirmed.
EventInputs(e, status) == IF "confirmed" \in {event[e], status} THEN {"events"} ELSE {}

-----------------------------------------------------------------------------
(* Requests.  A write leaves the kinds its markStale call names "owed".    *)

\* Variant: dates are taken for ordinary facts.
StaleKindsNoDates(key) == {"claims", "artifacts"}

\* staleKindsForFactKey: date_of_deduction falls to the default.
StaleKinds(key) == IF key = "dismissal_date" THEN Kinds ELSE {"claims", "artifacts"}

\* The request has written and marks next; without kinds it is over.
Owing(kinds) == IF kinds = {} THEN NoRequest ELSE [NoRequest EXCEPT !.at = "mark", !.owes = kinds]
Owe(r, kinds) == request' = [request EXCEPT ![r] = Owing(kinds)]

\* addFact with status confirmed, or addFact and proposeFact without it.
AddFact(r, f, status) ==
  /\ request[r].at = "idle" /\ fact[f] = "absent"
  /\ SetFact(f, status)
  /\ Owe(r, IF status = "confirmed" THEN StaleKinds(Key[f]) ELSE {})

\* confirmFact, rejectFact and correctFact read the fact first; so does
\* setStructuredFact before it removes a confirmed date.
ReadFact(r, f, p) ==
  /\ request[r].at = "idle" /\ fact[f] # "absent"
  /\ p = "removeFact" => fact[f] = "confirmed" /\ Key[f] # "none"
  /\ request' = [request EXCEPT ![r] =
                   [at |-> p, fact |-> f, seen |-> IF p = "rejectFact" THEN fact[f] ELSE "absent", owes |-> {}]]
  /\ UNCHANGED <<fact, event, derived, build>>

ConfirmFact(r) ==
  LET f == request[r].fact IN
  /\ request[r].at = "confirmFact"
  /\ SetFact(f, "confirmed")
  /\ Owe(r, StaleKinds(Key[f]))

\* Variant: only a fact that was merely proposed is marked.
RejectMarksProposed(r) ==
  IF request[r].seen = "proposed" THEN StaleKinds(Key[request[r].fact]) ELSE {}

\* rejectFact marks what was confirmed when it looked.
RejectMarks(r) ==
  IF request[r].seen = "confirmed" THEN StaleKinds(Key[request[r].fact]) ELSE {}

RejectFact(r) ==
  /\ request[r].at = "rejectFact"
  /\ SetFact(request[r].fact, "rejected")
  /\ request[r].seen = "confirmed" \/ fact[request[r].fact] # "confirmed"
  /\ Owe(r, RejectMarks(r))

\* ... and nothing when another request has confirmed it since.
RejectUnseen(r) ==
  LET f == request[r].fact IN
  /\ request[r].at = "rejectFact"
  /\ request[r].seen # "confirmed" /\ fact[f] = "confirmed"
  /\ fact' = [fact EXCEPT ![f] = "rejected"]
  /\ Slips(FactInputs(f, {"confirmed"}))
  /\ Owe(r, {})
  /\ UNCHANGED event

\* correctFact: a confirmed row of the same key ...
CorrectFact(r, g) ==
  /\ request[r].at = "correctFact"
  /\ fact[g] = "absent" /\ Key[g] = Key[request[r].fact]
  /\ SetFact(g, "confirmed")
  /\ request' = [request EXCEPT ![r].at = "supersede"]

\* ... and then the old one is superseded; setStructuredFact's removal too.
Supersede(r) ==
  LET f == request[r].fact IN
  /\ request[r].at \in {"supersede", "removeFact"}
  /\ SetFact(f, "superseded")
  /\ Owe(r, StaleKinds(Key[f]))

\* A write to an event, read and written in one step here.
SetEvent(r, e, status, kinds) ==
  /\ request[r].at = "idle"
  /\ event' = [event EXCEPT ![e] = status]
  /\ Changes(EventInputs(e, status))
  /\ Owe(r, kinds)
  /\ UNCHANGED fact

\* addEvent and proposeEvent; the second marks nothing.
AddEvent(r, e) ==
  /\ event[e] = "absent"
  /\ SetEvent(r, e, "confirmed", {"claims", "artifacts"}) \/ SetEvent(r, e, "proposed", {})

\* confirmEvent, and what mergeEvents does to the event it keeps.
ConfirmEvent(r, e) ==
  event[e] # "absent" /\ SetEvent(r, e, "confirmed", {"claims", "artifacts"})

\* deleteEvent, and what mergeEvents does to the events it folds in.
DeleteEvent(r, e) ==
  event[e] # "absent" /\ SetEvent(r, e, "absent", {"claims", "artifacts"})

\* updateEvent: an edited proposal is confirmed; a new date marks deadlines too.
UpdateEvent(r, e) ==
  LET status == IF event[e] = "proposed" THEN "confirmed" ELSE event[e] IN
  /\ event[e] # "absent"
  /\ SetEvent(r, e, status, Kinds) \/ SetEvent(r, e, status, {"claims", "artifacts"})

\* rejectEvent takes any event, and marks nothing.
RejectEvent(r, e) ==
  /\ request[r].at = "idle" /\ event[e] # "absent"
  /\ event' = [event EXCEPT ![e] = "rejected"]
  /\ Slips(EventInputs(e, "rejected"))
  /\ UNCHANGED <<fact, request>>

\* Variant: Acas dates are process details like any other.
InputMarksNoAcas(i) ==
  IF i \in {"profile", "issues"} THEN Kinds ELSE {"artifacts"}

\* The kinds marked by updateCase and updateEmployment (for the jurisdiction, the
\* dates and the status), by the issues' service, by updateProcessData for Acas
\* dates, and by updateDocument for a type or a date.
InputMarks(i) ==
  IF i = "documents" THEN {"claims", "artifacts"} ELSE Kinds

ChangeInput(r, i) ==
  /\ i # "outcome" /\ request[r].at = "idle"
  /\ Changes({i})
  /\ Owe(r, InputMarks(i))
  /\ UNCHANGED <<fact, event>>

\* updateProcessData for the date of an outcome: deadlines read it, and it is the
\* artifacts that are marked.
ChangeOutcome(r) ==
  /\ "outcome" \in Others /\ request[r].at = "idle"
  /\ Slips({"outcome"})
  /\ Owe(r, {"artifacts"})
  /\ UNCHANGED <<fact, event>>

\* Nothing is marked by updateEmployment for the employer, the job or whether it
\* goes on, nor by addPerson; by an upload, the end of an extraction and
\* deleteDocument; nor by startProcess, which may come with Acas dates.
ChangeUnmarked(i) ==
  /\ i \in {"profile", "documents", "acas"}
  /\ Slips({i})
  /\ UNCHANGED <<fact, event, request>>

\* Variants: a status of another table; only rows that were current are written.
MarkedExpired(rows) == {"expired" : row \in rows}
MarkedCurrent(rows) == {IF row = "current" THEN "stale" ELSE row : row \in rows}

\* markStale writes every row of the kind.
Marked(rows) == {"stale" : row \in rows}

\* A build that has read what changed will write its row after the mark.
Missed(basis) == IF basis = "outdated" THEN "missed" ELSE basis

\* One UPDATE of markStale: the first kind still owed.
MarkStale(r) ==
  \E n \in 1..3 :
    LET k == KindOrder[n] IN
    /\ request[r].at = "mark"
    /\ k \in request[r].owes
    /\ \A m \in 1..(n - 1) : KindOrder[m] \notin request[r].owes
    /\ derived' = [derived EXCEPT ![k] = Marked(@)]
    /\ build' = [b \in Builders |->
                   IF build[b].kind = k THEN [build[b] EXCEPT !.basis = Missed(@)] ELSE build[b]]
    /\ Owe(r, request[r].owes \ {k})
    /\ UNCHANGED <<fact, event>>

-----------------------------------------------------------------------------
(* computeCaseDeadlines, identifyClaims and generateArtifact.              *)

\* On demand; the dashboard and the dates page do it when deadlines are stale.
\* Artifacts are built MaxRows times over what is there, a bound of the instance.
Begin(b, k) ==
  /\ build[b].at = "idle"
  /\ k = "artifacts" => Cardinality(derived[k]) < MaxRows
  /\ build' = [build EXCEPT ![b] = [at |-> "read", kind |-> k, reads |-> 0, basis |-> "current"]]
  /\ UNCHANGED <<fact, event, derived, request>>

Read(b) ==
  LET k == build[b].kind
      n == build[b].reads IN
  /\ build[b].at \in {"read", "cleared"}
  /\ n < Len(Reads(k))
  /\ build[b].at = "read" /\ k # "artifacts" => n < ClearsAfter(k)
  /\ build' = [build EXCEPT ![b].reads = n + 1]
  /\ UNCHANGED <<fact, event, derived, request>>

Clear(b) ==
  LET k == build[b].kind IN
  /\ build[b].at = "read" /\ k # "artifacts"
  /\ build[b].reads = ClearsAfter(k)
  /\ derived' = [derived EXCEPT ![k] = {}]
  /\ build' = [build EXCEPT ![b].at = "cleared"]
  /\ UNCHANGED <<fact, event, request>>

Insert(b) ==
  LET k == build[b].kind IN
  /\ build[b].at = IF k = "artifacts" THEN "read" ELSE "cleared"
  /\ build[b].reads = Len(Reads(k))
  /\ derived' = [derived EXCEPT ![k] = @ \cup {build[b].basis}]
  /\ build' = [build EXCEPT ![b] = NoBuild]
  /\ UNCHANGED <<fact, event, request>>

-----------------------------------------------------------------------------

\* A request that has begun goes on.
RequestStep(r) ==
  \/ ConfirmFact(r) \/ RejectFact(r) \/ RejectUnseen(r) \/ Supersede(r) \/ MarkStale(r)
  \/ \E g \in Facts : CorrectFact(r, g)

BuildStep(b) == Read(b) \/ Clear(b) \/ Insert(b)

\* A correction needs a row that is still free, a bound of the instance.
CanCorrect(f) == \E g \in Facts : fact[g] = "absent" /\ Key[g] = Key[f]

FactRequest(r) ==
  \E f \in Facts :
    \/ \E s \in {"proposed", "confirmed"} : AddFact(r, f, s)
    \/ \E p \in {"confirmFact", "rejectFact", "removeFact"} : ReadFact(r, f, p)
    \/ CanCorrect(f) /\ ReadFact(r, f, "correctFact")

EventRequest(r) ==
  \E e \in Events :
    AddEvent(r, e) \/ ConfirmEvent(r, e) \/ DeleteEvent(r, e) \/ UpdateEvent(r, e) \/ RejectEvent(r, e)

InputRequest(r) == ChangeOutcome(r) \/ \E i \in Others : ChangeInput(r, i)

RequestBegins(r) == FactRequest(r) \/ EventRequest(r) \/ InputRequest(r)

Next ==
  \/ \E r \in Requests : RequestStep(r) \/ RequestBegins(r)
  \/ \E i \in Others : ChangeUnmarked(i)
  \/ \E b \in Builders : BuildStep(b) \/ \E k \in Kinds : Begin(b, k)

Spec == Init /\ [][Next]_vars

\* A handler that has begun runs to its end; nothing says that users or pages
\* begin another.
FairSpec == Spec /\ \A r \in Requests : WF_vars(RequestStep(r))

-----------------------------------------------------------------------------

FactPoints == {"confirmFact", "rejectFact", "correctFact", "supersede", "removeFact"}
RequestRow == [at : {"idle", "mark"} \cup FactPoints, fact : Facts \cup {NoFact},
               seen : FactStatus, owes : SUBSET Kinds]
BuildRow   == [at : {"idle", "read", "cleared"}, kind : Kinds, reads : 0..5, basis : Basis]

\* The record, the requests and the builds are of the shape the code gives them.
TypeOK ==
  /\ fact \in [Facts -> FactStatus]
  /\ event \in [Events -> EventStatus]
  /\ derived \in [Kinds -> SUBSET Rows]
  /\ request \in [Requests -> RequestRow]
  /\ \A r \in Requests : request[r].at \in FactPoints => request[r].fact \in Facts
  /\ build \in [Builders -> BuildRow]
  /\ \A b \in Builders : build[b].reads <= Len(Reads(build[b].kind))

\* A request has still to mark the kind.
Owed(k) == \E r \in Requests : k \in request[r].owes \/ request[r].at = "supersede"

\* "Everything derived from it must be marked stale rather than left silently
\* wrong": a row outdated by a write that is to be marked, and not saying so, is
\* about to be marked by a request that wrote.  Set apart are, by the names of
\* their rows, the two ways in which the code does leave one silently wrong:
\* "unmarked", by the handlers that mark nothing, and "missed", by a build whose
\* row comes after the mark.
FreshOrStale == \A k \in Kinds : "outdated" \in derived[k] => Owed(k)

\* Such a row is silently wrong only for a while: a request that changed its
\* inputs gets to mark it, even when the row had been unmarked or missed before.
WrongIsTransient ==
  \A k \in Kinds : "outdated" \in derived[k] ~> "outdated" \notin derived[k]

=============================================================================
