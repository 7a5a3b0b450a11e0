----------------------------- MODULE Processes -----------------------------
(***************************************************************************)
(* Workplace processes of one case: coffeecup/src/processes/machines.ts    *)
(* and service.ts.  A request reads its process, checks what it read and   *)
(* writes by id; nothing it checked is in the WHERE of the write, so two   *)
(* requests of one process may each act on what the other is changing.     *)
(***************************************************************************)
EXTENDS Integers, Sequences, FiniteSets

CONSTANTS
  Procs,         \* ids of rows of the processes table
  TypeOf,        \* and the type each is started with
  Dates,         \* dates a user may enter
  NoDate,        \* the field is absent
  Editors,       \* concurrent requests
  MaxHistory,    \* bound: rows of process_transitions per process
  NoProc,
  Allegations,   \* ids of rows of the allegations table
  NoAllegation

ASSUME ProcessesAssumption ==
  /\ NoProc \notin Procs /\ NoDate \notin Dates /\ NoAllegation \notin Allegations
  /\ TypeOf \in [Procs -> {"grievance", "disciplinary", "grievance_appeal",
                           "disciplinary_appeal", "acas_early_conciliation", "informal"}]
  /\ MaxHistory \in Nat

\* The two fields of the Acas form that are mirrored to facts.
Fields == {"notificationDate", "certificateIssueDate"}

-----------------------------------------------------------------------------
(* The machines: for each state, the states the user may move to.          *)

GRIEVANCE_STATES ==
  {<<"considering", {"informal_action", "preparing_grievance", "closed"}>>,
   <<"informal_action", {"preparing_grievance", "closed", "escalated"}>>,
   <<"preparing_grievance", {"grievance_submitted", "closed"}>>,
   <<"grievance_submitted", {"meeting_pending", "outcome_received"}>>,
   <<"meeting_pending", {"meeting_completed", "outcome_received"}>>,
   <<"meeting_completed", {"outcome_pending"}>>,
   <<"outcome_pending", {"outcome_received"}>>,
   <<"outcome_received", {"appeal_considered", "closed", "escalated"}>>,
   <<"appeal_considered", {"appeal_submitted", "closed", "escalated"}>>,
   <<"appeal_submitted", {"appeal_outcome"}>>,
   <<"appeal_outcome", {"closed", "escalated"}>>,
   <<"closed", {}>>, <<"escalated", {}>>}

DISCIPLINARY_STATES ==
  {<<"investigation", {"allegations", "closed"}>>,
   <<"allegations", {"evidence_disclosure", "hearing_invitation"}>>,
   <<"evidence_disclosure", {"hearing_invitation"}>>,
   <<"hearing_invitation", {"preparation"}>>,
   <<"preparation", {"hearing"}>>,
   <<"hearing", {"outcome"}>>,
   <<"outcome", {"appeal", "closed", "escalated"}>>,
   <<"appeal", {"closed", "escalated"}>>,
   <<"closed", {}>>, <<"escalated", {}>>}

APPEAL_STATES ==
  {<<"grounds", {"drafting"}>>, <<"drafting", {"submitted"}>>,
   <<"submitted", {"hearing", "outcome"}>>, <<"hearing", {"outcome"}>>,
   <<"outcome", {"closed", "escalated"}>>, <<"closed", {}>>, <<"escalated", {}>>}

ACAS_STATES ==
  {<<"preparing", {"notified"}>>,
   <<"notified", {"conciliating", "certificate_issued"}>>,
   <<"conciliating", {"settled", "certificate_issued"}>>,
   <<"certificate_issued", {"closed", "escalated"}>>,
   <<"settled", {"closed"}>>, <<"closed", {}>>, <<"escalated", {}>>}

INFORMAL_STATES ==
  {<<"raised", {"resolved", "escalated"}>>, <<"resolved", {}>>, <<"escalated", {}>>}

\* statesFor
Machine(type) == CASE type = "grievance"               -> GRIEVANCE_STATES
                   [] type = "disciplinary"            -> DISCIPLINARY_STATES
                   [] type \in {"grievance_appeal", "disciplinary_appeal"} -> APPEAL_STATES
                   [] type = "acas_early_conciliation" -> ACAS_STATES
                   [] type = "informal"                -> INFORMAL_STATES

StatesFor(type) == {row[1] : row \in Machine(type)}

\* canTransition
CanTransitionAnywhere(type, from, to) == to \in StatesFor(type)   \* a mistake: no edge
CanTransition(type, from, to) == \E row \in Machine(type) : row[1] = from /\ to \in row[2]

-----------------------------------------------------------------------------
VARIABLES
  process,   \* state and data of each row, or state "absent"
  history,   \* rows of process_transitions, in the order they were written
  mirror,    \* the structured facts acas_day_a and acas_day_b in force
  alleged,   \* status of each allegation
  edit,      \* where each request is and what it has read
  crossed,   \* processes two of whose transitions overlapped, or one died
  mixed,     \* processes two of whose edits overlapped, or one died
  entered,   \* what the user last asked each field to be
  apart,     \* fields whose fact was changed by itself, or whose process was
             \* started with it, since they were last mirrored
  several,   \* fields with an older confirmed fact under the one in force
  reread     \* allegations two of whose updates overlapped

processVars == <<process, history, mirror, alleged, edit, crossed, mixed, entered, apart, several,
                 reread>>

NoData == [f \in Fields |-> NoDate]
NoEdit == [at |-> "idle", proc |-> NoProc, from |-> "none", to |-> "none", data |-> NoData,
           patched |-> {}, allegation |-> NoAllegation]

ProcessesInit ==
  /\ process = [p \in Procs |-> [state |-> "absent", data |-> NoData]]
  /\ history = [p \in Procs |-> <<>>]
  /\ mirror = NoData
  /\ alleged = [a \in Allegations |-> "absent"]
  /\ edit = [r \in Editors |-> NoEdit]
  /\ crossed = {} /\ mixed = {} /\ reread = {} /\ apart = {} /\ several = {}
  /\ entered = [p \in Procs |-> NoData]

Free(r)       == edit[r].at = "idle"
Doing(r, step) == edit[r].at = step
Finish(r)     == edit' = [edit EXCEPT ![r] = NoEdit]

\* Requests that are about to write a process's state, its data, an allegation.
Moving(p)  == {r \in Editors : edit[r].proc = p /\ edit[r].at \in {"state", "row"}}
Merging(p) == {r \in Editors : edit[r].proc = p /\ edit[r].at \in {"data", "mirror"}}
Judging(a) == {r \in Editors : edit[r].allegation = a}

IsAcas(p) == TypeOf[p] = "acas_early_conciliation"

AddIf(set, x, condition) == IF condition THEN set \cup {x} ELSE set

-----------------------------------------------------------------------------
(* startProcess and transitionProcess.                                     *)

\* The row, in the machine's first state or the valid one asked for, with the
\* data sent, whose Acas dates are not mirrored.
StartProcess(r, p, s, data) ==
  /\ Free(r) /\ process[p].state = "absent" /\ s \in StatesFor(TypeOf[p])
  /\ process' = [process EXCEPT ![p] = [state |-> s, data |-> data]]
  /\ edit' = [edit EXCEPT ![r] = [NoEdit EXCEPT !.at = "row", !.proc = p, !.to = s]]
  /\ entered' = [entered EXCEPT ![p] = data]
  /\ apart' = IF IsAcas(p) THEN apart \cup {f \in Fields : data[f] # NoDate} ELSE apart
  /\ UNCHANGED <<history, mirror, alleged, crossed, mixed, several, reread>>

AskTransition(r, p, to) ==
  LET from == process[p].state IN
  /\ Free(r) /\ from # "absent"
  /\ Len(history[p]) + Cardinality(Moving(p)) < MaxHistory
  /\ CanTransition(TypeOf[p], from, to)
  /\ edit' = [edit EXCEPT ![r] = [NoEdit EXCEPT !.at = "state", !.proc = p, !.from = from, !.to = to]]
  /\ crossed' = AddIf(crossed, p, Moving(p) # {})
  /\ UNCHANGED <<process, history, mirror, alleged, mixed, entered, apart, several, reread>>

WriteState(r) ==
  /\ Doing(r, "state")
  /\ process' = [process EXCEPT ![edit[r].proc].state = edit[r].to]
  /\ edit' = [edit EXCEPT ![r].at = "row"]
  /\ UNCHANGED <<history, mirror, alleged, crossed, mixed, entered, apart, several, reread>>

\* The history row has the state read at the start, not the one overwritten.
HistoryRowFromWritten(r) == <<process[edit[r].proc].state, edit[r].to>>   \* a mistake
HistoryRow(r)            == <<edit[r].from, edit[r].to>>

WriteHistory(r) ==
  /\ Doing(r, "row")
  /\ history' = [history EXCEPT ![edit[r].proc] = Append(@, HistoryRow(r))]
  /\ Finish(r)
  /\ UNCHANGED <<process, mirror, alleged, crossed, mixed, entered, apart, several, reread>>

-----------------------------------------------------------------------------
(* updateProcessData: a shallow merge of the patch into the data read.     *)

MergeReplaces(old, patch) == patch                                        \* a mistake
Merge(old, patch) == [f \in Fields |-> IF f \in DOMAIN patch THEN patch[f] ELSE old[f]]

AskUpdateData(r, p, patch) ==
  /\ Free(r) /\ process[p].state # "absent" /\ DOMAIN patch # {}
  /\ edit' = [edit EXCEPT ![r] = [NoEdit EXCEPT
       !.at = "data", !.proc = p, !.patched = DOMAIN patch,
       !.data = Merge(process[p].data, patch)]]
  /\ entered' = [entered EXCEPT ![p] = Merge(@, patch)]
  /\ mixed' = AddIf(mixed, p, Merging(p) # {})
  /\ UNCHANGED <<process, history, mirror, alleged, crossed, apart, several, reread>>

\* A mistake: the patch alone is written.
MergedPatchOnly(r) == Merge(NoData, [f \in edit[r].patched |-> edit[r].data[f]])
Merged(r)          == edit[r].data

WriteData(r) ==
  /\ Doing(r, "data")
  /\ process' = [process EXCEPT ![edit[r].proc].data = Merged(r)]
  /\ IF IsAcas(edit[r].proc)
       THEN edit' = [edit EXCEPT ![r].at = "mirror"]
       ELSE Finish(r)
  /\ UNCHANGED <<history, mirror, alleged, crossed, mixed, entered, apart, several, reread>>

\* Without the confirmed fact in force, an older confirmed one is, if any.
Left(f) == IF f \in several THEN Dates \cup {NoDate} ELSE {NoDate}

\* setStructuredFact for each Acas date in the patch; one cleared ends the
\* newest fact.  (CaseRecord has the fact's own statements, and markStale.)
ClearedStays(f, value) == IF value = NoDate THEN {mirror[f]} ELSE {value} \* a mistake
FactFor(f, value)      == IF value = NoDate THEN Left(f) ELSE {value}

MirrorDates(r) ==
  LET patched == edit[r].patched
      cleared == {f \in patched : edit[r].data[f] = NoDate} IN
  /\ Doing(r, "mirror")
  /\ \E facts \in [Fields -> Dates \cup {NoDate}] :
       /\ \A f \in Fields : facts[f] \in IF f \in patched THEN FactFor(f, edit[r].data[f]) ELSE {mirror[f]}
       /\ mirror' = facts
       /\ several' = {f \in several : facts[f] # NoDate}
  /\ apart' = (apart \ patched) \cup (cleared \cap several)
  /\ Finish(r)
  /\ UNCHANGED <<process, history, alleged, crossed, mixed, entered, reread>>

-----------------------------------------------------------------------------
(* The facts acas_day_a and acas_day_b, changed by themselves.             *)

ChangeFact(f, value) ==
  /\ mirror' = [mirror EXCEPT ![f] = value]
  /\ apart' = apart \cup {f}
  /\ UNCHANGED <<process, history, alleged, edit, crossed, mixed, entered, reread>>

\* addFact with status confirmed, and confirmFact: another row of the key.
RecordFact(f, d) == ChangeFact(f, d) /\ several' = AddIf(several, f, mirror[f] # NoDate)

\* correctFact, and setStructuredFact with a date: the row is replaced.
CorrectFact(f, d) == ChangeFact(f, d) /\ several' = several

\* rejectFact of the row in force, and setStructuredFact with none.
RemoveFact(f, left) ==
  /\ mirror[f] # NoDate /\ left \in Left(f)
  /\ ChangeFact(f, left)
  /\ several' = IF left = NoDate THEN several \ {f} ELSE several

-----------------------------------------------------------------------------
(* Allegations.                                                            *)

\* addAllegation by the user, or the proposal of an extraction job.
AddAllegation(a, status) ==
  /\ alleged[a] = "absent"
  /\ alleged' = [alleged EXCEPT ![a] = status]
  /\ UNCHANGED <<process, history, mirror, edit, crossed, mixed, entered, apart, several, reread>>

\* updateAllegation reads the row; an edit of a proposal accepts it.
AnswerReopens(status, asked) == IF asked # "none" THEN asked ELSE "open"   \* a mistake
Answer(status, asked) == IF asked # "none" THEN asked
                         ELSE IF status = "proposed" THEN "open" ELSE "same"

AskUpdateAllegation(r, a, asked) ==
  /\ Free(r) /\ alleged[a] \notin {"absent", "deleted"}
  /\ edit' = [edit EXCEPT ![r] = [NoEdit EXCEPT !.at = "allegation", !.allegation = a,
                                               !.from = asked, !.to = Answer(alleged[a], asked)]]
  /\ reread' = AddIf(reread, a, Judging(a) # {})
  /\ UNCHANGED <<process, history, mirror, alleged, crossed, mixed, entered, apart, several>>

WriteAllegation(r) ==
  LET a == edit[r].allegation IN
  /\ Doing(r, "allegation")
  /\ alleged' = IF alleged[a] = "deleted" \/ edit[r].to = "same" THEN alleged
                ELSE [alleged EXCEPT ![a] = edit[r].to]
  /\ Finish(r)
  /\ UNCHANGED <<process, history, mirror, crossed, mixed, entered, apart, several, reread>>

DeleteAllegation(a) ==
  /\ alleged[a] \notin {"absent", "deleted"}
  /\ alleged' = [alleged EXCEPT ![a] = "deleted"]
  /\ UNCHANGED <<process, history, mirror, edit, crossed, mixed, entered, apart, several, reread>>

\* A request ends in an exception between two of its statements.
BreakEdit(r) ==
  LET p == edit[r].proc IN
  /\ ~Free(r)
  /\ crossed' = AddIf(crossed, p, r \in Moving(p))
  /\ mixed' = AddIf(mixed, p, r \in Merging(p))
  /\ Finish(r)
  /\ UNCHANGED <<process, history, mirror, alleged, entered, apart, several, reread>>

-----------------------------------------------------------------------------
Answers == {"none", "responded", "withdrawn"}

StartSteps(r, p) ==
  \/ \E s \in StatesFor(TypeOf[p]), data \in [Fields -> Dates \cup {NoDate}] : StartProcess(r, p, s, data)
  \/ edit[r].proc = p /\ WriteHistory(r)

TransitionSteps(r, p) ==
  \/ \E s \in StatesFor(TypeOf[p]) : AskTransition(r, p, s)
  \/ edit[r].proc = p /\ WriteState(r)

EditSteps(r, p) ==
  \/ \E fields \in SUBSET Fields : \E patch \in [fields -> Dates \cup {NoDate}] :
       AskUpdateData(r, p, patch)
  \/ edit[r].proc = p /\ (WriteData(r) \/ MirrorDates(r))

FactSteps(f) == \/ \E d \in Dates : RecordFact(f, d) \/ CorrectFact(f, d)
                \/ \E left \in Dates \cup {NoDate} : RemoveFact(f, left)

AllegationSteps(r, a) ==
  \/ \E s \in {"proposed", "open"} : AddAllegation(a, s)
  \/ \E asked \in Answers : AskUpdateAllegation(r, a, asked)
  \/ DeleteAllegation(a)
  \/ edit[r].allegation = a /\ WriteAllegation(r)

ProcessesNext ==
  \E r \in Editors : \/ \E p \in Procs : StartSteps(r, p) \/ TransitionSteps(r, p) \/ EditSteps(r, p)
                     \/ \E a \in Allegations : AllegationSteps(r, a)
                     \/ \E f \in Fields : FactSteps(f)
                     \/ BreakEdit(r)

ProcessesSpec == ProcessesInit /\ [][ProcessesNext]_processVars

-----------------------------------------------------------------------------
(* Properties.                                                             *)

AllStates == UNION {StatesFor(TypeOf[p]) : p \in Procs}

ProcessesTypeOK ==
  /\ \A p \in Procs : /\ process[p].state \in StatesFor(TypeOf[p]) \cup {"absent"}
                      /\ process[p].data \in [Fields -> Dates \cup {NoDate}]
                      /\ history[p] \in Seq((AllStates \cup {"none"}) \X AllStates)
  /\ mirror \in [Fields -> Dates \cup {NoDate}]
  /\ alleged \in [Allegations -> {"absent", "proposed", "open", "responded", "withdrawn", "deleted"}]
  /\ \A r \in Editors : edit[r].at \in {"idle", "state", "row", "data", "mirror", "allegation"}
  /\ crossed \cup mixed \subseteq Procs /\ reread \subseteq Allegations
  /\ apart \cup several \subseteq Fields

\* "The record always shows where the process is" (machines.ts): unless two
\* transitions of a process overlapped, its history is one path of the
\* machine that ends in its state.
HistoryTellsState ==
  \A p \in Procs \ crossed : process[p].state # "absent" /\ Moving(p) = {} =>
    LET h == history[p] IN
    /\ h # <<>> /\ h[1][1] = "none" /\ h[Len(h)][2] = process[p].state
    /\ \A i \in 2..Len(h) : h[i][1] = h[i - 1][2] /\ CanTransition(TypeOf[p], h[i][1], h[i][2])

\* A process moves along an edge of its machine, whoever else is at it: only
\* transitions that overlapped can take it from where it is to a state that is
\* not offered there (out of a closed one, say).
MovesAlongEdges ==
  [][\A p \in Procs : process[p].state # "absent" /\ process'[p].state # process[p].state =>
       \/ \E row \in Machine(TypeOf[p]) : row[1] = process[p].state /\ process'[p].state \in row[2]
       \/ p \in crossed]_processVars

\* Edits of different fields of one process add up: unless two edits of it
\* overlapped, it holds for every field what the user last entered.
EditsAddUp ==
  \A p \in Procs \ mixed : Merging(p) = {} => process[p].data = entered[p]

\* "Acas dates are mirrored to facts": with one Acas process and no edits of it
\* that overlapped, each fact is the process's date, cleared ones included,
\* however the facts were changed by themselves: only a field that was changed
\* that way, or started with, since its last edit, or cleared over an older
\* fact, is apart.
AcasProcs == {p \in Procs : IsAcas(p)}

MirrorIsTrue ==
  \A p \in AcasProcs : AcasProcs = {p} /\ p \notin mixed /\ Merging(p) = {} =>
    \A f \in Fields \ apart : mirror[f] = process[p].data[f]

\* An edit without a status never takes back an answer or a withdrawal, unless
\* it overlapped another.
AnswersStay ==
  [][\A a \in Allegations \ reread :
       alleged[a] \in {"responded", "withdrawn"} /\ alleged'[a] \notin {alleged[a], "deleted"} =>
         \E r \in Editors : edit[r].allegation = a /\ edit[r].from # "none"]_processVars

\* The recorded history of a process is a path of its machine that ends in its
\* state, except where two transitions crossed.
HistoryIsAPath == [][HistoryTellsState']_processVars /\ MovesAlongEdges

\* What the user entered about a process is what the others read: fields of
\* different edits add up, the facts mirror them, and answers stay.
EntriesAreKept == [][EditsAddUp' /\ MirrorIsTrue']_processVars /\ AnswersStay

=============================================================================
