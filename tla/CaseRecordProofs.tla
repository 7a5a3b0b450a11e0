-------------------------- MODULE CaseRecordProofs --------------------------
(***************************************************************************)
(* Proofs about CaseRecord for any facts, events, requests and builders:   *)
(* its types, and that a row which a write has left wrong is marked or     *)
(* about to be, but for the writes that mark nothing and the builds that a *)
(* mark overtakes, over the keys that the dependency map of staleness.ts   *)
(* covers.                                                                 *)
(***************************************************************************)
EXTENDS CaseRecord, TLAPS

\* The keys whose changes the code marks for every kind that reads them.
Mapped == \A f \in Facts : Key[f] # "date_of_deduction"

-----------------------------------------------------------------------------
(* What the builds read.                                                   *)

LEMMA ReadsWhat ==
  ASSUME NEW k \in Kinds
  PROVE  /\ Len(Reads(k)) \in 4..5
         /\ ClearsAfter(k) \in {0, 4}
         /\ \A m \in 1..Len(Reads(k)) :
              /\ Reads(k)[m] = "dates" => k = "deadlines"
              /\ Reads(k)[m] = "facts" => k \in {"claims", "artifacts"}
              /\ Reads(k)[m] = "events" => k = "artifacts"
              /\ Reads(k)[m] = "documents" => k = "artifacts"
<1>1. CASE k = "deadlines" BY <1>1 DEF Reads, ClearsAfter
<1>2. CASE k = "claims" BY <1>2 DEF Reads, ClearsAfter
<1>3. CASE k = "artifacts" BY <1>3 DEF Reads, ClearsAfter
<1> QED BY <1>1, <1>2, <1>3 DEF Kinds

\* A fact's change is read only by builds of the kinds that are marked for it.
LEMMA FactsCovered ==
  ASSUME NEW f \in Facts, NEW statuses, Key[f] \in {"dismissal_date", "none"},
         NEW k \in Kinds, NEW n \in 0..Len(Reads(k)), ReadBy(k, n, FactInputs(f, statuses))
  PROVE  k \in StaleKinds(Key[f]) /\ "confirmed" \in statuses
<1>1. PICK m \in 1..n : Reads(k)[m] \in FactInputs(f, statuses) BY DEF ReadBy
<1>2. m \in 1..Len(Reads(k)) BY <1>1, ReadsWhat
<1>3. "confirmed" \in statuses BY <1>1 DEF FactInputs
<1>4. CASE Key[f] = "none"
  <2>1. Reads(k)[m] = "facts" BY <1>1, <1>3, <1>4 DEF FactInputs
  <2> QED BY <2>1, <1>2, <1>3, <1>4, ReadsWhat DEF StaleKinds
<1>5. CASE Key[f] # "none" BY <1>3, <1>5 DEF StaleKinds
<1> QED BY <1>4, <1>5

LEMMA EventsCovered ==
  ASSUME NEW k \in Kinds, NEW n \in 0..Len(Reads(k)), ReadBy(k, n, {"events"})
  PROVE  k = "artifacts"
BY ReadsWhat DEF ReadBy

LEMMA InputsCovered ==
  ASSUME NEW i \in Others \ {"outcome"},
         NEW k \in Kinds, NEW n \in 0..Len(Reads(k)), ReadBy(k, n, {i})
  PROVE  k \in InputMarks(i)
<1>1. i = "documents" => k = "artifacts" BY ReadsWhat DEF ReadBy
<1> QED BY <1>1 DEF InputMarks

-----------------------------------------------------------------------------
(* Types.                                                                  *)

LEMMA RecordTypeInit == Init => TypeOK
<1> SUFFICES ASSUME Init PROVE TypeOK
  OBVIOUS
<1>1. NoRequest \in RequestRow /\ NoRequest.at = "idle"
  BY DEF NoRequest, RequestRow, FactStatus
<1>2. NoBuild \in BuildRow /\ NoBuild.reads = 0 /\ NoBuild.kind \in Kinds
  BY DEF NoBuild, BuildRow, Kinds, Basis
<1>3. \A b \in Builders : build[b].reads <= Len(Reads(build[b].kind))
  BY <1>2, ReadsWhat DEF Init
<1> QED BY <1>1, <1>2, <1>3 DEF Init, TypeOK, FactStatus, EventStatus, FactPoints

LEMMA OwingTyped ==
  ASSUME NEW kinds \in SUBSET Kinds
  PROVE  /\ Owing(kinds) \in RequestRow /\ Owing(kinds).at \in {"idle", "mark"}
         /\ Owing(kinds).owes = kinds
         /\ Owing(kinds).at = "idle" => kinds = {}
BY DEF Owing, NoRequest, RequestRow, FactStatus

\* Ageing and missing a mark keep a build's place.
LEMMA AgedBuild ==
  ASSUME NEW row \in BuildRow, NEW wrong \in {"outdated", "unmarked"}
  PROVE  /\ [row EXCEPT !.basis = Aged(@, wrong)] \in BuildRow
         /\ [row EXCEPT !.basis = Missed(@)] \in BuildRow
BY DEF BuildRow, Basis, Aged, Missed

LEMMA AgesTyped ==
  ASSUME TypeOK, NEW inputs, NEW wrong \in {"outdated", "unmarked"}, Ages(inputs, wrong)
  PROVE  /\ derived' \in [Kinds -> SUBSET Rows]
         /\ build' \in [Builders -> BuildRow]
         /\ \A b \in Builders : build'[b].reads <= Len(Reads(build'[b].kind))
<1>1. derived' \in [Kinds -> SUBSET Rows]
  <2>1. \A row \in Rows : Aged(row, wrong) \in Rows BY DEF Rows, Basis, Aged
  <2> QED BY <2>1 DEF Ages, TypeOK
<1>2. ASSUME NEW b \in Builders
      PROVE  build'[b] \in BuildRow /\ build'[b].reads = build[b].reads /\ build'[b].kind = build[b].kind
  <2>1. build[b] \in BuildRow BY DEF TypeOK
  <2>2. build'[b] = build[b] \/ build'[b] = [build[b] EXCEPT !.basis = Aged(@, wrong)]
    BY DEF Ages
  <2> QED BY <2>1, <2>2, AgedBuild DEF BuildRow
<1>3. build' \in [Builders -> BuildRow] BY <1>2 DEF Ages
<1> QED BY <1>1, <1>2, <1>3 DEF TypeOK

\* A request that owes, or is over, and one that has an existing fact in hand.
LEMMA RequestTyped ==
  ASSUME TypeOK, NEW r \in Requests, NEW row \in RequestRow,
         row.at \in FactPoints => row.fact \in Facts,
         request' = [request EXCEPT ![r] = row]
  PROVE  /\ request' \in [Requests -> RequestRow]
         /\ \A q \in Requests : request'[q].at \in FactPoints => request'[q].fact \in Facts
BY DEF TypeOK

LEMMA OweTyped ==
  ASSUME TypeOK, NEW r \in Requests, NEW kinds \in SUBSET Kinds, Owe(r, kinds)
  PROVE  /\ request' \in [Requests -> RequestRow]
         /\ \A q \in Requests : request'[q].at \in FactPoints => request'[q].fact \in Facts
<1>1. Owing(kinds) \in RequestRow /\ Owing(kinds).at \notin FactPoints
  BY OwingTyped DEF FactPoints
<1> QED BY <1>1, RequestTyped DEF Owe

LEMMA MarksTyped ==
  /\ \A key : StaleKinds(key) \in SUBSET Kinds
  /\ \A r \in Requests : RejectMarks(r) \in SUBSET Kinds
  /\ \A i \in Others : InputMarks(i) \in SUBSET Kinds
  /\ {"artifacts"} \in SUBSET Kinds
<1>1. (\A key : StaleKinds(key) \in SUBSET Kinds) /\ {"artifacts"} \in SUBSET Kinds
  BY DEF StaleKinds, Kinds
<1>2. \A i \in Others : InputMarks(i) \in SUBSET Kinds BY DEF InputMarks, Kinds
<1> QED BY <1>1, <1>2 DEF RejectMarks

\* The write of a fact, and of an event.
LEMMA FactWriteTyped ==
  ASSUME TypeOK, NEW r \in Requests, NEW f \in Facts, NEW status \in FactStatus,
         SetFact(f, status), NEW kinds \in SUBSET Kinds, Owe(r, kinds)
  PROVE  TypeOK'
<1>1. fact' \in [Facts -> FactStatus] /\ event' \in [Events -> EventStatus]
  BY DEF SetFact, TypeOK
<1>2. Ages(FactInputs(f, {fact[f], status}), "outdated") BY DEF SetFact, Changes
<1> QED BY <1>1, <1>2, AgesTyped, OweTyped DEF TypeOK

LEMMA EventWriteTyped ==
  ASSUME TypeOK, NEW r \in Requests, NEW e \in Events, NEW status \in EventStatus,
         NEW kinds \in SUBSET Kinds, SetEvent(r, e, status, kinds)
  PROVE  TypeOK'
<1>1. fact' \in [Facts -> FactStatus] /\ event' \in [Events -> EventStatus]
  BY DEF SetEvent, TypeOK
<1>2. PICK inputs : Ages(inputs, "outdated") BY DEF SetEvent, Changes
<1>3. Owe(r, kinds) BY DEF SetEvent
<1> QED BY <1>1, <1>2, <1>3, AgesTyped, OweTyped DEF TypeOK

\* A write that is not marked, of a request that goes on or is over.
LEMMA SlipTyped ==
  ASSUME TypeOK, NEW inputs, Slips(inputs),
         fact' \in [Facts -> FactStatus], event' \in [Events -> EventStatus],
         request' = request \/ \E r \in Requests : \E kinds \in SUBSET Kinds : Owe(r, kinds)
  PROVE  TypeOK'
<1>1. Ages(inputs, "unmarked") BY DEF Slips
<1>2. /\ request' \in [Requests -> RequestRow]
      /\ \A q \in Requests : request'[q].at \in FactPoints => request'[q].fact \in Facts
  BY OweTyped DEF TypeOK
<1> QED BY <1>1, <1>2, AgesTyped DEF TypeOK

LEMMA BeginsTyped ==
  ASSUME TypeOK, NEW r \in Requests, RequestBegins(r)
  PROVE  TypeOK'
<1>1. ASSUME NEW f \in Facts, NEW s \in {"proposed", "confirmed"}, AddFact(r, f, s) PROVE TypeOK'
  <2>1. PICK kinds \in SUBSET Kinds : Owe(r, kinds)
    <3>1. (IF s = "confirmed" THEN StaleKinds(Key[f]) ELSE {}) \in SUBSET Kinds BY MarksTyped
    <3> QED BY <1>1, <3>1 DEF AddFact
  <2> QED BY <1>1, <2>1, FactWriteTyped DEF AddFact, FactStatus
<1>2. ASSUME NEW f \in Facts, NEW p \in FactPoints, ReadFact(r, f, p) PROVE TypeOK'
  <2> DEFINE seen == IF p = "rejectFact" THEN fact[f] ELSE "absent"
             row  == [at |-> p, fact |-> f, seen |-> seen, owes |-> {}]
  <2>1. seen \in FactStatus BY DEF TypeOK, FactStatus
  <2>2. row \in RequestRow BY <2>1 DEF RequestRow
  <2>3. request' = [request EXCEPT ![r] = row] /\ row.fact \in Facts BY <1>2 DEF ReadFact
  <2> HIDE DEF row
  <2>4. /\ request' \in [Requests -> RequestRow]
        /\ \A q \in Requests : request'[q].at \in FactPoints => request'[q].fact \in Facts
    BY <2>2, <2>3, RequestTyped
  <2> QED BY <1>2, <2>4 DEF ReadFact, TypeOK
<1>3. ASSUME NEW e \in Events, AddEvent(r, e) \/ ConfirmEvent(r, e) \/ DeleteEvent(r, e) \/ UpdateEvent(r, e)
      PROVE  TypeOK'
  <2>1. event[e] \in EventStatus BY DEF TypeOK
  <2>2. PICK status \in EventStatus, kinds \in SUBSET Kinds : SetEvent(r, e, status, kinds)
    BY <1>3, <2>1 DEF AddEvent, ConfirmEvent, DeleteEvent, UpdateEvent, EventStatus, Kinds
  <2> QED BY <2>2, EventWriteTyped
<1>4. ASSUME NEW i \in Others, ChangeInput(r, i) PROVE TypeOK'
  <2>1. Owe(r, InputMarks(i)) /\ Ages({i}, "outdated") BY <1>4 DEF ChangeInput, Changes
  <2>2. InputMarks(i) \in SUBSET Kinds BY MarksTyped
  <2> QED BY <1>4, <2>1, <2>2, AgesTyped, OweTyped DEF ChangeInput, TypeOK
<1>5. ASSUME NEW e \in Events, RejectEvent(r, e) PROVE TypeOK'
  <2>1. event' \in [Events -> EventStatus] /\ fact' \in [Facts -> FactStatus] /\ request' = request
    BY <1>5 DEF RejectEvent, TypeOK, EventStatus
  <2>2. PICK inputs : Slips(inputs) BY <1>5 DEF RejectEvent
  <2> QED BY <2>1, <2>2, SlipTyped
<1>6. CASE ChangeOutcome(r)
  <2>1. /\ Slips({"outcome"}) /\ Owe(r, {"artifacts"})
        /\ fact' \in [Facts -> FactStatus] /\ event' \in [Events -> EventStatus]
    BY <1>6 DEF ChangeOutcome, TypeOK
  <2> QED BY <2>1, MarksTyped, SlipTyped
<1>7. CASE FactRequest(r) BY <1>1, <1>2, <1>7 DEF FactRequest, FactPoints
<1>8. CASE EventRequest(r) BY <1>3, <1>5, <1>8 DEF EventRequest
<1>9. CASE InputRequest(r) BY <1>4, <1>6, <1>9 DEF InputRequest
<1> QED BY <1>7, <1>8, <1>9 DEF RequestBegins

\* One UPDATE of markStale, whichever kind it is for.
MarksKind(r, k) ==
  /\ request[r].at = "mark"
  /\ derived' = [derived EXCEPT ![k] = Marked(@)]
  /\ build' = [b \in Builders |->
                 IF build[b].kind = k THEN [build[b] EXCEPT !.basis = Missed(@)] ELSE build[b]]
  /\ Owe(r, request[r].owes \ {k})
  /\ UNCHANGED <<fact, event>>

LEMMA MarksOneKind ==
  ASSUME NEW r \in Requests, MarkStale(r)
  PROVE  \E k \in Kinds : MarksKind(r, k)
<1>1. PICK n \in 1..3 : MarksKind(r, KindOrder[n]) BY DEF MarkStale, MarksKind
<1>2. KindOrder[1] \in Kinds /\ KindOrder[2] \in Kinds /\ KindOrder[3] \in Kinds
  BY DEF KindOrder, Kinds
<1>3. KindOrder[n] \in Kinds BY <1>2
<1> HIDE DEF KindOrder
<1> QED BY <1>1, <1>3

LEMMA StepsTyped ==
  ASSUME TypeOK, NEW r \in Requests, RequestStep(r)
  PROVE  TypeOK'
<1>1. \A key : StaleKinds(key) \in SUBSET Kinds BY MarksTyped
<1>2. CASE ConfirmFact(r)
  <2>1. request[r].fact \in Facts BY <1>2 DEF ConfirmFact, TypeOK, FactPoints
  <2> QED BY <1>1, <1>2, <2>1, FactWriteTyped DEF ConfirmFact, FactStatus
<1>3. CASE RejectFact(r)
  <2>1. request[r].fact \in Facts BY <1>3 DEF RejectFact, TypeOK, FactPoints
  <2> QED BY <1>3, <2>1, MarksTyped, FactWriteTyped DEF RejectFact, FactStatus
<1>7. CASE RejectUnseen(r)
  <2>1. /\ fact' \in [Facts -> FactStatus] /\ event' \in [Events -> EventStatus]
        /\ Owe(r, {}) /\ Slips(FactInputs(request[r].fact, {"confirmed"}))
    BY <1>7 DEF RejectUnseen, TypeOK, FactStatus
  <2> QED BY <2>1, SlipTyped
<1>4. CASE Supersede(r)
  <2>1. request[r].fact \in Facts BY <1>4 DEF Supersede, TypeOK, FactPoints
  <2> QED BY <1>1, <1>4, <2>1, FactWriteTyped DEF Supersede, FactStatus
<1>5. ASSUME NEW g \in Facts, CorrectFact(r, g) PROVE TypeOK'
  <2>1. request[r] \in RequestRow /\ request[r].fact \in Facts
    BY <1>5 DEF CorrectFact, TypeOK, FactPoints
  <2> DEFINE row == [request[r] EXCEPT !.at = "supersede"]
  <2>2. row \in RequestRow /\ row.fact \in Facts BY <2>1 DEF RequestRow, FactPoints
  <2>3. request' = [request EXCEPT ![r] = row] BY <1>5 DEF CorrectFact
  <2> HIDE DEF row
  <2>4. /\ request' \in [Requests -> RequestRow]
        /\ \A q \in Requests : request'[q].at \in FactPoints => request'[q].fact \in Facts
    BY <2>2, <2>3, RequestTyped
  <2>5. fact' \in [Facts -> FactStatus] /\ event' \in [Events -> EventStatus]
    BY <1>5 DEF CorrectFact, SetFact, TypeOK, FactStatus
  <2>6. PICK inputs : Ages(inputs, "outdated") BY <1>5 DEF CorrectFact, SetFact, Changes
  <2> QED BY <2>4, <2>5, <2>6, AgesTyped DEF TypeOK
<1>6. CASE MarkStale(r)
  <2>1. PICK k \in Kinds : MarksKind(r, k) BY <1>6, MarksOneKind
  <2> USE DEF MarksKind
  <2>2. derived' \in [Kinds -> SUBSET Rows] BY <2>1 DEF TypeOK, Marked, Rows
  <2>3. ASSUME NEW b \in Builders
        PROVE  build'[b] \in BuildRow /\ build'[b].reads = build[b].reads /\ build'[b].kind = build[b].kind
    <3>1. build[b] \in BuildRow BY DEF TypeOK
    <3>2. build'[b] = build[b] \/ build'[b] = [build[b] EXCEPT !.basis = Missed(@)] BY <2>1
    <3> QED BY <3>1, <3>2, AgedBuild DEF BuildRow
  <2>4. build' \in [Builders -> BuildRow] BY <2>1, <2>3
  <2>5. request[r].owes \ {k} \in SUBSET Kinds BY DEF TypeOK, RequestRow
  <2>6. /\ request' \in [Requests -> RequestRow]
        /\ \A q \in Requests : request'[q].at \in FactPoints => request'[q].fact \in Facts
    BY <2>1, <2>5, OweTyped
  <2> QED BY <2>1, <2>2, <2>3, <2>4, <2>6 DEF TypeOK
<1> QED BY <1>2, <1>3, <1>4, <1>5, <1>6, <1>7 DEF RequestStep

LEMMA BuildsTyped ==
  ASSUME TypeOK, NEW b \in Builders, BuildStep(b) \/ \E k \in Kinds : Begin(b, k)
  PROVE  TypeOK'
<1>1. build[b] \in BuildRow /\ build[b].reads <= Len(Reads(build[b].kind)) /\ build[b].kind \in Kinds
  BY DEF TypeOK, BuildRow
<1>2. ASSUME NEW row \in BuildRow, row.reads <= Len(Reads(row.kind)),
             build' = [build EXCEPT ![b] = row]
      PROVE  /\ build' \in [Builders -> BuildRow]
             /\ \A c \in Builders : build'[c].reads <= Len(Reads(build'[c].kind))
  BY <1>2 DEF TypeOK
<1>3. ASSUME NEW k \in Kinds, Begin(b, k) PROVE TypeOK'
  <2> DEFINE row == [at |-> "read", kind |-> k, reads |-> 0, basis |-> "current"]
  <2>1. row \in BuildRow BY DEF BuildRow, Basis
  <2>2. row.reads <= Len(Reads(row.kind)) BY ReadsWhat
  <2> QED BY <1>2, <1>3, <2>1, <2>2 DEF Begin, TypeOK
<1>4. CASE Read(b)
  <2> DEFINE row == [build[b] EXCEPT !.reads = build[b].reads + 1]
  <2>1. row \in BuildRow /\ row.reads <= Len(Reads(row.kind))
    BY <1>1, <1>4, ReadsWhat DEF Read, BuildRow
  <2>2. build' = [build EXCEPT ![b] = row] BY <1>4 DEF Read
  <2> HIDE DEF row
  <2> QED BY <1>2, <1>4, <2>1, <2>2 DEF Read, TypeOK
<1>5. CASE Clear(b)
  <2> DEFINE row == [build[b] EXCEPT !.at = "cleared"]
  <2>1. row \in BuildRow /\ row.reads <= Len(Reads(row.kind))
    BY <1>1 DEF BuildRow
  <2>2. build' = [build EXCEPT ![b] = row] BY <1>5 DEF Clear
  <2> HIDE DEF row
  <2>3. derived' \in [Kinds -> SUBSET Rows] BY <1>5 DEF Clear, TypeOK
  <2> QED BY <1>2, <1>5, <2>1, <2>2, <2>3 DEF Clear, TypeOK
<1>6. CASE Insert(b)
  <2>1. NoBuild \in BuildRow /\ NoBuild.reads <= Len(Reads(NoBuild.kind))
    <3>1. NoBuild \in BuildRow /\ NoBuild.reads = 0 /\ NoBuild.kind \in Kinds
      BY DEF NoBuild, BuildRow, Kinds, Basis
    <3> QED BY <3>1, ReadsWhat
  <2>2. derived' \in [Kinds -> SUBSET Rows] BY <1>1, <1>6 DEF Insert, TypeOK, BuildRow, Rows
  <2> QED BY <1>2, <1>6, <2>1, <2>2 DEF Insert, TypeOK
<1> QED BY <1>3, <1>4, <1>5, <1>6 DEF BuildStep

LEMMA RecordTypeStep == TypeOK /\ [Next]_vars => TypeOK'
<1> SUFFICES ASSUME TypeOK, [Next]_vars PROVE TypeOK'
  OBVIOUS
<1>1. CASE UNCHANGED vars BY <1>1 DEF vars, TypeOK
<1>2. ASSUME NEW i \in Others, ChangeUnmarked(i) PROVE TypeOK'
  <2>1. /\ Slips({i}) /\ request' = request
        /\ fact' \in [Facts -> FactStatus] /\ event' \in [Events -> EventStatus]
    BY <1>2 DEF ChangeUnmarked, TypeOK
  <2> QED BY <2>1, SlipTyped
<1> QED BY <1>1, <1>2, StepsTyped, BeginsTyped, BuildsTyped DEF Next

\* The tables, the requests and the builds keep the shape the code gives
\* them, whatever requests and builds run at once.
THEOREM RecordTypeCorrect == Spec => []TypeOK
BY RecordTypeInit, RecordTypeStep, PTL DEF Spec

-----------------------------------------------------------------------------
(* Nothing is silently wrong.                                              *)

\* The kinds a request will still mark, with what correctFact adds when it
\* supersedes.
Marks(r, k) ==
  \/ k \in request[r].owes
  \/ request[r].at = "supersede" /\ k \in StaleKinds(Key[request[r].fact])

\* A row, or a build that will write one, was computed from inputs that have
\* changed, and no mark has gone over the kind since.
Wrong(k) ==
  \/ "outdated" \in derived[k]
  \/ \E b \in Builders : build[b].kind = k /\ build[b].basis = "outdated"

\* Every wrong kind is going to be marked.
WrongIsOwed  == \A k \in Kinds : Wrong(k) => \E r \in Requests : Marks(r, k)
OwesAtMark   == \A r \in Requests : request[r].at # "mark" => request[r].owes = {}

CaseInv == TypeOK /\ WrongIsOwed /\ OwesAtMark

LEMMA CaseInvFresh == CaseInv => FreshOrStale
BY DEF CaseInv, WrongIsOwed, Wrong, Marks, FreshOrStale, Owed

LEMMA CaseInvInit == Init => CaseInv
<1> SUFFICES ASSUME Init PROVE CaseInv
  OBVIOUS
<1>1. \A k \in Kinds : ~Wrong(k) BY DEF Init, Wrong, NoBuild
<1>2. OwesAtMark BY DEF Init, OwesAtMark, NoRequest
<1> QED BY <1>1, <1>2, RecordTypeInit DEF CaseInv, WrongIsOwed

\* The rest of the requests are where they were.
Aside(r) == \A q \in Requests : q # r => request'[q] = request[q]

\* What a write makes wrong is owed, if the writer owes what reads the inputs.
LEMMA WriteOwed ==
  ASSUME CaseInv, NEW r \in Requests, NEW inputs, Changes(inputs), Aside(r),
         \A k \in Kinds : Marks(r, k) => Marks(r, k)',
         \A k \in Kinds : \A n \in 0..Len(Reads(k)) : ReadBy(k, n, inputs) => Marks(r, k)'
  PROVE  WrongIsOwed'
<1> SUFFICES ASSUME NEW k \in Kinds, Wrong(k)' PROVE \E q \in Requests : Marks(q, k)'
  BY DEF WrongIsOwed
<1>1. Wrong(k) => \E q \in Requests : Marks(q, k)'
  <2> SUFFICES ASSUME Wrong(k) PROVE \E q \in Requests : Marks(q, k)'
    OBVIOUS
  <2>1. PICK q \in Requests : Marks(q, k) BY DEF CaseInv, WrongIsOwed
  <2>2. CASE q = r BY <2>1, <2>2
  <2>3. CASE q # r BY <2>1, <2>3 DEF Aside, Marks
  <2> QED BY <2>2, <2>3
<1>2. CASE ReadBy(k, Len(Reads(k)), inputs)
  <2>1. Len(Reads(k)) \in 0..Len(Reads(k)) BY ReadsWhat
  <2> QED BY <1>2, <2>1
<1>3. CASE "outdated" \in derived'[k] /\ ~ReadBy(k, Len(Reads(k)), inputs)
  <2>1. derived'[k] = derived[k] BY <1>3 DEF Changes, Ages
  <2> QED BY <1>1, <1>3, <2>1 DEF Wrong
<1>4. ASSUME NEW b \in Builders, build'[b].kind = k, build'[b].basis = "outdated"
      PROVE  \E q \in Requests : Marks(q, k)'
  <2>1. build[b] \in BuildRow /\ build[b].reads \in 0..Len(Reads(build[b].kind))
    <3>1. build[b] \in BuildRow /\ build[b].reads <= Len(Reads(build[b].kind)) BY DEF CaseInv, TypeOK
    <3>2. build[b].kind \in Kinds /\ build[b].reads \in 0..5 BY <3>1 DEF BuildRow
    <3>3. Len(Reads(build[b].kind)) \in 4..5 BY <3>2, ReadsWhat
    <3> QED BY <3>1, <3>2, <3>3
  <2>2. CASE ReadBy(build[b].kind, build[b].reads, inputs)
    <3>1. build'[b] = [build[b] EXCEPT !.basis = Aged(@, "outdated")] BY <2>2 DEF Changes, Ages
    <3>2. build[b].kind = k BY <2>1, <3>1, <1>4 DEF BuildRow
    <3> QED BY <2>1, <2>2, <3>2
  <2>3. CASE ~ReadBy(build[b].kind, build[b].reads, inputs)
    <3>1. build'[b] = build[b] BY <2>3 DEF Changes, Ages
    <3> QED BY <1>1, <1>4, <3>1 DEF Wrong
  <2> QED BY <2>2, <2>3
<1> QED BY <1>2, <1>3, <1>4 DEF Wrong

\* A write that is not marked leaves nothing wrong that was not.
LEMMA SlipLeaves ==
  ASSUME TypeOK, NEW inputs, Slips(inputs), NEW k \in Kinds, Wrong(k)'
  PROVE  Wrong(k)
<1>1. CASE "outdated" \in derived'[k]
  <2>1. "outdated" \in derived[k] BY <1>1 DEF Slips, Ages, Aged
  <2> QED BY <2>1 DEF Wrong
<1>2. ASSUME NEW b \in Builders, build'[b].kind = k, build'[b].basis = "outdated"
      PROVE  Wrong(k)
  <2>1. build[b] \in BuildRow BY DEF TypeOK
  <2>2. build'[b] = build[b] \/ build'[b] = [build[b] EXCEPT !.basis = Aged(@, "unmarked")]
    BY DEF Slips, Ages
  <2>3. build[b].kind = k /\ build[b].basis = "outdated"
    BY <1>2, <2>1, <2>2 DEF BuildRow, Aged
  <2> QED BY <2>3 DEF Wrong
<1> QED BY <1>1, <1>2 DEF Wrong

\* The request's own row after it has written: what it owes, and no more.
LEMMA OweMarks ==
  ASSUME TypeOK, NEW r \in Requests, NEW kinds \in SUBSET Kinds, Owe(r, kinds)
  PROVE  /\ \A k \in Kinds : Marks(r, k)' <=> k \in kinds
         /\ Aside(r)
         /\ OwesAtMark => OwesAtMark'
<1>1. request'[r] = Owing(kinds) /\ Aside(r) BY DEF Owe, TypeOK, Aside
<1>2. request'[r].owes = kinds /\ request'[r].at \in {"idle", "mark"}
      /\ (request'[r].at = "idle" => kinds = {})
  BY <1>1, OwingTyped
<1>3. \A k \in Kinds : Marks(r, k)' <=> k \in kinds BY <1>2 DEF Marks
<1>4. OwesAtMark => OwesAtMark'
  BY <1>1, <1>2 DEF Aside, OwesAtMark
<1> QED BY <1>1, <1>3, <1>4

\* A write of a request that owed nothing it does not owe afterwards.
LEMMA WriteKeeps ==
  ASSUME CaseInv, TypeOK', NEW r \in Requests, NEW inputs, Changes(inputs),
         NEW kinds \in SUBSET Kinds, Owe(r, kinds),
         \A k \in Kinds : Marks(r, k) => k \in kinds,
         \A k \in Kinds : \A n \in 0..Len(Reads(k)) : ReadBy(k, n, inputs) => k \in kinds
  PROVE  CaseInv'
<1>1. TypeOK BY DEF CaseInv
<1>2. /\ \A k \in Kinds : Marks(r, k)' <=> k \in kinds
      /\ Aside(r) /\ OwesAtMark'
  BY <1>1, OweMarks DEF CaseInv
<1>3. WrongIsOwed' BY <1>2, WriteOwed
<1> QED BY <1>2, <1>3 DEF CaseInv

\* A write that is not marked, by a request that owed nothing.
LEMMA SlipKeeps ==
  ASSUME CaseInv, TypeOK', NEW inputs, Slips(inputs),
         request' = request \/ \E r \in Requests : \E kinds \in SUBSET Kinds :
                                 Owe(r, kinds) /\ request[r].at \notin {"mark", "supersede"}
  PROVE  CaseInv'
<1>1. TypeOK BY DEF CaseInv
<1>2. \A k \in Kinds : Wrong(k)' => Wrong(k) BY <1>1, SlipLeaves
<1>3. CASE request' = request
  BY <1>2, <1>3 DEF CaseInv, WrongIsOwed, OwesAtMark, Marks
<1>4. ASSUME NEW r \in Requests, NEW kinds \in SUBSET Kinds,
             Owe(r, kinds), request[r].at \notin {"mark", "supersede"}
      PROVE  CaseInv'
  <2>1. Aside(r) /\ OwesAtMark' BY <1>1, <1>4, OweMarks DEF CaseInv
  <2>2. \A k \in Kinds : ~Marks(r, k) BY <1>4 DEF CaseInv, OwesAtMark, Marks
  <2>3. \A k \in Kinds : \A q \in Requests : Marks(q, k) => Marks(q, k)'
    BY <2>1, <2>2 DEF Aside, Marks
  <2>4. WrongIsOwed' BY <1>2, <2>3 DEF CaseInv, WrongIsOwed
  <2> QED BY <2>1, <2>4 DEF CaseInv
<1> QED BY <1>3, <1>4

LEMMA NothingMarked ==
  ASSUME CaseInv, NEW r \in Requests, request[r].at \notin {"mark", "supersede"}, NEW k \in Kinds
  PROVE  ~Marks(r, k)
BY DEF CaseInv, OwesAtMark, Marks

LEMMA FactWriteKeeps ==
  ASSUME Mapped, CaseInv, NEW r \in Requests, NEW f \in Facts,
         NEW status \in FactStatus, SetFact(f, status),
         NEW kinds \in SUBSET Kinds, Owe(r, kinds),
         \A k \in Kinds : Marks(r, k) => k \in kinds,
         "confirmed" \in {fact[f], status} => StaleKinds(Key[f]) \subseteq kinds
  PROVE  CaseInv'
<1>1. TypeOK BY DEF CaseInv
<1>2. TypeOK' BY <1>1, FactWriteTyped
<1>3. Key[f] \in {"dismissal_date", "none"} BY CaseRecordAssumption DEF Mapped
<1>4. Changes(FactInputs(f, {fact[f], status})) BY DEF SetFact
<1>5. ASSUME NEW k \in Kinds, NEW n \in 0..Len(Reads(k)), ReadBy(k, n, FactInputs(f, {fact[f], status}))
      PROVE  k \in kinds
  BY <1>3, <1>5, FactsCovered
<1> QED BY <1>2, <1>4, <1>5, WriteKeeps

LEMMA EventWriteKeeps ==
  ASSUME CaseInv, NEW r \in Requests, NEW e \in Events,
         NEW status \in EventStatus, NEW kinds \in SUBSET Kinds,
         SetEvent(r, e, status, kinds),
         "confirmed" \in {event[e], status} => "artifacts" \in kinds
  PROVE  CaseInv'
<1>1. TypeOK BY DEF CaseInv
<1>2. TypeOK' BY <1>1, EventWriteTyped
<1> DEFINE inputs == EventInputs(e, status)
<1>3. Changes(inputs) /\ Owe(r, kinds) /\ request[r].at = "idle" BY DEF SetEvent
<1>4. ASSUME NEW k \in Kinds, NEW n \in 0..Len(Reads(k)), ReadBy(k, n, inputs)
      PROVE  k \in kinds
  <2>1. inputs = {"events"} /\ "artifacts" \in kinds BY <1>4 DEF ReadBy, EventInputs
  <2>2. k = "artifacts" BY <1>4, <2>1, EventsCovered
  <2> QED BY <2>1, <2>2
<1> HIDE DEF inputs
<1>5. \A k \in Kinds : Marks(r, k) => k \in kinds BY <1>3, NothingMarked
<1> QED BY <1>2, <1>3, <1>4, <1>5, WriteKeeps

LEMMA BeginsKeep ==
  ASSUME Mapped, CaseInv, NEW r \in Requests, RequestBegins(r)
  PROVE  CaseInv'
<1>1. TypeOK /\ TypeOK' BY BeginsTyped DEF CaseInv
<1>2. ASSUME NEW f \in Facts, NEW s \in {"proposed", "confirmed"}, AddFact(r, f, s) PROVE CaseInv'
  <2> DEFINE kinds == IF s = "confirmed" THEN StaleKinds(Key[f]) ELSE {}
  <2>1. kinds \in SUBSET Kinds BY MarksTyped
  <2>2. SetFact(f, s) /\ Owe(r, kinds) /\ fact[f] = "absent" /\ request[r].at = "idle"
    BY <1>2 DEF AddFact
  <2>3. "confirmed" \in {fact[f], s} => StaleKinds(Key[f]) \subseteq kinds BY <2>2
  <2>4. \A k \in Kinds : Marks(r, k) => k \in kinds BY <2>2, NothingMarked
  <2> HIDE DEF kinds
  <2> QED BY <2>1, <2>2, <2>3, <2>4, FactWriteKeeps DEF FactStatus
<1>3. ASSUME NEW f \in Facts, NEW p \in FactPoints \ {"supersede"}, ReadFact(r, f, p) PROVE CaseInv'
  <2>1. /\ request'[r].at = p /\ request'[r].owes = {} /\ Aside(r)
        /\ request[r].at = "idle" /\ UNCHANGED <<fact, event, derived, build>>
    BY <1>1, <1>3 DEF ReadFact, TypeOK, Aside
  <2>2. \A k \in Kinds : ~Marks(r, k) /\ (Wrong(k)' => Wrong(k))
    BY <2>1, NothingMarked DEF Wrong
  <2>3. WrongIsOwed' BY <2>1, <2>2 DEF CaseInv, WrongIsOwed, Marks, Aside
  <2>4. OwesAtMark' BY <2>1 DEF CaseInv, OwesAtMark, Aside
  <2> QED BY <1>1, <2>3, <2>4 DEF CaseInv
<1>4. ASSUME NEW e \in Events, AddEvent(r, e) \/ ConfirmEvent(r, e) \/ DeleteEvent(r, e) \/ UpdateEvent(r, e)
      PROVE  CaseInv'
  <2>1. event[e] \in EventStatus BY <1>1 DEF TypeOK
  <2>2. PICK status \in EventStatus, kinds \in SUBSET Kinds :
          /\ SetEvent(r, e, status, kinds)
          /\ "confirmed" \in {event[e], status} => "artifacts" \in kinds
    <3>1. CASE AddEvent(r, e) BY <3>1 DEF AddEvent, EventStatus, Kinds
    <3>2. CASE ConfirmEvent(r, e) BY <3>2 DEF ConfirmEvent, EventStatus, Kinds
    <3>3. CASE DeleteEvent(r, e) BY <3>3 DEF DeleteEvent, EventStatus, Kinds
    <3>4. CASE UpdateEvent(r, e) BY <2>1, <3>4 DEF UpdateEvent, EventStatus, Kinds
    <3> QED BY <1>4, <3>1, <3>2, <3>3, <3>4
  <2> QED BY <2>2, EventWriteKeeps
<1>5. ASSUME NEW i \in Others, ChangeInput(r, i) PROVE CaseInv'
  <2>1. Owe(r, InputMarks(i)) /\ Changes({i}) /\ request[r].at = "idle" /\ i # "outcome"
    BY <1>5 DEF ChangeInput
  <2>2. InputMarks(i) \in SUBSET Kinds BY MarksTyped
  <2>4. \A k \in Kinds : \A n \in 0..Len(Reads(k)) : ReadBy(k, n, {i}) => k \in InputMarks(i)
    BY <2>1, InputsCovered
  <2>5. \A k \in Kinds : Marks(r, k) => k \in InputMarks(i) BY <2>1, NothingMarked
  <2> QED BY <1>1, <2>1, <2>2, <2>4, <2>5, WriteKeeps
<1>6. ASSUME NEW e \in Events, RejectEvent(r, e) PROVE CaseInv'
  <2>1. PICK inputs : Slips(inputs) BY <1>6 DEF RejectEvent
  <2> QED BY <1>1, <1>6, <2>1, SlipKeeps DEF RejectEvent
<1>7. CASE ChangeOutcome(r)
  <2>1. Slips({"outcome"}) /\ Owe(r, {"artifacts"}) /\ request[r].at = "idle" BY <1>7 DEF ChangeOutcome
  <2> QED BY <1>1, <2>1, MarksTyped, SlipKeeps
<1>8. CASE FactRequest(r) BY <1>2, <1>3, <1>8 DEF FactRequest, FactPoints
<1>9. CASE EventRequest(r) BY <1>4, <1>6, <1>9 DEF EventRequest
<1>10. CASE InputRequest(r) BY <1>5, <1>7, <1>10 DEF InputRequest
<1> QED BY <1>8, <1>9, <1>10 DEF RequestBegins

\* The mark goes over rows and builds alike.
LEMMA MarkKeeps ==
  ASSUME CaseInv, TypeOK', NEW r \in Requests, NEW k \in Kinds, MarksKind(r, k)
  PROVE  CaseInv'
<1>1. TypeOK BY DEF CaseInv
<1>2. request[r].owes \ {k} \in SUBSET Kinds BY <1>1 DEF TypeOK, RequestRow
<1>3. /\ \A j \in Kinds : Marks(r, j)' <=> j \in request[r].owes \ {k}
      /\ Aside(r) /\ OwesAtMark'
  BY <1>1, <1>2, OweMarks DEF MarksKind, CaseInv
<1>4. ~Wrong(k)'
  <2>1. "outdated" \notin derived'[k] BY <1>1 DEF MarksKind, Marked, TypeOK
  <2>2. ASSUME NEW b \in Builders, build'[b].kind = k PROVE build'[b].basis # "outdated"
    <3>1. build[b] \in BuildRow BY <1>1 DEF TypeOK
    <3>2. CASE build[b].kind = k
      <4>1. build'[b] = [build[b] EXCEPT !.basis = Missed(@)] BY <3>2 DEF MarksKind
      <4> QED BY <3>1, <4>1 DEF BuildRow, Missed
    <3>3. CASE build[b].kind # k BY <2>2, <3>3 DEF MarksKind
    <3> QED BY <3>2, <3>3
  <2> QED BY <2>1, <2>2 DEF Wrong
<1>5. ASSUME NEW j \in Kinds, j # k, Wrong(j)' PROVE Wrong(j)
  <2>1. derived'[j] = derived[j] BY <1>1, <1>5 DEF MarksKind, TypeOK
  <2>2. ASSUME NEW b \in Builders, build'[b].kind = j PROVE build'[b] = build[b]
    <3>1. build[b] \in BuildRow BY <1>1 DEF TypeOK
    <3>2. build[b].kind # k
      <4> SUFFICES ASSUME build[b].kind = k PROVE FALSE
        OBVIOUS
      <4>1. build'[b] = [build[b] EXCEPT !.basis = Missed(@)] BY DEF MarksKind
      <4> QED BY <1>5, <2>2, <3>1, <4>1 DEF BuildRow
    <3> QED BY <3>2 DEF MarksKind
  <2> QED BY <1>5, <2>1, <2>2 DEF Wrong
<1>6. \A j \in Kinds : Marks(r, j) => j \in request[r].owes
  BY DEF Marks, MarksKind
<1>7. \A j \in Kinds \ {k} : \A q \in Requests : Marks(q, j) => Marks(q, j)'
  BY <1>3, <1>6 DEF Aside, Marks
<1>8. WrongIsOwed' BY <1>4, <1>5, <1>7 DEF CaseInv, WrongIsOwed
<1> QED BY <1>3, <1>8 DEF CaseInv

LEMMA StepsKeep ==
  ASSUME Mapped, CaseInv, NEW r \in Requests, RequestStep(r)
  PROVE  CaseInv'
<1>1. TypeOK /\ TypeOK' BY StepsTyped DEF CaseInv
<1>2. \A key : StaleKinds(key) \in SUBSET Kinds BY MarksTyped
<1>3. CASE ConfirmFact(r)
  <2>1. request[r].fact \in Facts BY <1>1, <1>3 DEF ConfirmFact, TypeOK, FactPoints
  <2>2. \A k \in Kinds : ~Marks(r, k) BY <1>3, NothingMarked DEF ConfirmFact
  <2> QED BY <1>2, <1>3, <2>1, <2>2, FactWriteKeeps DEF ConfirmFact, FactStatus
<1>4. CASE RejectFact(r)
  <2>1. request[r].fact \in Facts BY <1>1, <1>4 DEF RejectFact, TypeOK, FactPoints
  <2>2. \A k \in Kinds : ~Marks(r, k) BY <1>4, NothingMarked DEF RejectFact
  <2>3. RejectMarks(r) \in SUBSET Kinds BY MarksTyped
  <2>4. "confirmed" \in {fact[request[r].fact], "rejected"}
          => StaleKinds(Key[request[r].fact]) \subseteq RejectMarks(r)
    BY <1>4 DEF RejectFact, RejectMarks
  <2> QED BY <1>4, <2>1, <2>2, <2>3, <2>4, FactWriteKeeps DEF RejectFact, FactStatus
<1>8. CASE RejectUnseen(r)
  <2>1. PICK inputs : Slips(inputs) BY <1>8 DEF RejectUnseen
  <2>2. Owe(r, {}) /\ request[r].at = "rejectFact" BY <1>8 DEF RejectUnseen
  <2> QED BY <1>1, <2>1, <2>2, SlipKeeps
<1>5. CASE Supersede(r)
  <2>1. request[r].fact \in Facts BY <1>1, <1>5 DEF Supersede, TypeOK, FactPoints
  <2>2. \A k \in Kinds : Marks(r, k) => k \in StaleKinds(Key[request[r].fact])
    BY <1>5 DEF Supersede, Marks, CaseInv, OwesAtMark
  <2> QED BY <1>2, <1>5, <2>1, <2>2, FactWriteKeeps DEF Supersede, FactStatus
<1>6. ASSUME NEW g \in Facts, CorrectFact(r, g) PROVE CaseInv'
  <2>1. /\ Changes(FactInputs(g, {fact[g], "confirmed"}))
        /\ Key[g] = Key[request[r].fact] /\ request[r].at = "correctFact"
        /\ request'[r] = [request[r] EXCEPT !.at = "supersede"] /\ request[r] \in RequestRow
        /\ Aside(r)
    BY <1>1, <1>6 DEF CorrectFact, SetFact, TypeOK, Aside
  <2>2. /\ request'[r].at = "supersede" /\ request'[r].owes = request[r].owes
        /\ request'[r].fact = request[r].fact
    BY <2>1 DEF RequestRow
  <2>3. \A k \in Kinds : k \in StaleKinds(Key[g]) => Marks(r, k)' BY <2>1, <2>2 DEF Marks
  <2>4. \A k \in Kinds : ~Marks(r, k) BY <2>1, NothingMarked
  <2>5. Key[g] \in {"dismissal_date", "none"} BY CaseRecordAssumption DEF Mapped
  <2>6. ASSUME NEW k \in Kinds, NEW n \in 0..Len(Reads(k)),
               ReadBy(k, n, FactInputs(g, {fact[g], "confirmed"}))
        PROVE  Marks(r, k)'
    BY <2>3, <2>5, <2>6, FactsCovered
  <2>7. WrongIsOwed' BY <2>1, <2>4, <2>6, WriteOwed
  <2>8. OwesAtMark' BY <2>1, <2>2 DEF Aside, OwesAtMark, CaseInv
  <2> QED BY <1>1, <2>7, <2>8 DEF CaseInv
<1>7. CASE MarkStale(r)
  <2>1. PICK k \in Kinds : MarksKind(r, k) BY <1>7, MarksOneKind
  <2> QED BY <1>1, <2>1, MarkKeeps
<1> QED BY <1>3, <1>4, <1>5, <1>6, <1>7, <1>8 DEF RequestStep

\* A build makes a row wrong only by writing one it was itself wrong about.
LEMMA BuildsKeep ==
  ASSUME CaseInv, NEW b \in Builders, BuildStep(b) \/ \E k \in Kinds : Begin(b, k)
  PROVE  CaseInv'
<1>1. TypeOK /\ TypeOK' BY BuildsTyped DEF CaseInv
<1>2. UNCHANGED <<fact, request>> BY DEF BuildStep, Read, Clear, Insert, Begin
<1>3. build[b] \in BuildRow BY <1>1 DEF TypeOK
<1>4. ASSUME NEW j \in Kinds, Wrong(j)' PROVE Wrong(j)
  <2>1. CASE \E k \in Kinds : Begin(b, k)
    <3>1. derived' = derived /\ build'[b].basis = "current"
      BY <1>1, <2>1 DEF Begin, TypeOK
    <3>2. \A c \in Builders : c # b => build'[c] = build[c] BY <1>1, <2>1 DEF Begin, TypeOK
    <3> QED BY <1>4, <3>1, <3>2 DEF Wrong
  <2>2. CASE Read(b)
    <3>1. derived' = derived /\ build'[b].basis = build[b].basis /\ build'[b].kind = build[b].kind
      BY <1>1, <1>3, <2>2 DEF Read, TypeOK, BuildRow
    <3>2. \A c \in Builders : c # b => build'[c] = build[c] BY <1>1, <2>2 DEF Read, TypeOK
    <3> QED BY <1>4, <3>1, <3>2 DEF Wrong
  <2>3. CASE Clear(b)
    <3>1. build'[b].basis = build[b].basis /\ build'[b].kind = build[b].kind
      BY <1>1, <1>3, <2>3 DEF Clear, TypeOK, BuildRow
    <3>2. derived'[j] \subseteq derived[j] BY <1>1, <2>3 DEF Clear, TypeOK
    <3>3. \A c \in Builders : c # b => build'[c] = build[c] BY <1>1, <2>3 DEF Clear, TypeOK
    <3> QED BY <1>4, <3>1, <3>2, <3>3 DEF Wrong
  <2>4. CASE Insert(b)
    <3>1. build'[b].basis = "current" BY <1>1, <2>4 DEF Insert, TypeOK, NoBuild
    <3>2. \A c \in Builders : c # b => build'[c] = build[c] BY <1>1, <2>4 DEF Insert, TypeOK
    <3>3. "outdated" \in derived'[j] =>
            \/ "outdated" \in derived[j]
            \/ build[b].kind = j /\ build[b].basis = "outdated"
      BY <1>1, <2>4 DEF Insert, TypeOK
    <3> QED BY <1>4, <3>1, <3>2, <3>3 DEF Wrong
  <2> QED BY <2>1, <2>2, <2>3, <2>4 DEF BuildStep
<1>5. WrongIsOwed' BY <1>2, <1>4 DEF CaseInv, WrongIsOwed, Marks
<1>6. OwesAtMark' BY <1>2 DEF CaseInv, OwesAtMark
<1> QED BY <1>1, <1>5, <1>6 DEF CaseInv

LEMMA CaseInvStep == Mapped /\ CaseInv /\ [Next]_vars => CaseInv'
<1> SUFFICES ASSUME Mapped, CaseInv, [Next]_vars PROVE CaseInv'
  OBVIOUS
<1>1. CASE UNCHANGED vars
  BY <1>1 DEF vars, CaseInv, TypeOK, WrongIsOwed, Wrong, Marks, OwesAtMark
<1>2. ASSUME NEW i \in Others, ChangeUnmarked(i) PROVE CaseInv'
  <2>1. TypeOK' BY RecordTypeStep DEF CaseInv
  <2> QED BY <1>2, <2>1, SlipKeeps DEF ChangeUnmarked
<1> QED BY <1>1, <1>2, StepsKeep, BeginsKeep, BuildsKeep DEF Next

\* A derived row that a write has left wrong, and that does not say so, is about
\* to be marked by a request that wrote, for any facts, events and builds and any
\* number of requests that overlap: the handlers that mark nothing and the builds
\* that a mark overtakes are named by the rows they leave, and no other is.  The
\* one key that the map of staleness.ts leaves out is assumed away.
THEOREM NothingSilentlyWrong ==
  ASSUME Mapped
  PROVE  Spec => []FreshOrStale
<1>1. Init => CaseInv BY CaseInvInit
<1>2. CaseInv /\ [Next]_vars => CaseInv' BY CaseInvStep
<1>3. CaseInv => FreshOrStale BY CaseInvFresh
<1> QED BY <1>1, <1>2, <1>3, PTL DEF Spec

=============================================================================
