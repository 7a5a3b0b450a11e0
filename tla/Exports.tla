------------------------------ MODULE Exports -------------------------------
(***************************************************************************)
(* The documents a case generates: the Exports screen, the requests it     *)
(* sends, the artifacts table behind them, and the entries of a process    *)
(* that a document sets out (coffeecup/src/artifacts, et1, processes and   *)
(* components/case/Exports.tsx).                                           *)
(*                                                                         *)
(* A screen sends one request at a time; two screens, and requests that    *)
(* write the process, interleave between statements.  What a screen shows  *)
(* may be as old as it likes: it acts on any row there has been.           *)
(***************************************************************************)
EXTENDS Integers, FiniteSets

CONSTANTS
  Tabs,      \* screens that may be open
  Kinds,     \* kinds of document asked for
  Points,    \* rows of allegations or of appeal_grounds
  Changers,  \* requests that write the process
  MaxRows    \* bound: rows of the artifacts table

Letter  == "letter"    \* generated for a process
Summary == "summary"   \* generated for the case
Pack    == "pack"      \* the ET1 readiness pack

ASSUME ExportsAssumption ==
  MaxRows \in Nat /\ Kinds \subseteq {Letter, Summary, Pack} /\ IsFiniteSet(Tabs)

VARIABLES
  artifact,   \* the artifacts table, by order of creation
  point,      \* each point's row: absent, or one of two wordings
  changer,    \* requests that have written the process and not yet marked
  tab,        \* each screen: its request, if any, and its open box
  unmarked    \* history: points an extraction has added since the last mark

exportVars == <<artifact, point, changer, tab, unmarked>>

Ids      == 1..MaxRows
Wordings == {"absent", "first", "second"}

Unmade == [type |-> Letter, life |-> "unmade", version |-> 0, wording |-> "drafted", stale |-> "no",
           point |-> [p \in Points |-> "absent"]]

\* A request for a new row, or on the row id.
NoTask == [at |-> "idle", type |-> Letter, id |-> 0, version |-> 0, wants |-> "draft",
           stale |-> "no", point |-> [p \in Points |-> "absent"]]

ExportsInit ==
  /\ artifact = [i \in Ids |-> Unmade]
  /\ point = [p \in Points |-> "absent"]
  /\ changer = {} /\ unmarked = {}
  /\ \E opened \in SUBSET Tabs :
       tab = [t \in Tabs |-> [open |-> t \in opened, box |-> 0, task |-> NoTask]]

Live  == {i \in Ids : artifact[i].life \in {"draft", "final"}}
Known == {i \in Ids : artifact[i].life # "unmade"}

-----------------------------------------------------------------------------
(* The screen.  Every button but those of the box is disabled while busy.  *)

Busy(t) == tab[t].task.at # "idle"

Stands(t, step) == tab[t].task.at = step

Send(t, task) ==
  /\ tab[t].open /\ ~Busy(t)
  /\ tab' = [tab EXCEPT ![t].task = task]
  /\ UNCHANGED <<artifact, point, changer, unmarked>>

Generate(t, type) == Send(t, [NoTask EXCEPT !.at = "gather", !.type = type])

Save(t) ==
  tab[t].box # 0 /\ Send(t, [NoTask EXCEPT !.at = "find", !.id = tab[t].box, !.wants = "save"])

MarkAs(t, i, status) == Send(t, [NoTask EXCEPT !.at = "find", !.id = i, !.wants = status])

Delete(t, i) == Send(t, [NoTask EXCEPT !.at = "find", !.id = i, !.wants = "delete"])

\* "Edit wording" and "Cancel".
SetBox(t, i) ==
  /\ tab[t].open /\ tab[t].box # i
  /\ tab' = [tab EXCEPT ![t].box = i]
  /\ UNCHANGED <<artifact, point, changer, unmarked>>

Proceed(t, step) == tab' = [tab EXCEPT ![t].task.at = step]
Done(t, wants) == tab' = [tab EXCEPT ![t].task = [NoTask EXCEPT !.at = "done", !.wants = wants]]

\* The answer: a save that succeeds closes the box, whatever it now holds.
Answered(t) ==
  /\ Stands(t, "done")
  /\ tab' = [tab EXCEPT ![t].task = NoTask,
                        ![t].box = IF tab[t].task.wants = "save" THEN 0 ELSE @]
  /\ UNCHANGED <<artifact, point, changer, unmarked>>

\* No answer, or an error: wherever the request had got to.
Unanswered(t) ==
  /\ Busy(t)
  /\ tab' = [tab EXCEPT ![t].task = NoTask]
  /\ UNCHANGED <<artifact, point, changer, unmarked>>

-----------------------------------------------------------------------------
(* generateArtifact; buildEt1ReadinessPack and saveEt1PackArtifact.        *)

\* The record is read, and with it the points of the process.
Read(t) ==
  /\ Stands(t, "gather")
  /\ tab' = [tab EXCEPT ![t].task.at = "number", ![t].task.point = point]
  /\ UNCHANGED <<artifact, point, changer, unmarked>>

Gather(t)    == tab[t].task.type \in {Letter, Summary} /\ Read(t)
BuildPack(t) == tab[t].task.type = Pack /\ Read(t)

\* The rows whose highest version the new one follows: a case's own documents
\* count only those that are drafts.
CountedDrafts(type) == {i \in Live : artifact[i].type = type /\ artifact[i].life = "draft"}
Counted(type) == {i \in Live : artifact[i].type = type /\ (type = Summary => artifact[i].life = "draft")}

\* A mistake: the first row follows on from one that is not there.
HighestFromOne(rows) == IF rows = {} THEN 1
                        ELSE CHOOSE v \in {artifact[i].version : i \in rows} :
                               \A i \in rows : artifact[i].version <= v

Highest(rows) == IF rows = {} THEN 0
                 ELSE CHOOSE v \in {artifact[i].version : i \in rows} :
                        \A i \in rows : artifact[i].version <= v

\* The draft is written by a model in between, and may fail.
Number(t) ==
  /\ Stands(t, "number")
  /\ tab' = [tab EXCEPT ![t].task.at = "insert",
                        ![t].task.version = Highest(Counted(tab[t].task.type)) + 1]
  /\ UNCHANGED <<artifact, point, changer, unmarked>>

Insert(t) ==
  LET task == tab[t].task
      i    == Cardinality(Known) + 1 IN
  /\ Stands(t, "insert") /\ i \in Ids
  /\ artifact' = [artifact EXCEPT ![i] =
                    [type |-> task.type, life |-> "draft", version |-> task.version,
                     wording |-> "drafted", stale |-> task.stale, point |-> task.point]]
  /\ Done(t, "draft")
  /\ UNCHANGED <<point, changer, unmarked>>

-----------------------------------------------------------------------------
(* editArtifact and deleteArtifact.                                        *)

Find(t) ==
  /\ Stands(t, "find") /\ tab[t].task.id \in Live
  /\ Proceed(t, "write")
  /\ UNCHANGED <<artifact, point, changer, unmarked>>

\* A mistake: the row is written whole, as a row just generated.
PatchWhole(row, wants) ==
  IF wants = "save" THEN [row EXCEPT !.wording = "edited", !.stale = "no", !.life = "draft"]
                    ELSE [row EXCEPT !.life = wants]

\* What the patch sets, and nothing else.
Patch(row, wants) ==
  IF wants = "save" THEN [row EXCEPT !.wording = "edited"] ELSE [row EXCEPT !.life = wants]

Write(t) ==
  LET i == tab[t].task.id
      wants == tab[t].task.wants IN
  /\ Stands(t, "write")
  /\ artifact' = IF i \notin Live THEN artifact
                 ELSE [artifact EXCEPT ![i] = IF wants = "delete" THEN [Unmade EXCEPT !.life = "deleted"]
                                                                 ELSE Patch(@, wants)]
  /\ Done(t, wants)
  /\ UNCHANGED <<point, changer, unmarked>>

-----------------------------------------------------------------------------
(* Requests that write the process.                                        *)

\* A mistake: nothing is marked.
MarksNothing(c) == UNCHANGED changer
Marks(c) == changer' = changer \cup {c}

\* addAllegation and addAppealGround.
Add(c, p) ==
  /\ c \notin changer /\ point[p] = "absent"
  /\ point' = [point EXCEPT ![p] = "first"]
  /\ Marks(c)
  /\ UNCHANGED <<artifact, unmarked, tab>>

\* The extraction of an uploaded document proposes an allegation for the process
\* it belongs to, and marks nothing; a letter sets proposed points out too.
Propose(p) ==
  /\ point[p] = "absent"
  /\ point' = [point EXCEPT ![p] = "first"]
  /\ unmarked' = unmarked \cup {p}
  /\ UNCHANGED <<artifact, changer, tab>>

\* updateAllegation and updateAppealGround.
Reword(c, p, wording) ==
  /\ c \notin changer /\ point[p] \notin {"absent", wording}
  /\ point' = [point EXCEPT ![p] = wording]
  /\ Marks(c)
  /\ UNCHANGED <<artifact, unmarked, tab>>

\* deleteAllegation and deleteAppealGround.
Remove(c, p) ==
  /\ c \notin changer /\ point[p] # "absent"
  /\ point' = [point EXCEPT ![p] = "absent"]
  /\ UNCHANGED <<artifact, changer, unmarked, tab>>

\* A request that has read what was then written inserts its row after the mark.
Outdated(task) == task.at \in {"number", "insert"} /\ task.point # point

MarkStale(c) ==
  /\ c \in changer
  /\ artifact' = [i \in Ids |-> IF i \in Live THEN [artifact[i] EXCEPT !.stale = "marked"] ELSE artifact[i]]
  /\ tab' = [t \in Tabs |-> IF Outdated(tab[t].task) THEN [tab[t] EXCEPT !.task.stale = "missed"] ELSE tab[t]]
  /\ changer' = changer \ {c}
  /\ unmarked' = {}
  /\ UNCHANGED point

-----------------------------------------------------------------------------
RequestStep(t) == Gather(t) \/ BuildPack(t) \/ Number(t) \/ Insert(t) \/ Find(t) \/ Write(t) \/ Answered(t)

Click(t) ==
  \/ \E type \in Kinds : Generate(t, type)
  \/ Save(t)
  \/ \E i \in Known : Delete(t, i) \/ SetBox(t, i) \/ \E status \in {"draft", "final"} : MarkAs(t, i, status)
  \/ SetBox(t, 0)

ScreensNext == \E t \in Tabs : Click(t) \/ RequestStep(t) \/ Unanswered(t)

RecordNext ==
  \/ \E p \in Points : Propose(p)
  \/ \E c \in Changers :
       \/ \E p \in Points : Add(c, p) \/ Remove(c, p) \/ \E wording \in {"first", "second"} : Reword(c, p, wording)
       \/ MarkStale(c)

ExportsNext == ScreensNext \/ RecordNext

ExportsSpec == ExportsInit /\ [][ExportsNext]_exportVars

-----------------------------------------------------------------------------
(* Properties.                                                             *)

Row  == [type : Kinds \cup {Letter}, life : {"unmade", "draft", "final", "deleted"},
         version : 0..MaxRows, wording : {"drafted", "edited"}, stale : {"no", "missed", "marked"},
         point : [Points -> Wordings]]
Task == [at : {"idle", "gather", "number", "insert", "find", "write", "done"},
         type : Kinds \cup {Letter}, id : 0..MaxRows, version : 0..(MaxRows + 1),
         wants : {"draft", "final", "save", "delete"}, stale : {"no", "missed"},
         point : [Points -> Wordings]]

\* The table and the screens hold what they may; ids are given out in order.
ExportsTypeOK ==
  /\ artifact \in [Ids -> Row]
  /\ Known = 1..Cardinality(Known)
  /\ point \in [Points -> Wordings] /\ changer \subseteq Changers /\ unmarked \subseteq Points
  /\ tab \in [Tabs -> [open : BOOLEAN, box : 0..MaxRows, task : Task]]

OneScreen == Cardinality({t \in Tabs : tab[t].open}) <= 1

\* The version a document is shown with tells it from every other of its kind
\* and process, as long as one screen asks for them: the disabled buttons stand
\* in for a lock the service does not take, and final documents are counted.
OneScreenNumbersApart ==
  OneScreen => \A i, j \in Live :
                 LET alike == artifact[i].type = artifact[j].type /\ artifact[i].type # Summary IN
                 alike /\ artifact[i].version = artifact[j].version => i = j

\* "If your record changes, the document is marked out of date" (the head of the
\* Exports page), as far as the code goes: a document that does not say so sets
\* out every point there is as it now reads, but for the points an extraction
\* has added since the last mark, and unless the request that wrote a point has
\* still to mark, or the mark came while the document was being written.
FreshIsComplete ==
  \A i \in Live :
    artifact[i].stale = "no" /\ changer = {} =>
      \A p \in Points \ unmarked : point[p] # "absent" => artifact[i].point[p] = point[p]

\* Editing the wording leaves the rest as it is, whatever another screen or a
\* mark has meanwhile written: a final document stays final, and one that is
\* out of date goes on saying so until it is generated again.
EditsKeepTheRest ==
  [][\A i \in Ids :
       artifact[i].wording # artifact'[i].wording /\ i \in Live /\ artifact'[i].life # "deleted" =>
         artifact'[i] = [artifact[i] EXCEPT !.wording = "edited"]]_exportVars

\* The documents on the screen can be told apart, say when they are out of date,
\* and stay final when they are.
DocumentsAreTrue ==
  [][OneScreenNumbersApart' /\ FreshIsComplete']_exportVars /\ EditsKeepTheRest

=============================================================================
