----------------------------- MODULE CaseRoutes -----------------------------
(***************************************************************************)
(* Every operation on a case, as the one route handler of                  *)
(* coffeecup/src/app/api/cases/[caseId]/[[...path]]/route.ts dispatches    *)
(* it: the guard (coffeecup/src/cases/access.ts), and then statements that *)
(* find a row and write it, each on its own, while other requests delete   *)
(* the rows and the case.  What the operations mean is for other modules;  *)
(* here a row is only who wrote it last.                                   *)
(***************************************************************************)
EXTENDS Integers, FiniteSets

CONSTANTS
  Owners, Owner,       \* Owner[c]: the user a case belongs to
  CaseIds, Rows,
  Segment, Home,       \* of a row: its table, by the segment of its route, and its case
  Clients,             \* requests under way
  Flag,                \* ENABLE_PERSONALISED_CLAIM_IDENTIFICATION
  NoRow

ASSUME CaseRoutesAssumption ==
  /\ Owner \in [CaseIds -> Owners] /\ Home \in [Rows -> CaseIds]
  /\ Segment \in [Rows -> STRING] /\ NoRow \notin Rows /\ Flag \in BOOLEAN
  /\ Owners \cap {"unwritten", "removed"} = {}

VARIABLES
  caseRow,  \* live, deleted (soft) or gone (purged)
  wroteRow, \* who wrote a row last, Unwritten or Removed
  client    \* what each request does next

routeVars == <<caseRow, wroteRow, client>>

Unwritten == "unwritten"
Removed   == "removed"
Quiet     == [at |-> "quiet", answer |-> "none", wrote |-> "yes"]

CaseRoutesInit ==
  /\ caseRow = [c \in CaseIds |-> "live"]
  /\ wroteRow = [r \in Rows |-> Unwritten]
  /\ client = [i \in Clients |-> Quiet]

-----------------------------------------------------------------------------
(* The table of routes: segments, tail and method, what the operation does *)
(* to a row, how it finds it, and whether it reads it again at its end.    *)
(* A part of a process is added under the process's path and edited under  *)
(* its own: both are listed here under the part's segment.                 *)
(*   found:  SELECT by id and case, refuse if absent, write by id          *)
(*   within: write WHERE id and case                                       *)
(*   parent: SELECT the parent by id and case, then insert                 *)
(*   none:   no row is named                                               *)

Route(seg, tail, method, does, finds, ends) ==
  [seg |-> seg, tail |-> tail, method |-> method, does |-> does, finds |-> finds, ends |-> ends]

Listing(seg)         == Route(seg, "", "GET", "read", "none", "ok")
Adding(seg)          == Route(seg, "", "POST", "add", "none", "ok")
EditingWithin(seg)   == Route(seg, "id", "PATCH", "edit", "within", "again")
RemovingWithin(seg)  == Route(seg, "id", "DELETE", "remove", "within", "ok")
EditingFound(seg, tail, method) == Route(seg, tail, method, "edit", "found", "again")
RemovingFound(seg)   == Route(seg, "id", "DELETE", "remove", "found", "ok")

CaseItself == {
  Route("", "", "GET", "read", "none", "ok"),
  Route("", "", "PATCH", "touch", "none", "ok"),
  Route("", "", "DELETE", "delete", "none", "ok"),
  Route("dashboard", "", "GET", "read", "none", "ok"),
  Route("purge", "", "POST", "purge", "none", "ok")}

Employment == {
  Listing("employment"),
  Route("employment", "", "PATCH", "touch", "none", "ok")}

People == {Listing("people"), Adding("people"), EditingWithin("people"), RemovingWithin("people")}

Events == {
  Listing("events"), Adding("events"),
  Route("events", "merge", "POST", "edit", "found", "again"),
  EditingFound("events", "id/confirm", "POST"),
  Route("events", "id/reject", "POST", "edit", "found", "ok"),
  EditingFound("events", "id", "PATCH"),
  RemovingFound("events")}

Facts == {
  Listing("facts"), Adding("facts"),
  Route("facts", "structured/key", "PUT", "add", "none", "ok"),
  EditingFound("facts", "id/confirm", "POST"),
  Route("facts", "id/reject", "POST", "edit", "found", "ok"),
  EditingFound("facts", "id/correct", "POST")}

DocumentRoutes == {
  Listing("documents"), Adding("documents"),
  Route("documents", "id/download", "GET", "read", "found", "ok"),
  Route("documents", "id/reprocess", "POST", "edit", "found", "ok"),
  Route("documents", "id", "GET", "read", "found", "ok"),
  EditingFound("documents", "id", "PATCH"),
  RemovingFound("documents")}

Issues == {Listing("issues"), Adding("issues"), EditingWithin("issues"), RemovingWithin("issues")}

ProcessRoutes == {
  Listing("processes"), Adding("processes"),
  Route("processes", "id", "GET", "read", "found", "ok"),
  EditingFound("processes", "id", "PATCH"),
  EditingFound("processes", "id/transition", "POST"),
  Route("processes", "id/allegations", "GET", "read", "found", "ok"),
  Route("allegations", "of/id", "POST", "add", "parent", "ok"),
  Route("processes", "id/grounds", "GET", "read", "found", "ok"),
  Route("grounds", "of/id", "POST", "add", "parent", "ok")}

ProcessParts == {
  Route("allegations", "id", "PATCH", "edit", "found", "ok"),
  RemovingWithin("allegations"),
  EditingWithin("grounds"), RemovingWithin("grounds")}

DeadlinesAndTasks == {
  Listing("deadlines"),
  Route("deadlines", "", "POST", "touch", "none", "ok"),
  Listing("tasks"), Adding("tasks"), EditingWithin("tasks"), RemovingWithin("tasks")}

Artifacts == {
  Listing("artifacts"), Adding("artifacts"),
  Route("artifacts", "id", "GET", "read", "found", "ok"),
  EditingFound("artifacts", "id", "PATCH"), RemovingFound("artifacts")}

\* Behind a flag of the server: without it the routes are not there.
Claims == IF ~Flag THEN {} ELSE {
  Listing("claims"),
  Route("claims", "id/elements", "GET", "read", "none", "ok"),
  Route("claims", "", "POST", "touch", "none", "ok")}

Et1AndExport == {
  Listing("et1"), Adding("et1"),
  Route("export", "", "GET", "read", "none", "ok")}

Summary == {
  Route("summary", "propose", "POST", "read", "none", "ok"),
  Route("summary", "confirm", "POST", "touch", "none", "ok")}

Checkout == {Adding("checkout")}

Routes == CaseItself \cup Employment \cup People \cup Events \cup Facts \cup DocumentRoutes
            \cup Issues \cup ProcessRoutes \cup ProcessParts \cup DeadlinesAndTasks
            \cup Artifacts \cup Claims \cup Et1AndExport \cup Summary \cup Checkout

-----------------------------------------------------------------------------
StandsAt(i, step) == client[i].at = step
Goes(i, step)     == client' = [client EXCEPT ![i].at = step]
Reply(i, a)       == client' = [client EXCEPT ![i] = [Quiet EXCEPT !.answer = a, !.wrote = client[i].wrote]]
TheCase(i)        == client[i].case
TheRow(i)         == client[i].row
TheRoute(i)       == client[i].route

Present(r)     == wroteRow[r] \notin {Unwritten, Removed}

\* requireUser has found the session's user; the route is one of the table's.
\* An id is made by newId, with its row: a request names a row that is there, or
\* that was, or (as good as removed) never will be.
Request(i, user, route, c, r) ==
  /\ StandsAt(i, "quiet")
  /\ (route.finds \in {"found", "within"}) <=> (r # NoRow /\ Segment[r] = route.seg)
  /\ (route.finds = "parent") => r # NoRow /\ Segment[r] = "processes"
  /\ (route.finds = "none") => r = NoRow
  /\ r # NoRow => wroteRow[r] # Unwritten
  /\ client' = [client EXCEPT ![i] =
       [at |-> "guard", user |-> user, route |-> route, case |-> c, row |-> r,
        wrote |-> "yes", began |-> caseRow[c], answer |-> "none"]]
  /\ UNCHANGED <<caseRow, wroteRow>>

NoSuchRoute(i) ==
  /\ StandsAt(i, "quiet")
  /\ client' = [client EXCEPT ![i] = [Quiet EXCEPT !.answer = "no_route"]]
  /\ UNCHANGED <<caseRow, wroteRow>>

\* requireCaseAccess: by id and owner, and not deleted; alike if there is none.
\* purgeCaseNow looks for the owner's case, deleted or not.
AccessToDeleted(user, c) == Owner[c] = user /\ caseRow[c] # "gone"        \* a mistake
AccessTo(user, c)        == Owner[c] = user /\ caseRow[c] = "live"

Admitted(i) == IF TheRoute(i).does = "purge"
               THEN Owner[TheCase(i)] = client[i].user /\ caseRow[TheCase(i)] # "gone"
               ELSE AccessTo(client[i].user, TheCase(i))

Guard(i) ==
  /\ StandsAt(i, "guard")
  /\ IF Admitted(i) THEN Goes(i, IF TheRoute(i).finds \in {"found", "parent"} THEN "find" ELSE "write")
     ELSE Reply(i, "no_case")
  /\ UNCHANGED <<caseRow, wroteRow>>

\* getEvent, getFact, getDocument, getProcess, getArtifact.
FindsAnywhere(c, r) == Present(r)                                         \* a mistake
Finds(c, r)         == Present(r) /\ Home[r] = c

Find(i) ==
  /\ StandsAt(i, "find")
  /\ IF Finds(TheCase(i), TheRow(i)) THEN Goes(i, "write") ELSE Reply(i, "no_row")
  /\ UNCHANGED <<caseRow, wroteRow>>

\* The rows an UPDATE or DELETE of the route reaches.
Reaches(route, c, r)   == Present(r) /\ (route.finds = "within" => Home[r] = c)

Write(i, by) ==
  LET hit == Reaches(TheRoute(i), TheCase(i), TheRow(i)) IN
  /\ wroteRow' = IF hit THEN [wroteRow EXCEPT ![TheRow(i)] = by] ELSE wroteRow
  /\ IF TheRoute(i).ends = "again"
     THEN client' = [client EXCEPT ![i].at = "again", ![i].wrote = IF hit THEN "yes" ELSE "no"]
     ELSE Reply(i, "ok")

Edit(i) ==
  /\ StandsAt(i, "write") /\ TheRoute(i).does = "edit"
  /\ Write(i, client[i].user)
  /\ UNCHANGED caseRow

Remove(i) ==
  /\ StandsAt(i, "write") /\ TheRoute(i).does = "remove"
  /\ Write(i, Removed)
  /\ UNCHANGED caseRow

\* The insert fails if the case has gone: its foreign key has nothing to refer to.
NoForeignKey(c) == TRUE                                                   \* a mistake
ForeignKey(c)   == caseRow[c] # "gone"

Add(i, r) ==
  /\ StandsAt(i, "write") /\ TheRoute(i).does = "add"
  /\ wroteRow[r] = Unwritten /\ Home[r] = TheCase(i) /\ Segment[r] = TheRoute(i).seg
  /\ IF ForeignKey(TheCase(i))
     THEN Reply(i, "ok") /\ wroteRow' = [wroteRow EXCEPT ![r] = client[i].user]
     ELSE Reply(i, "error") /\ UNCHANGED wroteRow
  /\ UNCHANGED caseRow

\* Reads, and writes of the case's own row, its employment, deadlines and claims.
ReadOrTouch(i) ==
  /\ StandsAt(i, "write") /\ TheRoute(i).does \in {"read", "touch"}
  /\ Reply(i, "ok")
  /\ UNCHANGED <<caseRow, wroteRow>>

SoftDelete(i) ==
  /\ StandsAt(i, "write") /\ TheRoute(i).does = "delete"
  /\ caseRow' = [caseRow EXCEPT ![TheCase(i)] = IF @ = "gone" THEN @ ELSE "deleted"]
  /\ Reply(i, "ok")
  /\ UNCHANGED wroteRow

\* The row goes, and with it every row that refers to it.
Purge(i) ==
  /\ StandsAt(i, "write") /\ TheRoute(i).does = "purge"
  /\ caseRow' = [caseRow EXCEPT ![TheCase(i)] = "gone"]
  /\ wroteRow' = [r \in Rows |-> IF Home[r] = TheCase(i) /\ Present(r) THEN Removed ELSE wroteRow[r]]
  /\ Reply(i, "ok")

\* Edits answer with the row, read by id and case, and fail if it is not there.
AgainAssumed(i) == TRUE                                                   \* a mistake
Again(i)        == Finds(TheCase(i), TheRow(i))

ReadAgain(i) ==
  /\ StandsAt(i, "again")
  /\ Reply(i, IF Again(i) THEN "ok" ELSE "no_row")
  /\ UNCHANGED <<caseRow, wroteRow>>

\* handle: a statement that throws ends the request with an error.
Throw(i) ==
  /\ client[i].at \in {"guard", "find", "write", "again"}
  /\ Reply(i, "error")
  /\ UNCHANGED <<caseRow, wroteRow>>

RequestSteps(i) == \/ Guard(i) \/ Find(i) \/ Edit(i) \/ Remove(i) \/ ReadOrTouch(i)
                   \/ SoftDelete(i) \/ Purge(i) \/ ReadAgain(i) \/ Throw(i)
                   \/ \E r \in Rows : Add(i, r)

CaseRoutesNext ==
  \E i \in Clients :
    \/ RequestSteps(i) \/ NoSuchRoute(i)
    \/ \E user \in Owners, route \in Routes, c \in CaseIds, r \in Rows \cup {NoRow} :
         Request(i, user, route, c, r)

CaseRoutesSpec == CaseRoutesInit /\ [][CaseRoutesNext]_routeVars

-----------------------------------------------------------------------------
(* Properties.                                                             *)

\* Types, and no row outlives its case.
CaseRoutesTypeOK ==
  /\ caseRow \in [CaseIds -> {"live", "deleted", "gone"}]
  /\ wroteRow \in [Rows -> Owners \cup {Unwritten, Removed}]
  /\ \A r \in Rows : Present(r) => caseRow[Home[r]] # "gone"
  /\ \A i \in Clients :
       /\ client[i].at \in {"quiet", "guard", "find", "write", "again"}
       /\ client[i].answer \in {"none", "ok", "no_case", "no_row", "no_route", "error"}

\* Whatever a case holds was last written by the user it belongs to: the id in
\* a request's path reaches no row of another case, whoever names it.
RowsAreTheOwners == \A r \in Rows : Present(r) => wroteRow[r] = Owner[Home[r]]

\* A deleted case is frozen until it is purged: only requests that began before
\* the deletion still write in it, and only if they passed the guard by then.
DeletedIsFrozen ==
  [][\A r \in Rows : wroteRow'[r] # wroteRow[r] =>
       \E i \in Clients : /\ StandsAt(i, "write") /\ TheCase(i) = Home[r]
                          /\ TheRoute(i).does = "purge" \/ client[i].began = "live"]_routeVars

\* An edit that answers with the row has written it, whichever request removed
\* the row, or its case, between the statements.
AnsweredIsWritten ==
  \A i \in Clients : client[i].answer = "ok" => client[i].wrote = "yes"

\* Every route stays with its user and its case: nobody else's rows, nothing in
\* a deleted case, and no answer for what was not written.
RoutesKeepTheirCase ==
  [][RowsAreTheOwners' /\ AnsweredIsWritten']_routeVars /\ DeletedIsFrozen

=============================================================================
