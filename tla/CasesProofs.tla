----------------------------- MODULE CasesProofs -----------------------------
(***************************************************************************)
(* The requests on a case, for any number of them that interleave between  *)
(* statements, and any users, cases, rows, processes, allegations, kinds   *)
(* of deadline and days: every route keeps to its user and its case, the   *)
(* history of a process is a path of its machine, entries add up, and the  *)
(* list of deadlines is true.                                              *)
(***************************************************************************)
EXTENDS MCCases, SequenceTheorems, TLAPS

(* Routes.                                                                 *)

RouteAnswers == {"none", "ok", "no_case", "no_row", "no_route", "error"}
QuietRow == [at : {"quiet"}, answer : RouteAnswers, wrote : {"yes", "no"}]
BusyRow  == [at : {"guard", "find", "write", "again"}, user : Owners, route : Routes, case : CaseIds,
             row : Rows \cup {NoRow}, wrote : {"yes", "no"}, began : {"live", "deleted", "gone"},
             answer : {"none"}]

\* What a request under way knows: the row it names was made, the guard has
\* found its user's case as it was before a deletion, and a row found by id and
\* case is the case's.
Knows(x) ==
  /\ x.route.finds \in {"found", "within"} => x.row \in Rows /\ wroteRow[x.row] # Unwritten
  /\ caseRow[x.case] = "live" => x.began = "live"
  /\ x.at # "guard" /\ x.route.does # "purge" => Owner[x.case] = x.user /\ x.began = "live"
  /\ x.at \in {"write", "again"} /\ x.route.finds = "found" => Home[x.row] = x.case
  /\ x.at # "again" => x.wrote = "yes"
  /\ x.at = "again" /\ x.wrote = "no" =>
       x.row \in Rows /\ (wroteRow[x.row] = Removed \/ Home[x.row] # x.case)

Honest(x) ==
  \/ x \in QuietRow /\ (x.answer = "ok" => x.wrote = "yes")
  \/ x \in BusyRow /\ Knows(x)

TablesTyped ==
  /\ caseRow \in [CaseIds -> {"live", "deleted", "gone"}]
  /\ wroteRow \in [Rows -> Owners \cup {Unwritten, Removed}]
  /\ \A r \in Rows : Present(r) => caseRow[Home[r]] # "gone"

RoutesInv ==
  /\ TablesTyped /\ RowsAreTheOwners
  /\ client \in [Clients -> QuietRow \cup BusyRow]
  /\ \A i \in Clients : Honest(client[i])

\* What no step undoes: the end of a case, the making of a row and its removal.
Lasting ==
  /\ \A c \in CaseIds : caseRow'[c] = "live" => caseRow[c] = "live"
  /\ \A r \in Rows : /\ wroteRow[r] # Unwritten => wroteRow'[r] # Unwritten
                     /\ wroteRow[r] = Removed => wroteRow'[r] = Removed

-----------------------------------------------------------------------------
(* The table of routes: what is edited or removed is named.                *)

Named(q) == /\ q.does \in {"edit", "remove"} => q.finds \in {"found", "within"}
            /\ q.finds = "found" => q.does # "purge"

LEMMA KindsOfRoute ==
  /\ \A seg, tail, method, finds, ends : finds # "found" =>
       /\ Named(Route(seg, tail, method, "read", finds, ends))
       /\ Named(Route(seg, tail, method, "add", finds, ends))
       /\ Named(Route(seg, tail, method, "touch", finds, ends))
       /\ Named(Route(seg, tail, method, "delete", finds, ends))
       /\ Named(Route(seg, tail, method, "purge", finds, ends))
  /\ \A seg, tail, method, ends :
       /\ Named(Route(seg, tail, method, "read", "found", ends))
       /\ Named(Route(seg, tail, method, "edit", "found", ends))
       /\ Named(Route(seg, tail, method, "remove", "found", ends))
       /\ Named(Route(seg, tail, method, "edit", "within", ends))
       /\ Named(Route(seg, tail, method, "remove", "within", ends))
BY DEF Route, Named

LEMMA EditsAreNamed == \A q \in Routes : Named(q)
<1>1. \A seg : /\ Named(Listing(seg)) /\ Named(Adding(seg)) /\ Named(EditingWithin(seg))
               /\ Named(RemovingWithin(seg)) /\ Named(RemovingFound(seg))
               /\ \A tail, method : Named(EditingFound(seg, tail, method))
  BY KindsOfRoute DEF Listing, Adding, EditingWithin, RemovingWithin, EditingFound, RemovingFound
<1> QED
  BY <1>1, KindsOfRoute
  DEF Routes, CaseItself, Employment, People, Events, Facts, DocumentRoutes, Issues, ProcessRoutes,
      ProcessParts, DeadlinesAndTasks, Artifacts, Claims, Et1AndExport, Summary, Checkout

-----------------------------------------------------------------------------
(* Requests.                                                               *)

\* What a request knows lasts.
LEMMA KnownLasts ==
  ASSUME NEW x \in BusyRow, Knows(x), Lasting
  PROVE  Knows(x)'
<1>1. x.case \in CaseIds
  BY DEF BusyRow
<1> QED BY <1>1 DEF Knows, Lasting, Present

\* One request moves, with the tables or without.
LEMMA OneMoves ==
  ASSUME RoutesInv, NEW i \in Clients, Lasting, NEW y \in QuietRow \cup BusyRow,
         client' = [client EXCEPT ![i] = y], Honest(y)'
  PROVE  /\ client' \in [Clients -> QuietRow \cup BusyRow]
         /\ \A j \in Clients : Honest(client[j])'
<1>1. client' \in [Clients -> QuietRow \cup BusyRow]
  BY DEF RoutesInv
<1>2. ASSUME NEW j \in Clients PROVE Honest(client[j])'
  <2>1. CASE j = i
    <3>1. client'[j] = y
      BY <2>1 DEF RoutesInv
    <3> QED BY <3>1
  <2>2. CASE j # i
    <3>1. client'[j] = client[j]
      BY <2>2 DEF RoutesInv
    <3>2. Honest(client[j])
      BY DEF RoutesInv
    <3> QED BY <3>1, <3>2, KnownLasts DEF Honest
  <2> QED BY <2>1, <2>2
<1> QED BY <1>1, <1>2

-----------------------------------------------------------------------------
(* The shapes of the steps: a request goes on, or it is answered, and the  *)
(* tables stay or change.                                                  *)

Stay == UNCHANGED <<caseRow, wroteRow>>

LEMMA StayingKeeps ==
  ASSUME RoutesInv, Stay
  PROVE  TablesTyped' /\ RowsAreTheOwners' /\ Lasting
BY DEF RoutesInv, Stay, TablesTyped, RowsAreTheOwners, Present, Lasting

\* Who is at a step of its request.
LEMMA UnderWay ==
  ASSUME RoutesInv, NEW i \in Clients, client[i].at # "quiet"
  PROVE  client[i] \in BusyRow /\ Knows(client[i])
BY DEF RoutesInv, Honest, QuietRow

\* Any request may be answered; "ok" needs that what it had to write is written.
LEMMA Answering ==
  ASSUME RoutesInv, NEW i \in Clients, NEW a \in RouteAnswers, Lasting, Reply(i, a),
         a = "ok" => client[i].wrote = "yes"
  PROVE  /\ client' \in [Clients -> QuietRow \cup BusyRow]
         /\ \A j \in Clients : Honest(client[j])'
<1>0. PICK y : y = [Quiet EXCEPT !.answer = a, !.wrote = client[i].wrote]
  OBVIOUS
<1>1. client[i].wrote \in {"yes", "no"}
  BY DEF RoutesInv, QuietRow, BusyRow
<1>2. y \in QuietRow /\ y.answer = a /\ y.wrote = client[i].wrote
  BY <1>0, <1>1 DEF Quiet, QuietRow
<1>3. client' = [client EXCEPT ![i] = y]
  BY <1>0 DEF Reply
<1>4. Honest(y)'
  BY <1>2 DEF Honest
<1> QED BY <1>2, <1>3, <1>4, OneMoves

\* A request goes on to its next statement, knowing what that needs.
LEMMA GoingOn ==
  ASSUME RoutesInv, NEW i \in Clients, NEW step \in {"find", "write"}, Stay, Goes(i, step),
         client[i].at \in {"guard", "find"},
         client[i].route.does # "purge" =>
           Owner[client[i].case] = client[i].user /\ client[i].began = "live",
         step = "write" /\ client[i].route.finds = "found" => Home[client[i].row] = client[i].case
  PROVE  /\ client' \in [Clients -> QuietRow \cup BusyRow]
         /\ \A j \in Clients : Honest(client[j])'
<1>0. PICK x, y : x = client[i] /\ y = [x EXCEPT !.at = step]
  OBVIOUS
<1>1. x \in BusyRow /\ Knows(x)
  BY <1>0, UnderWay
<1>2. /\ y \in BusyRow /\ y.at = step /\ y.user = x.user /\ y.route = x.route /\ y.case = x.case
      /\ y.row = x.row /\ y.wrote = x.wrote /\ y.began = x.began
  BY <1>0, <1>1 DEF BusyRow
<1>3. client' = [client EXCEPT ![i] = y]
  BY <1>0 DEF Goes
<1>4. Knows(y)
  BY <1>0, <1>1, <1>2 DEF Knows
<1>5. Honest(y)'
  BY <1>2, <1>4, StayingKeeps, KnownLasts DEF Honest
<1> QED BY <1>2, <1>3, <1>5, StayingKeeps, OneMoves

-----------------------------------------------------------------------------
(* Steps that leave the tables.                                            *)

LEMMA KeptByRequest ==
  ASSUME RoutesInv, NEW i \in Clients, NEW u \in Owners, NEW q \in Routes, NEW c \in CaseIds,
         NEW r \in Rows \cup {NoRow}, Request(i, u, q, c, r)
  PROVE  RoutesInv'
<1>0. PICK y : y = [at |-> "guard", user |-> u, route |-> q, case |-> c, row |-> r,
                    wrote |-> "yes", began |-> caseRow[c], answer |-> "none"]
  OBVIOUS
<1>1. /\ y \in BusyRow /\ y.at = "guard" /\ y.route = q /\ y.case = c /\ y.row = r
      /\ y.wrote = "yes" /\ y.began = caseRow[c]
  BY <1>0 DEF BusyRow, RoutesInv, TablesTyped
<1>2. client' = [client EXCEPT ![i] = y] /\ Stay
  BY <1>0 DEF Request, Stay
<1>3. q.finds \in {"found", "within"} => r \in Rows /\ wroteRow[r] # Unwritten
  BY DEF Request
<1>4. Knows(y)
  BY <1>1, <1>3 DEF Knows
<1>5. Honest(y)'
  BY <1>1, <1>2, <1>4, StayingKeeps, KnownLasts DEF Honest
<1> QED BY <1>1, <1>2, <1>5, StayingKeeps, OneMoves DEF RoutesInv

LEMMA KeptByNoSuchRoute ==
  ASSUME RoutesInv, NEW i \in Clients, NoSuchRoute(i)
  PROVE  RoutesInv'
<1>0. PICK y : y = [Quiet EXCEPT !.answer = "no_route"]
  OBVIOUS
<1>1. y \in QuietRow /\ y.answer = "no_route"
  BY <1>0 DEF Quiet, QuietRow, RouteAnswers
<1>2. client' = [client EXCEPT ![i] = y] /\ Stay
  BY <1>0 DEF NoSuchRoute, Stay
<1>3. Honest(y)'
  BY <1>1 DEF Honest
<1> QED BY <1>1, <1>2, <1>3, StayingKeeps, OneMoves DEF RoutesInv

LEMMA KeptByReply ==
  ASSUME RoutesInv, NEW i \in Clients, NEW a \in RouteAnswers, Reply(i, a), Stay,
         a = "ok" => client[i].wrote = "yes"
  PROVE  RoutesInv'
BY Answering, StayingKeeps DEF RoutesInv

LEMMA KeptByGuard ==
  ASSUME RoutesInv, NEW i \in Clients, Guard(i)
  PROVE  RoutesInv'
<1>1. client[i].at = "guard" /\ Stay
  BY DEF Guard, StandsAt, Stay
<1>2. client[i] \in BusyRow /\ Knows(client[i])
  BY <1>1, UnderWay
<1>3. CASE ~Admitted(i)
  BY <1>1, <1>3, KeptByReply DEF Guard, RouteAnswers
<1>4. CASE Admitted(i)
  <2>1. client[i].route.does # "purge" =>
          Owner[client[i].case] = client[i].user /\ client[i].began = "live"
    BY <1>2, <1>4 DEF Admitted, AccessTo, Knows, TheRoute, TheCase
  <2>2. CASE client[i].route.finds \in {"found", "parent"}
    <3>1. Goes(i, "find")
      BY <1>4, <2>2 DEF Guard, TheRoute
    <3> QED BY <1>1, <2>1, <3>1, GoingOn, StayingKeeps DEF RoutesInv
  <2>3. CASE client[i].route.finds \notin {"found", "parent"}
    <3>1. Goes(i, "write")
      BY <1>4, <2>3 DEF Guard, TheRoute
    <3> QED BY <1>1, <2>1, <2>3, <3>1, GoingOn, StayingKeeps DEF RoutesInv
  <2> QED BY <2>2, <2>3
<1> QED BY <1>3, <1>4

LEMMA KeptByFind ==
  ASSUME RoutesInv, NEW i \in Clients, Find(i)
  PROVE  RoutesInv'
<1>1. client[i].at = "find" /\ Stay
  BY DEF Find, StandsAt, Stay
<1>2. client[i] \in BusyRow /\ Knows(client[i])
  BY <1>1, UnderWay
<1>3. CASE ~Finds(TheCase(i), TheRow(i))
  BY <1>1, <1>3, KeptByReply DEF Find, RouteAnswers
<1>4. CASE Finds(TheCase(i), TheRow(i))
  <2>1. Goes(i, "write") /\ Home[client[i].row] = client[i].case
    BY <1>4 DEF Find, Finds, TheCase, TheRow
  <2>2. client[i].route.does # "purge" =>
          Owner[client[i].case] = client[i].user /\ client[i].began = "live"
    BY <1>1, <1>2 DEF Knows
  <2> QED BY <1>1, <2>1, <2>2, GoingOn, StayingKeeps DEF RoutesInv
<1> QED BY <1>3, <1>4

LEMMA KeptByReading ==
  ASSUME RoutesInv, NEW i \in Clients, ReadOrTouch(i) \/ ReadAgain(i) \/ Throw(i)
  PROVE  RoutesInv'
<1>1. CASE ReadOrTouch(i)
  <2>1. client[i].at = "write" /\ Stay /\ Reply(i, "ok")
    BY <1>1 DEF ReadOrTouch, StandsAt, Stay
  <2>2. client[i].wrote = "yes"
    BY <2>1, UnderWay DEF Knows
  <2> QED BY <2>1, <2>2, KeptByReply DEF RouteAnswers
<1>2. CASE ReadAgain(i)
  <2>1. client[i].at = "again" /\ Stay /\ Reply(i, IF Again(i) THEN "ok" ELSE "no_row")
    BY <1>2 DEF ReadAgain, StandsAt, Stay
  <2>2. client[i] \in BusyRow /\ Knows(client[i])
    BY <2>1, UnderWay
  <2>3. Again(i) => client[i].wrote = "yes"
    BY <2>1, <2>2 DEF Knows, Again, Finds, TheCase, TheRow, Present, BusyRow
  <2> QED BY <2>1, <2>3, KeptByReply DEF RouteAnswers
<1>3. CASE Throw(i)
  BY <1>3, KeptByReply DEF Throw, Stay, RouteAnswers
<1> QED BY <1>1, <1>2, <1>3

-----------------------------------------------------------------------------
(* Steps that change the tables.                                           *)

\* Edits and removals reach the row that was named, in the request's own case.
LEMMA KeptByWriting ==
  ASSUME RoutesInv, NEW i \in Clients, NEW by \in {client[i].user, Removed},
         client[i].at = "write", client[i].route.does \in {"edit", "remove"},
         Write(i, by), UNCHANGED caseRow
  PROVE  RoutesInv'
<1>0. PICK x, hit : x = client[i] /\ hit = Reaches(TheRoute(i), TheCase(i), TheRow(i))
  OBVIOUS
<1>1. x \in BusyRow /\ Knows(x) /\ x.at = "write" /\ x.route.does \in {"edit", "remove"}
  BY <1>0, UnderWay
<1>2. x.route.finds \in {"found", "within"}
  BY <1>1, EditsAreNamed DEF BusyRow, Named
<1>3. x.row \in Rows /\ wroteRow[x.row] # Unwritten /\ Owner[x.case] = x.user /\ x.wrote = "yes"
  BY <1>1, <1>2 DEF Knows
<1>4. hit <=> Present(x.row) /\ Home[x.row] = x.case
  BY <1>0, <1>1, <1>2 DEF Reaches, TheRoute, TheCase, TheRow, Knows
<1>5. wroteRow' = IF hit THEN [wroteRow EXCEPT ![x.row] = by] ELSE wroteRow
  BY <1>0 DEF Write, TheRow
<1>6. by \in Owners \cup {Removed} /\ by # Unwritten /\ by \in {x.user, Removed} /\ x.user \in Owners
  BY <1>0, <1>1, CaseRoutesAssumption DEF BusyRow, Removed, Unwritten
<1>7. /\ wroteRow' \in [Rows -> Owners \cup {Unwritten, Removed}]
      /\ \A r \in Rows : wroteRow'[r] = wroteRow[r] \/ (r = x.row /\ hit /\ wroteRow'[r] = by)
  BY <1>3, <1>5, <1>6 DEF RoutesInv, TablesTyped
<1>8. Lasting
  BY <1>3, <1>4, <1>6, <1>7 DEF Lasting, Present
<1>9. TablesTyped'
  BY <1>4, <1>7 DEF RoutesInv, TablesTyped, Present
<1>10. RowsAreTheOwners'
  BY <1>3, <1>4, <1>6, <1>7 DEF RoutesInv, RowsAreTheOwners, Present
<1>11. CASE x.route.ends = "again"
  <2>0. PICK w, y : w = (IF hit THEN "yes" ELSE "no") /\ y = [x EXCEPT !.at = "again", !.wrote = w]
    OBVIOUS
  <2>1. /\ y \in BusyRow /\ y.at = "again" /\ y.route = x.route /\ y.user = x.user /\ y.case = x.case
        /\ y.row = x.row /\ y.began = x.began /\ y.wrote = w
    BY <1>1, <2>0 DEF BusyRow
  <2>2. client' = [client EXCEPT ![i] = y]
    BY <1>0, <1>11, <2>0 DEF Write, TheRoute
  <2>3. Knows(y)
    BY <1>1, <1>3, <1>4, <2>0, <2>1 DEF Knows, Present
  <2>4. Honest(y)'
    BY <1>8, <2>1, <2>3, KnownLasts DEF Honest
  <2> QED BY <1>8, <1>9, <1>10, <2>1, <2>2, <2>4, OneMoves DEF RoutesInv
<1>12. CASE x.route.ends # "again"
  <2>1. Reply(i, "ok")
    BY <1>0, <1>12 DEF Write, TheRoute
  <2> QED BY <1>0, <1>3, <1>8, <1>9, <1>10, <2>1, Answering DEF RoutesInv, RouteAnswers
<1> QED BY <1>11, <1>12

LEMMA KeptByAdding ==
  ASSUME RoutesInv, NEW i \in Clients, NEW r \in Rows, Add(i, r)
  PROVE  RoutesInv'
<1>1. /\ client[i].at = "write" /\ client[i].route.does = "add" /\ wroteRow[r] = Unwritten
      /\ Home[r] = client[i].case /\ caseRow' = caseRow
  BY DEF Add, StandsAt, TheRoute, TheCase
<1>2. client[i] \in BusyRow /\ Knows(client[i])
  BY <1>1, UnderWay
<1>3. client[i].user \in Owners /\ Owner[client[i].case] = client[i].user /\ client[i].wrote = "yes"
  BY <1>1, <1>2 DEF Knows, BusyRow
<1>4. CASE ~ForeignKey(TheCase(i))
  BY <1>1, <1>4, KeptByReply DEF Add, Stay, RouteAnswers
<1>5. CASE ForeignKey(TheCase(i))
  <2>1. /\ Reply(i, "ok") /\ wroteRow' = [wroteRow EXCEPT ![r] = client[i].user]
        /\ caseRow[Home[r]] # "gone"
    BY <1>1, <1>5 DEF Add, ForeignKey, TheCase
  <2>2. /\ wroteRow' \in [Rows -> Owners \cup {Unwritten, Removed}] /\ wroteRow'[r] = client[i].user
        /\ \A s \in Rows : s # r => wroteRow'[s] = wroteRow[s]
    BY <1>3, <2>1 DEF RoutesInv, TablesTyped
  <2>3. Lasting
    BY <1>1, <1>3, <2>2, CaseRoutesAssumption DEF Lasting, Unwritten, Removed
  <2>4. TablesTyped'
    BY <1>1, <2>1, <2>2 DEF RoutesInv, TablesTyped, Present
  <2>5. RowsAreTheOwners'
    BY <1>1, <1>3, <2>2 DEF RoutesInv, RowsAreTheOwners, Present
  <2> QED BY <1>3, <2>1, <2>3, <2>4, <2>5, Answering DEF RoutesInv, RouteAnswers
<1> QED BY <1>4, <1>5

LEMMA KeptByDeletion ==
  ASSUME RoutesInv, NEW i \in Clients, SoftDelete(i)
  PROVE  RoutesInv'
<1>1. /\ client[i].at = "write" /\ Reply(i, "ok") /\ wroteRow' = wroteRow
      /\ caseRow' = [caseRow EXCEPT ![client[i].case] = IF @ = "gone" THEN @ ELSE "deleted"]
  BY DEF SoftDelete, StandsAt, TheCase
<1>2. client[i] \in BusyRow /\ client[i].wrote = "yes" /\ client[i].case \in CaseIds
  BY <1>1, UnderWay DEF Knows, BusyRow
<1>3. /\ caseRow' \in [CaseIds -> {"live", "deleted", "gone"}]
      /\ \A c \in CaseIds : /\ caseRow'[c] = "live" => caseRow[c] = "live"
                            /\ caseRow'[c] = "gone" => caseRow[c] = "gone"
  BY <1>1, <1>2 DEF RoutesInv, TablesTyped
<1>4. Lasting
  BY <1>1, <1>3 DEF Lasting
<1>5. TablesTyped' /\ RowsAreTheOwners'
  BY <1>1, <1>3, CaseRoutesAssumption DEF RoutesInv, TablesTyped, RowsAreTheOwners, Present
<1> QED BY <1>1, <1>2, <1>4, <1>5, Answering DEF RoutesInv, RouteAnswers

LEMMA KeptByPurge ==
  ASSUME RoutesInv, NEW i \in Clients, Purge(i)
  PROVE  RoutesInv'
<1> DEFINE c == client[i].case
<1>1. /\ client[i].at = "write" /\ Reply(i, "ok") /\ caseRow' = [caseRow EXCEPT ![c] = "gone"]
      /\ wroteRow' = [r \in Rows |-> IF Home[r] = c /\ Present(r) THEN Removed ELSE wroteRow[r]]
  BY DEF Purge, StandsAt, TheCase
<1>2. client[i] \in BusyRow /\ client[i].wrote = "yes" /\ c \in CaseIds
  BY <1>1, UnderWay DEF Knows, BusyRow
<1>3. /\ caseRow' \in [CaseIds -> {"live", "deleted", "gone"}]
      /\ \A d \in CaseIds : caseRow'[d] = caseRow[d] \/ (d = c /\ caseRow'[d] = "gone")
  BY <1>1, <1>2 DEF RoutesInv, TablesTyped
<1>4. \A r \in Rows : wroteRow[r] \in Owners \cup {Unwritten, Removed}
  BY DEF RoutesInv, TablesTyped
<1>5. \A r \in Rows : \/ (wroteRow'[r] = wroteRow[r] /\ ~(Home[r] = c /\ Present(r)))
                     \/ (wroteRow'[r] = Removed /\ Present(r))
  BY <1>1
<1>6. wroteRow' \in [Rows -> Owners \cup {Unwritten, Removed}]
  BY <1>1, <1>4
<1>7. Lasting
  BY <1>3, <1>5 DEF Lasting, Present, Removed, Unwritten
<1>8. TablesTyped'
  BY <1>3, <1>5, <1>6, CaseRoutesAssumption DEF RoutesInv, TablesTyped, Present
<1>9. RowsAreTheOwners'
  BY <1>5 DEF RoutesInv, RowsAreTheOwners, Present
<1> QED BY <1>1, <1>2, <1>7, <1>8, <1>9, Answering DEF RoutesInv, RouteAnswers

-----------------------------------------------------------------------------
LEMMA RoutesStart == CaseRoutesInit => RoutesInv
<1> SUFFICES ASSUME CaseRoutesInit PROVE RoutesInv
  OBVIOUS
<1>1. Quiet \in QuietRow /\ Quiet.answer = "none"
  BY DEF Quiet, QuietRow, RouteAnswers
<1> QED BY <1>1 DEF CaseRoutesInit, RoutesInv, TablesTyped, RowsAreTheOwners, Present, Honest

LEMMA RoutesStep == RoutesInv /\ [CaseRoutesNext]_routeVars => RoutesInv'
<1> SUFFICES ASSUME RoutesInv, [CaseRoutesNext]_routeVars PROVE RoutesInv'
  OBVIOUS
<1>1. CASE UNCHANGED routeVars
  BY <1>1 DEF routeVars, RoutesInv, TablesTyped, RowsAreTheOwners, Present, Honest, Knows
<1>2. ASSUME NEW i \in Clients, Edit(i) PROVE RoutesInv'
  BY <1>2, KeptByWriting DEF Edit, StandsAt, TheRoute
<1>3. ASSUME NEW i \in Clients, Remove(i) PROVE RoutesInv'
  BY <1>3, KeptByWriting DEF Remove, StandsAt, TheRoute
<1>4. ASSUME NEW i \in Clients, RequestSteps(i) PROVE RoutesInv'
  BY <1>2, <1>3, <1>4, KeptByGuard, KeptByFind, KeptByReading, KeptByDeletion, KeptByPurge, KeptByAdding
  DEF RequestSteps
<1>5. ASSUME NEW i \in Clients, NoSuchRoute(i) PROVE RoutesInv'
  BY <1>5, KeptByNoSuchRoute
<1>6. ASSUME NEW i \in Clients, NEW u \in Owners, NEW q \in Routes, NEW c \in CaseIds,
             NEW r \in Rows \cup {NoRow}, Request(i, u, q, c, r)
      PROVE  RoutesInv'
  BY <1>6, KeptByRequest
<1> QED BY <1>1, <1>4, <1>5, <1>6 DEF CaseRoutesNext

\* Types, and no row outlives its case.
THEOREM RoutesTyped == CaseRoutesSpec => []CaseRoutesTypeOK
<1>1. RoutesInv => CaseRoutesTypeOK
  BY DEF RoutesInv, TablesTyped, CaseRoutesTypeOK, QuietRow, BusyRow, RouteAnswers
<1> QED BY <1>1, RoutesStart, RoutesStep, PTL DEF CaseRoutesSpec

\* Whatever writes a row has passed the guard of the row's case while that lived.
LEMMA FrozenStep ==
  ASSUME RoutesInv, CaseRoutesNext, NEW r \in Rows, wroteRow'[r] # wroteRow[r]
  PROVE  \E i \in Clients : /\ StandsAt(i, "write") /\ TheCase(i) = Home[r]
                            /\ TheRoute(i).does = "purge" \/ client[i].began = "live"
<1>1. ASSUME NEW i \in Clients, client[i].at = "write", Write(i, client[i].user) \/ Write(i, Removed),
             client[i].route.does \in {"edit", "remove"}
      PROVE  StandsAt(i, "write") /\ TheCase(i) = Home[r] /\ client[i].began = "live"
  <2>1. client[i] \in BusyRow /\ Knows(client[i])
    BY <1>1, UnderWay
  <2>2. client[i].route.finds \in {"found", "within"}
    BY <1>1, <2>1, EditsAreNamed DEF BusyRow, Named
  <2>3. r = client[i].row /\ Reaches(client[i].route, client[i].case, client[i].row)
    BY <1>1 DEF Write, TheRoute, TheCase, TheRow, RoutesInv, TablesTyped
  <2> QED BY <1>1, <2>1, <2>2, <2>3 DEF Reaches, Knows, StandsAt, TheCase
<1>2. ASSUME NEW i \in Clients, NEW s \in Rows, Add(i, s)
      PROVE  StandsAt(i, "write") /\ TheCase(i) = Home[r] /\ client[i].began = "live"
  <2>1. client[i].at = "write" /\ client[i].route.does = "add"
    BY <1>2 DEF Add, StandsAt, TheRoute
  <2>2. s = r /\ Home[s] = client[i].case
    BY <1>2 DEF Add, TheCase, RoutesInv, TablesTyped
  <2> QED BY <2>1, <2>2, UnderWay DEF Knows, StandsAt, TheCase
<1>3. ASSUME NEW i \in Clients, Purge(i)
      PROVE  StandsAt(i, "write") /\ TheCase(i) = Home[r] /\ TheRoute(i).does = "purge"
  BY <1>3 DEF Purge
<1>4. PICK i \in Clients : \/ Edit(i) \/ Remove(i) \/ Purge(i) \/ \E s \in Rows : Add(i, s)
  BY DEF CaseRoutesNext, RequestSteps, NoSuchRoute, Request, Guard, Find, ReadOrTouch, SoftDelete, ReadAgain, Throw
<1>5. CASE Edit(i) \/ Remove(i)
  BY <1>1, <1>5 DEF Edit, Remove, StandsAt, TheRoute
<1> QED BY <1>2, <1>3, <1>4, <1>5

\* For any users, cases, rows and requests: a case's rows are its owner's, an edit
\* that answers with its row has written it, and what is written after a case's
\* deletion was let in before.
THEOREM RoutesKeep == CaseRoutesSpec => RoutesKeepTheirCase
<1>1. RoutesInv => RowsAreTheOwners /\ AnsweredIsWritten
  BY DEF RoutesInv, Honest, AnsweredIsWritten, BusyRow
<1>2. RoutesInv /\ [CaseRoutesNext]_routeVars =>
        [\A r \in Rows : wroteRow'[r] # wroteRow[r] =>
           \E i \in Clients : /\ StandsAt(i, "write") /\ TheCase(i) = Home[r]
                              /\ TheRoute(i).does = "purge" \/ client[i].began = "live"]_routeVars
  BY FrozenStep
<1>3. RoutesInv' => RowsAreTheOwners' /\ AnsweredIsWritten'
  BY <1>1, PTL
<1>4. RoutesInv /\ [CaseRoutesNext]_routeVars => [RowsAreTheOwners' /\ AnsweredIsWritten']_routeVars
  BY <1>3, RoutesStep
<1> QED BY <1>2, <1>4, RoutesStart, RoutesStep, PTL DEF CaseRoutesSpec, RoutesKeepTheirCase, DeletedIsFrozen

-----------------------------------------------------------------------------
(* Processes.                                                              *)

EditAts == {"idle", "state", "row", "data", "mirror", "allegation"}
AllegationStates == {"absent", "proposed", "open", "responded", "withdrawn", "deleted"}
Entered == [Fields -> Dates \cup {NoDate}]
ProcessRow == [state : AllStates \cup {"absent"}, data : Entered]
EditRow == [at : EditAts, proc : Procs \cup {NoProc}, from : AllStates \cup Answers,
            to : AllStates \cup AllegationStates \cup {"none", "same"}, data : Entered,
            patched : SUBSET Fields, allegation : Allegations \cup {NoAllegation}]

\* What a request under way has found: its process, or its allegation.
EditFits(x) ==
  /\ x.at \in {"state", "row"} => x.proc \in Procs /\ x.to \in StatesFor(TypeOf[x.proc])
                                  /\ x.from \in AllStates \cup {"none"}
  /\ x.at \in {"data", "mirror"} => x.proc \in Procs
  /\ x.at = "mirror" => IsAcas(x.proc)
  /\ x.at = "allegation" => x.allegation \in Allegations 
                            /\ x.to \in {"open", "responded", "withdrawn", "same"}
  /\ x.at # "allegation" => x.allegation = NoAllegation

ProcessTables ==
  /\ process \in [Procs -> ProcessRow]
  /\ \A p \in Procs : process[p].state \in StatesFor(TypeOf[p]) \cup {"absent"}
  /\ history \in [Procs -> Seq((AllStates \cup {"none"}) \X AllStates)]
  /\ mirror \in Entered /\ entered \in [Procs -> Entered]
  /\ alleged \in [Allegations -> AllegationStates]
  /\ crossed \subseteq Procs /\ mixed \subseteq Procs /\ reread \subseteq Allegations
  /\ apart \subseteq Fields /\ several \subseteq Fields

EditsFit ==
  /\ edit \in [Editors -> EditRow]
  /\ \A r \in Editors : EditFits(edit[r])

Mover(r, p)  == edit[r].proc = p /\ edit[r].at \in {"state", "row"}
Merger(r, p) == edit[r].proc = p /\ edit[r].at \in {"data", "mirror"}

Shown(p) == IF history[p] = <<>> THEN "none" ELSE history[p][Len(history[p])][2]

\* A process without rows has none of its history either.
AbsentIsBlank ==
  \A p \in Procs : process[p].state = "absent" =>
    /\ history[p] = <<>> /\ process[p].data = NoData /\ entered[p] = NoData
    /\ \A r \in Editors : edit[r].proc # p

\* The history so far is a path; it ends in the state, or lacks the step that
\* the one request under way made or is about to make.
PathGoesOn(p) ==
  /\ history[p] # <<>> => history[p][1][1] = "none"
  /\ \A i \in 2..Len(history[p]) :
       /\ history[p][i][1] = history[p][i - 1][2]
       /\ CanTransition(TypeOf[p], history[p][i][1], history[p][i][2])

OneMover(p) == \A r, s \in Editors : Mover(r, p) /\ Mover(s, p) => r = s

MoverFits(p, x) ==
  /\ Shown(p) = x.from
  /\ x.at = "state" => process[p].state = x.from
  /\ x.at = "row" => process[p].state = x.to
  /\ \/ x.at = "row" /\ x.from = "none" /\ history[p] = <<>>
     \/ history[p] # <<>> /\ CanTransition(TypeOf[p], x.from, x.to)

PathEnds(p) ==
  /\ (\A r \in Editors : ~Mover(r, p)) =>
       process[p].state = "absent" \/ (history[p] # <<>> /\ Shown(p) = process[p].state)
  /\ \A r \in Editors : Mover(r, p) => MoverFits(p, edit[r])

PathsKept == \A p \in Procs \ crossed : PathGoesOn(p) /\ OneMover(p) /\ PathEnds(p)

\* A field has what was entered last, or one request is about to write it; and
\* the facts have it too, of the only Acas process, but for what is apart.
OneMerger(p) == \A r, s \in Editors : Merger(r, p) /\ Merger(s, p) => r = s

OnlyAcas(p) == p \in AcasProcs /\ AcasProcs = {p}

Mirrored(p, fields) == \A f \in fields \ apart : mirror[f] = process[p].data[f]

MergerFits(p, x) ==
  /\ x.data = entered[p]
  /\ \A f \in Fields \ x.patched : process[p].data[f] = x.data[f]
  /\ x.at = "mirror" => process[p].data = x.data
  /\ OnlyAcas(p) /\ x.at = "data" => Mirrored(p, Fields)
  /\ OnlyAcas(p) /\ x.at = "mirror" => Mirrored(p, Fields \ x.patched)

EntriesEnd(p) ==
  /\ (\A r \in Editors : ~Merger(r, p)) =>
       process[p].data = entered[p] /\ (OnlyAcas(p) => Mirrored(p, Fields))
  /\ \A r \in Editors : Merger(r, p) => MergerFits(p, edit[r])

EntriesKept == \A p \in Procs \ mixed : OneMerger(p) /\ EntriesEnd(p)

\* Who edits an allegation without an answer opens a proposal only.
JudgedIsThere(a) == \A r \in Editors : edit[r].allegation = a => alleged[a] # "absent"

OneJudge(a) == \A r, s \in Editors : edit[r].allegation = a /\ edit[s].allegation = a => r = s

JudgeFits(a) ==
  \A r \in Editors : edit[r].allegation = a /\ edit[r].from = "none" /\ edit[r].to # "same" =>
    alleged[a] \in {"proposed", "deleted"}

AnswersKept ==
  \A a \in Allegations : JudgedIsThere(a) /\ (a \notin reread => OneJudge(a) /\ JudgeFits(a))

ProcessesInv ==
  ProcessTables /\ EditsFit /\ AbsentIsBlank /\ PathsKept /\ EntriesKept /\ AnswersKept


-----------------------------------------------------------------------------
(* States of the machines, and what a request turns into.                  *)

LEMMA StatesAreNamed ==
  \A type \in {"grievance", "disciplinary", "grievance_appeal", "disciplinary_appeal",
               "acas_early_conciliation", "informal"} :
    "none" \notin StatesFor(type) /\ "absent" \notin StatesFor(type)
  <1>1. \A row \in GRIEVANCE_STATES : row[1] \notin {"none", "absent"}
    BY DEF GRIEVANCE_STATES
  <1>2. \A row \in DISCIPLINARY_STATES : row[1] \notin {"none", "absent"}
    BY DEF DISCIPLINARY_STATES
  <1>3. \A row \in APPEAL_STATES : row[1] \notin {"none", "absent"}
    BY DEF APPEAL_STATES
  <1>4. \A row \in ACAS_STATES : row[1] \notin {"none", "absent"}
    BY DEF ACAS_STATES
  <1>5. \A row \in INFORMAL_STATES : row[1] \notin {"none", "absent"}
    BY DEF INFORMAL_STATES
  <1> QED BY <1>1, <1>2, <1>3, <1>4, <1>5 DEF StatesFor, Machine

LEMMA StatesOfProcs ==
  \A p \in Procs : /\ StatesFor(TypeOf[p]) \subseteq AllStates
                   /\ "none" \notin StatesFor(TypeOf[p]) /\ "absent" \notin StatesFor(TypeOf[p])
  BY StatesAreNamed, ProcessesAssumption DEF AllStates

LEMMA EditMoves ==
  ASSUME NEW r \in Editors, EditsFit, NEW x \in EditRow, EditFits(x), edit' = [edit EXCEPT ![r] = x]
  PROVE  EditsFit' /\ \A s \in Editors : edit'[s] = IF s = r THEN x ELSE edit[s]
  <1>1. \A s \in Editors : edit'[s] = IF s = r THEN x ELSE edit[s]
    BY DEF EditsFit
  <1>2. edit' \in [Editors -> EditRow]
    BY DEF EditsFit
  <1> QED BY <1>1, <1>2 DEF EditsFit

LEMMA NothingIsEntered == NoData \in Entered /\ NoEdit \in EditRow /\ EditFits(NoEdit)
  <1>1. NoData \in Entered
    BY DEF NoData, Entered
  <1> QED BY <1>1 DEF NoEdit, EditRow, EditAts, Answers, EditFits

LEMMA MergeIsEntered ==
  ASSUME NEW old \in Entered, NEW fields \in SUBSET Fields, NEW patch \in [fields -> Dates \cup {NoDate}]
  PROVE  /\ Merge(old, patch) \in Entered /\ DOMAIN patch = fields
         /\ \A f \in Fields \ fields : Merge(old, patch)[f] = old[f]
  BY DEF Merge, Entered

\* What a step leaves alone stays as it was, of one process and one allegation.
LEMMA PathStays ==
  ASSUME NEW p \in Procs, PathGoesOn(p), OneMover(p), PathEnds(p),
         history'[p] = history[p], process'[p].state = process[p].state,
         \A s \in Editors : edit'[s].proc = p /\ edit'[s].at \in {"state", "row"} <=> Mover(s, p),
         \A s \in Editors : Mover(s, p) => edit'[s] = edit[s]
  PROVE  PathGoesOn(p)' /\ OneMover(p)' /\ PathEnds(p)'
  <1>1. \A s \in Editors : Mover(s, p)' <=> Mover(s, p)
    BY DEF Mover
  <1>2. Shown(p)' = Shown(p)
    BY DEF Shown
  <1>3. \A s \in Editors : Mover(s, p) => MoverFits(p, edit[s])'
    BY <1>2 DEF MoverFits, PathEnds
  <1> QED BY <1>1, <1>2, <1>3 DEF PathGoesOn, OneMover, PathEnds

LEMMA EntriesStay ==
  ASSUME NEW p \in Procs, OneMerger(p), EntriesEnd(p),
         ~OnlyAcas(p) \/ \A f \in Fields \ apart' : f \notin apart /\ mirror'[f] = mirror[f],
         process'[p].data = process[p].data, entered'[p] = entered[p],
         \A s \in Editors : edit'[s].proc = p /\ edit'[s].at \in {"data", "mirror"} <=> Merger(s, p),
         \A s \in Editors : Merger(s, p) => edit'[s] = edit[s]
  PROVE  OneMerger(p)' /\ EntriesEnd(p)'
  <1>1. \A s \in Editors : Merger(s, p)' <=> Merger(s, p)
    BY DEF Merger
  <1>2. OnlyAcas(p)' = OnlyAcas(p)
    BY DEF OnlyAcas, AcasProcs
  <1>3. \A s \in Editors : Merger(s, p) => MergerFits(p, edit[s])'
    BY <1>2 DEF MergerFits, EntriesEnd, Mirrored
  <1> QED BY <1>1, <1>2, <1>3 DEF OneMerger, EntriesEnd, Mirrored

LEMMA BlankStays ==
  ASSUME NEW r \in Editors, AbsentIsBlank, history' = history, entered' = entered, NEW x,
         \A q \in Procs : process'[q] = process[q],
         \A s \in Editors : edit'[s] = IF s = r THEN x ELSE edit[s],
         x.proc \in Procs => process[x.proc].state # "absent"
  PROVE  AbsentIsBlank'
  BY DEF AbsentIsBlank

LEMMA AnswersStayKept ==
  ASSUME NEW r \in Editors, AnswersKept, alleged' = alleged, reread' = reread, EditsFit, NEW x,
         \A s \in Editors : edit'[s] = IF s = r THEN x ELSE edit[s],
         x.allegation = NoAllegation
  PROVE  AnswersKept'
  <1>1. \A a \in Allegations : \A s \in Editors :
          edit'[s].allegation = a => edit[s].allegation = a /\ edit'[s] = edit[s]
    BY ProcessesAssumption
  <1> QED BY <1>1 DEF AnswersKept, JudgedIsThere, OneJudge, JudgeFits

\* The row has no history yet, and the request is about to write it.
LEMMA StartProcessKeeps ==
  ASSUME NEW r \in Editors, NEW p \in Procs, NEW t \in StatesFor(TypeOf[p]), NEW data \in Entered,
         ProcessesInv, StartProcess(r, p, t, data)
  PROVE  ProcessesInv'
  <1> USE ProcessesAssumption, StatesOfProcs
  <1>i. /\ ProcessTables /\ EditsFit /\ AbsentIsBlank /\ PathsKept /\ EntriesKept /\ AnswersKept
    BY DEF ProcessesInv
  <1>w. edit[r] \in EditRow /\ EditFits(edit[r])
    BY <1>i DEF EditsFit
  <1> DEFINE x == [NoEdit EXCEPT !.at = "row", !.proc = p, !.to = t]
  <1>x. edit' = [edit EXCEPT ![r] = x]
    BY <1>i DEF StartProcess, Finish, EditsFit
  <1>s. x \in EditRow
    BY <1>i, <1>w, NothingIsEntered DEF StartProcess, EditRow, EditAts, ProcessTables, ProcessRow, AllegationStates, Answers
  <1>f. x.at = "row" /\ x.proc = p /\ x.from = "none" /\ x.to = t
       /\ x.data = NoData /\ x.patched = {} /\ x.allegation = NoAllegation
    BY <1>w DEF NoEdit, EditRow
  <1> HIDE DEF x
  <1>g. EditFits(x)
    BY <1>i, <1>w, <1>f DEF StartProcess, EditFits, Doing
  <1>r. EditsFit' /\ \A s \in Editors : edit'[s] = IF s = r THEN x ELSE edit[s]
    BY <1>i, <1>x, <1>s, <1>g, EditMoves
  <1>p. \A q \in Procs : /\ process'[q].state = (IF q = p THEN t ELSE process[q].state)
                        /\ process'[q].data = (IF q = p THEN data ELSE process[q].data)
                        /\ entered'[q] = (IF q = p THEN data ELSE entered[q])
    BY <1>i, <1>w DEF StartProcess, ProcessTables, ProcessRow, EditFits, Doing
  <1>1. ProcessTables'
    BY <1>i, <1>w, <1>p DEF StartProcess, ProcessTables, ProcessRow, AddIf, Doing, EditFits
  <1>2. AbsentIsBlank'
    BY <1>i, <1>w, <1>r, <1>p, <1>f DEF StartProcess, ProcessTables, AbsentIsBlank, EditFits, Doing, EditRow
  <1>3. PathsKept'
    <2> SUFFICES ASSUME NEW q \in Procs \ crossed' PROVE (PathGoesOn(q) /\ OneMover(q) /\ PathEnds(q))'
      BY DEF PathsKept
    <2>1. q \notin crossed /\ PathGoesOn(q) /\ OneMover(q) /\ PathEnds(q)
      BY <1>i DEF PathsKept, StartProcess, AddIf
    <2>2. CASE q # p
      <3>1. \A s \in Editors : Mover(s, q) => s # r
        BY <2>2 DEF Mover, StartProcess, Free, Doing
      <3> QED BY <1>r, <1>p, <1>f, <2>1, <2>2, <3>1, PathStays DEF Mover, StartProcess, ProcessTables
    <2>3. CASE q = p
      <3>1. history[p] = <<>> /\ \A s \in Editors : edit[s].proc # p
        BY <1>i DEF AbsentIsBlank, StartProcess
      <3>2. \A s \in Editors : Mover(s, p)' <=> s = r
        BY <1>r, <1>f, <3>1 DEF Mover
      <3>3. history'[p] = <<>> /\ process'[p].state = t
        BY <1>p, <3>1 DEF StartProcess
      <3>4. PathGoesOn(p)' /\ OneMover(p)'
        BY <3>2, <3>3 DEF PathGoesOn, OneMover
      <3>5. \A s \in Editors : Mover(s, p)' => MoverFits(p, edit[s])'
        BY <1>r, <1>f, <3>2, <3>3 DEF MoverFits, Shown
      <3>6. Mover(r, p)'
        BY <3>2
      <3> QED BY <2>3, <3>4, <3>5, <3>6 DEF PathEnds
    <2> QED BY <2>2, <2>3
  <1>4. EntriesKept'
    <2> SUFFICES ASSUME NEW q \in Procs \ mixed' PROVE (OneMerger(q) /\ EntriesEnd(q))'
      BY DEF EntriesKept
    <2>1. q \notin mixed /\ OneMerger(q) /\ EntriesEnd(q)
      BY <1>i DEF EntriesKept, StartProcess
    <2>2. mirror' = mirror /\ (~IsAcas(p) => apart' = apart)
      BY DEF StartProcess
    <2>3. \A s \in Editors : Merger(s, q) => s # r
      BY DEF Merger, StartProcess, Free
    <2>4. x.at \notin {"data", "mirror"}
      BY <1>f
    <2>5. \A s \in Editors : edit'[s].proc = q /\ edit'[s].at \in {"data", "mirror"} <=> Merger(s, q)
      BY <1>r, <2>3, <2>4 DEF Merger
    <2>6. CASE q # p
      <3>1. OnlyAcas(q) => ~IsAcas(p)
        BY <2>6 DEF OnlyAcas, AcasProcs
      <3>2. process'[q].data = process[q].data /\ entered'[q] = entered[q]
        BY <1>p, <2>6
      <3>3. ~OnlyAcas(q) \/ \A f \in Fields \ apart' : f \notin apart /\ mirror'[f] = mirror[f]
        BY <2>2, <3>1
      <3>4. \A s \in Editors : Merger(s, q) => edit'[s] = edit[s]
        BY <1>r, <2>3
      <3> QED BY <2>1, <2>5, <3>2, <3>3, <3>4, EntriesStay
    <2>7. CASE q = p
      <3>1. process[p].data = NoData /\ \A s \in Editors : ~Merger(s, p)
        BY <1>i DEF AbsentIsBlank, StartProcess, Merger
      <3>2. \A s \in Editors : ~Merger(s, p)'
        BY <2>5, <2>7, <3>1 DEF Merger
      <3>3. OnlyAcas(p) => Mirrored(p, Fields)
        BY <2>1, <2>7, <3>1 DEF EntriesEnd
      <3>4. OnlyAcas(p) => \A f \in Fields \ apart' : f \notin apart /\ data[f] = NoDate
        BY DEF OnlyAcas, AcasProcs, StartProcess
      <3>5. OnlyAcas(p) => \A f \in Fields \ apart' : mirror'[f] = process'[p].data[f]
        BY <1>p, <2>2, <3>1, <3>3, <3>4 DEF Mirrored, NoData
      <3>6. OneMerger(p)'
        BY <3>2 DEF OneMerger
      <3>7. OnlyAcas(p)' <=> OnlyAcas(p)
        BY DEF OnlyAcas, AcasProcs
      <3>8. process'[p].data = entered'[p]
        BY <1>p
      <3> QED BY <2>7, <3>2, <3>5, <3>6, <3>7, <3>8 DEF EntriesEnd, Mirrored
    <2> QED BY <2>6, <2>7
  <1>5. AnswersKept'
    BY <1>i, <1>r, <1>f, <1>w, AnswersStayKept DEF StartProcess, EditFits, Doing
  <1> QED BY <1>r, <1>1, <1>2, <1>3, <1>4, <1>5 DEF ProcessesInv

\* Who moves a process that another is moving has crossed it.
LEMMA AskTransitionKeeps ==
  ASSUME NEW r \in Editors, NEW p \in Procs, NEW t \in StatesFor(TypeOf[p]), ProcessesInv, AskTransition(r, p, t)
  PROVE  ProcessesInv'
  <1> USE ProcessesAssumption, StatesOfProcs
  <1>i. /\ ProcessTables /\ EditsFit /\ AbsentIsBlank /\ PathsKept /\ EntriesKept /\ AnswersKept
    BY DEF ProcessesInv
  <1>w. edit[r] \in EditRow /\ EditFits(edit[r])
    BY <1>i DEF EditsFit
  <1> DEFINE x == [NoEdit EXCEPT !.at = "state", !.proc = p, !.from = process[p].state, !.to = t]
  <1>x. edit' = [edit EXCEPT ![r] = x]
    BY <1>i DEF AskTransition, Finish, EditsFit
  <1>s. x \in EditRow
    BY <1>i, <1>w, NothingIsEntered DEF AskTransition, EditRow, EditAts, ProcessTables, ProcessRow, AllegationStates, Answers
  <1>f. x.at = "state" /\ x.proc = p /\ x.from = process[p].state /\ x.to = t
       /\ x.data = NoData /\ x.patched = {} /\ x.allegation = NoAllegation
    BY <1>w DEF NoEdit, EditRow
  <1> HIDE DEF x
  <1>g. EditFits(x)
    BY <1>i, <1>w, <1>f DEF AskTransition, EditFits, Doing, ProcessTables, ProcessRow
  <1>r. EditsFit' /\ \A s \in Editors : edit'[s] = IF s = r THEN x ELSE edit[s]
    BY <1>i, <1>x, <1>s, <1>g, EditMoves
  <1>p. \A q \in Procs : process'[q] = process[q]
    BY DEF AskTransition
  <1>1. ProcessTables'
    BY <1>i, <1>w DEF AskTransition, ProcessTables, ProcessRow, AddIf, Doing, EditFits
  <1>2. AbsentIsBlank'
    BY <1>i, <1>w, <1>r, <1>p, <1>f DEF AskTransition, ProcessTables, AbsentIsBlank, EditFits, Doing, EditRow
  <1>3. PathsKept'
    <2> SUFFICES ASSUME NEW q \in Procs \ crossed' PROVE (PathGoesOn(q) /\ OneMover(q) /\ PathEnds(q))'
      BY DEF PathsKept
    <2>1. q \notin crossed /\ PathGoesOn(q) /\ OneMover(q) /\ PathEnds(q)
      BY <1>i DEF PathsKept, AskTransition, AddIf
    <2>2. CASE q # p
      <3>1. \A s \in Editors : Mover(s, q) => s # r
        BY <2>2 DEF Mover, AskTransition, Free, Doing
      <3> QED BY <1>r, <1>p, <1>f, <2>1, <2>2, <3>1, PathStays DEF Mover, AskTransition, ProcessTables
    <2>3. CASE q = p
      <3>1. \A s \in Editors : ~Mover(s, p)
        BY <1>w, <2>3 DEF AskTransition, AddIf, Moving, Mover
      <3>2. \A s \in Editors : Mover(s, p)' <=> s = r
        BY <1>r, <1>f, <3>1 DEF Mover
      <3>3. history'[p] = history[p] /\ process'[p].state = process[p].state
        BY <1>p DEF AskTransition
      <3>4. history[p] # <<>> /\ Shown(p) = process[p].state
        BY <2>1, <2>3, <3>1 DEF PathEnds, AskTransition
      <3>5. PathGoesOn(p)' /\ OneMover(p)'
        BY <2>1, <2>3, <3>2, <3>3 DEF PathGoesOn, OneMover
      <3>6. \A s \in Editors : Mover(s, p)' => MoverFits(p, edit[s])'
        BY <1>r, <1>f, <3>2, <3>3, <3>4 DEF MoverFits, Shown, AskTransition
      <3>7. Mover(r, p)'
        BY <3>2
      <3> QED BY <2>3, <3>5, <3>6, <3>7 DEF PathEnds
    <2> QED BY <2>2, <2>3
  <1>4. EntriesKept'
    <2> SUFFICES ASSUME NEW q \in Procs \ mixed' PROVE (OneMerger(q) /\ EntriesEnd(q))'
      BY DEF EntriesKept
    <2>1. q \notin mixed /\ OneMerger(q) /\ EntriesEnd(q)
      BY <1>i DEF EntriesKept, AskTransition, AddIf
    <2>2. mirror' = mirror /\ apart' = apart /\ process'[q].data = process[q].data /\ entered'[q] = entered[q]
      BY <1>p DEF AskTransition
    <2>3. \A s \in Editors : Merger(s, q) => s # r
      BY DEF Merger, AskTransition, Free, Doing
    <2>4. x.at \notin {"data", "mirror"}
      BY <1>f DEF AskTransition
    <2>5. \A s \in Editors : edit'[s].proc = q /\ edit'[s].at \in {"data", "mirror"} <=> Merger(s, q)
      BY <1>r, <2>3, <2>4 DEF Merger
    <2> QED BY <1>r, <2>1, <2>2, <2>3, <2>5, EntriesStay
  <1>5. AnswersKept'
    BY <1>i, <1>r, <1>f, <1>w, AnswersStayKept DEF AskTransition, EditFits, Doing
  <1> QED BY <1>r, <1>1, <1>2, <1>3, <1>4, <1>5 DEF ProcessesInv

\* The state is the one asked for.
LEMMA WriteStateKeeps ==
  ASSUME NEW r \in Editors, ProcessesInv, WriteState(r)
  PROVE  ProcessesInv'
  <1> USE ProcessesAssumption, StatesOfProcs
  <1>i. /\ ProcessTables /\ EditsFit /\ AbsentIsBlank /\ PathsKept /\ EntriesKept /\ AnswersKept
    BY DEF ProcessesInv
  <1>w. edit[r] \in EditRow /\ EditFits(edit[r])
    BY <1>i DEF EditsFit
  <1> DEFINE x == [edit[r] EXCEPT !.at = "row"]
  <1>x. edit' = [edit EXCEPT ![r] = x]
    BY <1>i DEF WriteState, Finish, EditsFit
  <1>s. x \in EditRow
    BY <1>i, <1>w, NothingIsEntered DEF WriteState, EditRow, EditAts, ProcessTables, ProcessRow, AllegationStates, Answers
  <1>f. x.at = "row" /\ x.proc = edit[r].proc /\ x.from = edit[r].from /\ x.to = edit[r].to
       /\ x.data = edit[r].data /\ x.patched = edit[r].patched /\ x.allegation = edit[r].allegation
    BY <1>w DEF NoEdit, EditRow
  <1> HIDE DEF x
  <1>g. EditFits(x)
    BY <1>i, <1>w, <1>f DEF WriteState, EditFits, Doing
  <1>r. EditsFit' /\ \A s \in Editors : edit'[s] = IF s = r THEN x ELSE edit[s]
    BY <1>i, <1>x, <1>s, <1>g, EditMoves
  <1>p. \A q \in Procs : /\ process'[q].state = (IF q = edit[r].proc THEN edit[r].to ELSE process[q].state)
                        /\ process'[q].data = process[q].data
    BY <1>i, <1>w DEF WriteState, ProcessTables, ProcessRow, EditFits, Doing
  <1>1. ProcessTables'
    BY <1>i, <1>w, <1>p DEF WriteState, ProcessTables, ProcessRow, AddIf, Doing, EditFits
  <1>2. AbsentIsBlank'
    BY <1>i, <1>w, <1>r, <1>p, <1>f DEF WriteState, ProcessTables, AbsentIsBlank, EditFits, Doing, EditRow
  <1>3. PathsKept'
    <2> SUFFICES ASSUME NEW q \in Procs \ crossed' PROVE (PathGoesOn(q) /\ OneMover(q) /\ PathEnds(q))'
      BY DEF PathsKept
    <2>1. q \notin crossed /\ PathGoesOn(q) /\ OneMover(q) /\ PathEnds(q)
      BY <1>i DEF PathsKept, WriteState, AddIf
    <2>2. CASE q # edit[r].proc
      <3>1. \A s \in Editors : Mover(s, q) => s # r
        BY <2>2 DEF Mover, WriteState, Free, Doing
      <3> QED BY <1>r, <1>p, <1>f, <2>1, <2>2, <3>1, PathStays DEF Mover, WriteState, ProcessTables
    <2>3. CASE q = edit[r].proc
      <3>1. \A s \in Editors : Mover(s, q) <=> s = r
        BY <2>1, <2>3 DEF OneMover, Mover, WriteState, Doing
      <3>2. \A s \in Editors : Mover(s, q)' <=> s = r
        BY <1>r, <1>f, <2>3, <3>1 DEF Mover
      <3>3. history'[q] = history[q] /\ process'[q].state = edit[r].to
        BY <1>p, <2>3 DEF WriteState
      <3>4. MoverFits(q, edit[r])
        BY <2>1, <3>1 DEF PathEnds
      <3>5. PathGoesOn(q)' /\ OneMover(q)'
        BY <2>1, <3>2, <3>3 DEF PathGoesOn, OneMover
      <3>6. \A s \in Editors : Mover(s, q)' => MoverFits(q, edit[s])'
        BY <1>r, <1>f, <3>2, <3>3, <3>4 DEF MoverFits, Shown, WriteState, Doing
      <3>7. Mover(r, q)'
        BY <3>2
      <3> QED BY <3>5, <3>6, <3>7 DEF PathEnds
    <2> QED BY <2>2, <2>3
  <1>4. EntriesKept'
    <2> SUFFICES ASSUME NEW q \in Procs \ mixed' PROVE (OneMerger(q) /\ EntriesEnd(q))'
      BY DEF EntriesKept
    <2>1. q \notin mixed /\ OneMerger(q) /\ EntriesEnd(q)
      BY <1>i DEF EntriesKept, WriteState, AddIf
    <2>2. mirror' = mirror /\ apart' = apart /\ process'[q].data = process[q].data /\ entered'[q] = entered[q]
      BY <1>p DEF WriteState
    <2>3. \A s \in Editors : Merger(s, q) => s # r
      BY DEF Merger, WriteState, Free, Doing
    <2>4. x.at \notin {"data", "mirror"}
      BY <1>f DEF WriteState
    <2>5. \A s \in Editors : edit'[s].proc = q /\ edit'[s].at \in {"data", "mirror"} <=> Merger(s, q)
      BY <1>r, <2>3, <2>4 DEF Merger
    <2> QED BY <1>r, <2>1, <2>2, <2>3, <2>5, EntriesStay
  <1>5. AnswersKept'
    BY <1>i, <1>r, <1>f, <1>w, AnswersStayKept DEF WriteState, EditFits, Doing
  <1> QED BY <1>r, <1>1, <1>2, <1>3, <1>4, <1>5 DEF ProcessesInv

\* The step shown is the step taken.
LEMMA WriteHistoryKeeps ==
  ASSUME NEW r \in Editors, ProcessesInv, WriteHistory(r)
  PROVE  ProcessesInv'
  <1> USE ProcessesAssumption, StatesOfProcs
  <1>i. /\ ProcessTables /\ EditsFit /\ AbsentIsBlank /\ PathsKept /\ EntriesKept /\ AnswersKept
    BY DEF ProcessesInv
  <1>w. edit[r] \in EditRow /\ EditFits(edit[r])
    BY <1>i DEF EditsFit
  <1> DEFINE x == NoEdit
  <1>x. edit' = [edit EXCEPT ![r] = x]
    BY <1>i DEF WriteHistory, Finish, EditsFit
  <1>s. x \in EditRow
    BY <1>i, <1>w, NothingIsEntered DEF WriteHistory, EditRow, EditAts, ProcessTables, ProcessRow, AllegationStates, Answers
  <1>f. x.at = "idle" /\ x.proc = NoProc /\ x.from = "none" /\ x.to = "none"
       /\ x.data = NoData /\ x.patched = {} /\ x.allegation = NoAllegation
    BY <1>w DEF NoEdit, EditRow
  <1> HIDE DEF x
  <1>g. EditFits(x)
    BY <1>i, <1>w, <1>f DEF WriteHistory, EditFits, Doing
  <1>r. EditsFit' /\ \A s \in Editors : edit'[s] = IF s = r THEN x ELSE edit[s]
    BY <1>i, <1>x, <1>s, <1>g, EditMoves
  <1>p. \A q \in Procs : process'[q] = process[q]
    BY DEF WriteHistory
  <1>h. history' \in [Procs -> Seq((AllStates \cup {"none"}) \X AllStates)]
    <2>1. edit[r].proc \in Procs /\ HistoryRow(r) \in (AllStates \cup {"none"}) \X AllStates
      BY <1>w DEF WriteHistory, HistoryRow, EditFits, Doing
    <2>2. history[edit[r].proc] \in Seq((AllStates \cup {"none"}) \X AllStates)
      BY <1>i, <2>1 DEF ProcessTables
    <2> QED BY <1>i, <2>1, <2>2 DEF WriteHistory, ProcessTables
  <1>1. ProcessTables'
    BY <1>i, <1>w, <1>h DEF WriteHistory, ProcessTables, ProcessRow, AddIf, Doing, EditFits
  <1>2. AbsentIsBlank'
    <2>1. \A q \in Procs : process[q].state = "absent" => q # edit[r].proc
      BY <1>i, <1>w DEF AbsentIsBlank
    <2>2. \A q \in Procs : q # edit[r].proc => history'[q] = history[q]
      BY <1>i DEF WriteHistory, ProcessTables
    <2> QED BY <1>i, <1>r, <1>p, <1>f, <2>1, <2>2 DEF WriteHistory, AbsentIsBlank
  <1>3. PathsKept'
    <2> SUFFICES ASSUME NEW q \in Procs \ crossed' PROVE (PathGoesOn(q) /\ OneMover(q) /\ PathEnds(q))'
      BY DEF PathsKept
    <2>1. q \notin crossed /\ PathGoesOn(q) /\ OneMover(q) /\ PathEnds(q)
      BY <1>i DEF PathsKept, WriteHistory, AddIf
    <2>2. CASE q # edit[r].proc
      <3>1. \A s \in Editors : Mover(s, q) => s # r
        BY <2>2 DEF Mover, WriteHistory, Free, Doing
      <3> QED BY <1>r, <1>p, <1>f, <2>1, <2>2, <3>1, PathStays DEF Mover, WriteHistory, ProcessTables
    <2>3. CASE q = edit[r].proc
      <3>1. \A s \in Editors : Mover(s, q) <=> s = r
        BY <2>1, <2>3 DEF OneMover, Mover, WriteHistory, Doing
      <3>2. \A s \in Editors : ~Mover(s, q)'
        BY <1>r, <1>f, <3>1 DEF Mover
      <3> DEFINE h == history[q]
      <3>3. history'[q] = Append(h, <<edit[r].from, edit[r].to>>)
        BY <1>i, <2>3 DEF WriteHistory, ProcessTables, HistoryRow
      <3>4. MoverFits(q, edit[r])
        BY <2>1, <3>1 DEF PathEnds
      <3>5. h \in Seq((AllStates \cup {"none"}) \X AllStates)
        BY <1>i DEF ProcessTables
      <3>6. PathGoesOn(q)'
        <4>1. history'[q][1][1] = "none"
          BY <2>1, <3>3, <3>4, <3>5 DEF PathGoesOn, MoverFits, Shown, WriteHistory, Doing
        <4>2. ASSUME NEW i \in 2..Len(history'[q])
              PROVE  /\ history'[q][i][1] = history'[q][i - 1][2]
                     /\ CanTransition(TypeOf[q], history'[q][i][1], history'[q][i][2])
          <5>1. CASE i = Len(h) + 1
            <6>1. h # <<>>
              BY <3>3, <3>5, <5>1
            <6>2. Shown(q) = h[Len(h)][2] /\ Shown(q) = edit[r].from
              BY <3>4, <6>1 DEF Shown, MoverFits
            <6>3. CanTransition(TypeOf[q], edit[r].from, edit[r].to)
              BY <3>4, <6>1 DEF MoverFits
            <6>4. history'[q][i] = <<edit[r].from, edit[r].to>> /\ history'[q][i - 1] = h[Len(h)]
              BY <3>3, <3>5, <5>1, <6>1
            <6>5. history'[q][i][1] = edit[r].from /\ history'[q][i][2] = edit[r].to
              BY <6>4
            <6> QED BY <6>2, <6>3, <6>4, <6>5
          <5>2. CASE i \in 2..Len(h)
            <6>1. history'[q][i] = h[i] /\ history'[q][i - 1] = h[i - 1]
              BY <3>3, <3>5, <5>2
            <6> QED BY <2>1, <5>2, <6>1 DEF PathGoesOn
          <5> QED BY <3>3, <3>5, <4>2, <5>1, <5>2
        <4> QED BY <4>1, <4>2 DEF PathGoesOn
      <3>7. OneMover(q)'
        BY <3>2 DEF OneMover
      <3>8. history'[q] # <<>> /\ history'[q][Len(history'[q])][2] = edit[r].to
        BY <3>3, <3>5
      <3>9. process'[q].state = edit[r].to
        BY <1>p, <3>4 DEF MoverFits, WriteHistory, Doing
      <3> QED BY <3>2, <3>6, <3>7, <3>8, <3>9 DEF PathEnds, Shown
    <2> QED BY <2>2, <2>3
  <1>4. EntriesKept'
    <2> SUFFICES ASSUME NEW q \in Procs \ mixed' PROVE (OneMerger(q) /\ EntriesEnd(q))'
      BY DEF EntriesKept
    <2>1. q \notin mixed /\ OneMerger(q) /\ EntriesEnd(q)
      BY <1>i DEF EntriesKept, WriteHistory, AddIf
    <2>2. mirror' = mirror /\ apart' = apart /\ process'[q].data = process[q].data /\ entered'[q] = entered[q]
      BY <1>p DEF WriteHistory
    <2>3. \A s \in Editors : Merger(s, q) => s # r
      BY DEF Merger, WriteHistory, Free, Doing
    <2>4. x.at \notin {"data", "mirror"}
      BY <1>f DEF WriteHistory
    <2>5. \A s \in Editors : edit'[s].proc = q /\ edit'[s].at \in {"data", "mirror"} <=> Merger(s, q)
      BY <1>r, <2>3, <2>4 DEF Merger
    <2> QED BY <1>r, <2>1, <2>2, <2>3, <2>5, EntriesStay
  <1>5. AnswersKept'
    BY <1>i, <1>r, <1>f, <1>w, AnswersStayKept DEF WriteHistory, EditFits, Doing
  <1> QED BY <1>r, <1>1, <1>2, <1>3, <1>4, <1>5 DEF ProcessesInv

\* What is about to be written is what was entered, unless another edit is under way.
LEMMA AskUpdateDataKeeps ==
  ASSUME NEW r \in Editors, NEW p \in Procs, NEW fields \in SUBSET Fields, NEW patch \in [fields -> Dates \cup {NoDate}],
         ProcessesInv, AskUpdateData(r, p, patch)
  PROVE  ProcessesInv'
  <1> USE ProcessesAssumption, StatesOfProcs
  <1>i. /\ ProcessTables /\ EditsFit /\ AbsentIsBlank /\ PathsKept /\ EntriesKept /\ AnswersKept
    BY DEF ProcessesInv
  <1>w. edit[r] \in EditRow /\ EditFits(edit[r])
    BY <1>i DEF EditsFit
  <1> DEFINE x == [NoEdit EXCEPT !.at = "data", !.proc = p, !.patched = DOMAIN patch,
                                !.data = Merge(process[p].data, patch)]
  <1>x. edit' = [edit EXCEPT ![r] = x]
    BY <1>i DEF AskUpdateData, Finish, EditsFit
  <1>s. x \in EditRow
    BY <1>i, <1>w, NothingIsEntered, MergeIsEntered DEF AskUpdateData, EditRow, EditAts, ProcessTables, ProcessRow, AllegationStates, Answers
  <1>f. x.at = "data" /\ x.proc = p /\ x.from = "none" /\ x.to = "none"
       /\ x.data = Merge(process[p].data, patch) /\ x.patched = DOMAIN patch /\ x.allegation = NoAllegation
    BY <1>w DEF NoEdit, EditRow
  <1> HIDE DEF x
  <1>g. EditFits(x)
    BY <1>i, <1>w, <1>f, MergeIsEntered DEF AskUpdateData, EditFits, Doing
  <1>r. EditsFit' /\ \A s \in Editors : edit'[s] = IF s = r THEN x ELSE edit[s]
    BY <1>i, <1>x, <1>s, <1>g, EditMoves
  <1>p. \A q \in Procs : process'[q] = process[q]
    BY DEF AskUpdateData
  <1>1. ProcessTables'
    BY <1>i, <1>w, MergeIsEntered DEF AskUpdateData, ProcessTables, ProcessRow, AddIf, Doing, EditFits
  <1>2. AbsentIsBlank'
    BY <1>i, <1>w, <1>r, <1>p, <1>f DEF AskUpdateData, ProcessTables, AbsentIsBlank, EditFits, Doing, EditRow
  <1>3. PathsKept'
    <2> SUFFICES ASSUME NEW q \in Procs \ crossed' PROVE (PathGoesOn(q) /\ OneMover(q) /\ PathEnds(q))'
      BY DEF PathsKept
    <2>1. q \notin crossed /\ PathGoesOn(q) /\ OneMover(q) /\ PathEnds(q)
      BY <1>i DEF PathsKept, AskUpdateData, AddIf
    <2>2. history'[q] = history[q] /\ process'[q].state = process[q].state
      BY <1>p DEF AskUpdateData
    <2>3. \A s \in Editors : Mover(s, q) => s # r
      BY DEF Mover, AskUpdateData, Free, Doing
    <2>4. x.at \notin {"state", "row"}
      BY <1>f DEF AskUpdateData
    <2>5. \A s \in Editors : edit'[s].proc = q /\ edit'[s].at \in {"state", "row"} <=> Mover(s, q)
      BY <1>r, <2>3, <2>4 DEF Mover
    <2> QED BY <1>r, <2>1, <2>2, <2>3, <2>5, PathStays
  <1>4. EntriesKept'
    <2> SUFFICES ASSUME NEW q \in Procs \ mixed' PROVE (OneMerger(q) /\ EntriesEnd(q))'
      BY DEF EntriesKept
    <2>1. q \notin mixed /\ OneMerger(q) /\ EntriesEnd(q)
      BY <1>i DEF EntriesKept, AskUpdateData, AddIf
    <2>2. CASE q # p
      <3>1. \A s \in Editors : Merger(s, q) => s # r
        BY <2>2 DEF Merger, AskUpdateData, Free, Doing
      <3> QED BY <1>r, <1>p, <1>f, <2>1, <2>2, <3>1, EntriesStay DEF Merger, AskUpdateData, ProcessTables
    <2>3. CASE q = p
      <3>1. \A s \in Editors : ~Merger(s, p)
        BY <1>w, <2>3 DEF AskUpdateData, AddIf, Merging, Merger
      <3>2. \A s \in Editors : Merger(s, p)' <=> s = r
        BY <1>r, <1>f, <3>1 DEF Merger
      <3>3. process[p].data = entered[p] /\ (OnlyAcas(p) => Mirrored(p, Fields))
        BY <2>1, <2>3, <3>1 DEF EntriesEnd
      <3>4. entered'[p] = Merge(process[p].data, patch) /\ process'[p].data = process[p].data
             /\ mirror' = mirror /\ apart' = apart
        BY <1>i, <1>p, <3>3 DEF AskUpdateData, ProcessTables
      <3>5. \A f \in Fields \ DOMAIN patch : Merge(process[p].data, patch)[f] = process[p].data[f]
        <4>1. process[p].data \in Entered
          BY <1>i DEF ProcessTables, ProcessRow
        <4> QED BY <4>1, MergeIsEntered
      <3>6. \A s \in Editors : Merger(s, p)' => MergerFits(p, edit[s])'
        BY <1>r, <1>f, <3>2, <3>3, <3>4, <3>5 DEF MergerFits, Mirrored, OnlyAcas, AcasProcs
      <3>7. OneMerger(p)' /\ Merger(r, p)'
        BY <3>2 DEF OneMerger
      <3> QED BY <2>3, <3>6, <3>7 DEF EntriesEnd
    <2> QED BY <2>2, <2>3
  <1>5. AnswersKept'
    BY <1>i, <1>r, <1>f, <1>w, AnswersStayKept DEF AskUpdateData, EditFits, Doing
  <1> QED BY <1>r, <1>1, <1>2, <1>3, <1>4, <1>5 DEF ProcessesInv

\* The data are what the request has merged.
LEMMA WriteDataKeeps ==
  ASSUME NEW r \in Editors, ProcessesInv, WriteData(r)
  PROVE  ProcessesInv'
  <1> USE ProcessesAssumption, StatesOfProcs
  <1>i. /\ ProcessTables /\ EditsFit /\ AbsentIsBlank /\ PathsKept /\ EntriesKept /\ AnswersKept
    BY DEF ProcessesInv
  <1>w. edit[r] \in EditRow /\ EditFits(edit[r])
    BY <1>i DEF EditsFit
  <1> DEFINE x == IF IsAcas(edit[r].proc) THEN [edit[r] EXCEPT !.at = "mirror"] ELSE NoEdit
  <1>x. edit' = [edit EXCEPT ![r] = x]
    BY <1>i DEF WriteData, Finish, EditsFit
  <1>s. x \in EditRow
    BY <1>i, <1>w, NothingIsEntered DEF WriteData, EditRow, EditAts, ProcessTables, ProcessRow, AllegationStates, Answers
  <1>f. /\ x.allegation = NoAllegation
        /\ ~IsAcas(edit[r].proc) => (x.at = "idle" /\ x.proc = NoProc)
        /\ IsAcas(edit[r].proc) =>
            (x.at = "mirror" /\ x.proc = edit[r].proc /\ x.data = edit[r].data /\ x.patched = edit[r].patched)
    BY <1>w DEF NoEdit, EditRow, EditFits, WriteData, Doing
  <1> HIDE DEF x
  <1>g. EditFits(x)
    BY <1>i, <1>w, <1>f DEF WriteData, EditFits, Doing
  <1>r. EditsFit' /\ \A s \in Editors : edit'[s] = IF s = r THEN x ELSE edit[s]
    BY <1>i, <1>x, <1>s, <1>g, EditMoves
  <1>p. \A q \in Procs : /\ process'[q].data = (IF q = edit[r].proc THEN edit[r].data ELSE process[q].data)
                        /\ process'[q].state = process[q].state
    BY <1>i, <1>w DEF WriteData, ProcessTables, ProcessRow, EditFits, Doing, Merged, EditRow
  <1>p0. process' \in [Procs -> ProcessRow]
    <2>1. edit[r].data \in Entered /\ edit[r].proc \in Procs
      BY <1>w DEF EditRow, EditFits, WriteData, Doing
    <2>2. process[edit[r].proc] \in ProcessRow /\ process \in [Procs -> ProcessRow]
      BY <1>i, <2>1 DEF ProcessTables
    <2>3. [process[edit[r].proc] EXCEPT !.data = edit[r].data] \in ProcessRow
      BY <2>1, <2>2 DEF ProcessRow
    <2>4. process' = [process EXCEPT ![edit[r].proc] = [process[edit[r].proc] EXCEPT !.data = edit[r].data]]
      BY <2>1, <2>2 DEF WriteData, Merged
    <2> QED BY <2>1, <2>2, <2>3, <2>4
  <1>1. ProcessTables'
    BY <1>i, <1>w, <1>p0, <1>p DEF WriteData, ProcessTables, ProcessRow, AddIf, Doing, EditFits, EditRow
  <1>2. AbsentIsBlank'
    <2>1. \A q \in Procs : process[q].state = "absent" => q # edit[r].proc
      BY <1>i, <1>w DEF AbsentIsBlank
    <2>2. x.proc = edit[r].proc \/ x.proc = NoProc
      BY <1>f
    <2> QED BY <1>i, <1>r, <1>p, <2>1, <2>2 DEF WriteData, AbsentIsBlank
  <1>3. PathsKept'
    <2> SUFFICES ASSUME NEW q \in Procs \ crossed' PROVE (PathGoesOn(q) /\ OneMover(q) /\ PathEnds(q))'
      BY DEF PathsKept
    <2>1. q \notin crossed /\ PathGoesOn(q) /\ OneMover(q) /\ PathEnds(q)
      BY <1>i DEF PathsKept, WriteData, AddIf
    <2>2. history'[q] = history[q] /\ process'[q].state = process[q].state
      BY <1>p DEF WriteData
    <2>3. \A s \in Editors : Mover(s, q) => s # r
      BY DEF Mover, WriteData, Free, Doing
    <2>4. x.at \notin {"state", "row"}
      BY <1>f DEF WriteData
    <2>5. \A s \in Editors : edit'[s].proc = q /\ edit'[s].at \in {"state", "row"} <=> Mover(s, q)
      BY <1>r, <2>3, <2>4 DEF Mover
    <2> QED BY <1>r, <2>1, <2>2, <2>3, <2>5, PathStays
  <1>4. EntriesKept'
    <2> SUFFICES ASSUME NEW q \in Procs \ mixed' PROVE (OneMerger(q) /\ EntriesEnd(q))'
      BY DEF EntriesKept
    <2>1. q \notin mixed /\ OneMerger(q) /\ EntriesEnd(q)
      BY <1>i DEF EntriesKept, WriteData, AddIf
    <2>2. CASE q # edit[r].proc
      <3>1. \A s \in Editors : Merger(s, q) => s # r
        BY <2>2 DEF Merger, WriteData, Free, Doing
      <3> QED BY <1>r, <1>p, <1>f, <2>1, <2>2, <3>1, EntriesStay DEF Merger, WriteData, ProcessTables
    <2>3. CASE q = edit[r].proc
      <3>0. \A s \in Editors : Merger(s, q) <=> s = r
        BY <2>1, <2>3 DEF OneMerger, Merger, WriteData, Doing
      <3>1. MergerFits(q, edit[r])
        BY <2>1, <3>0 DEF EntriesEnd
      <3>2. process'[q].data = edit[r].data /\ entered' = entered /\ mirror' = mirror /\ apart' = apart
        BY <1>p, <2>3 DEF WriteData
      <3>3. CASE IsAcas(q)
        <4>1. \A s \in Editors : Merger(s, q)' <=> s = r
          BY <1>r, <1>f, <2>3, <3>0, <3>3 DEF Merger
        <4>2. edit'[r] = x /\ x.at = "mirror" /\ x.data = edit[r].data /\ x.patched = edit[r].patched
          BY <1>r, <1>f, <2>3, <3>3
        <4>3. OnlyAcas(q) => Mirrored(q, Fields)
          BY <3>1 DEF MergerFits, WriteData, Doing
        <4>4. MergerFits(q, edit[r])'
          BY <3>1, <3>2, <4>2, <4>3 DEF MergerFits, Mirrored, OnlyAcas, AcasProcs
        <4>5. OneMerger(q)' /\ Merger(r, q)'
          BY <4>1 DEF OneMerger
        <4> QED BY <4>1, <4>4, <4>5 DEF EntriesEnd
      <3>4. CASE ~IsAcas(q)
        <4>1. \A s \in Editors : ~Merger(s, q)'
          BY <1>r, <1>f, <2>3, <3>0, <3>4 DEF Merger
        <4>2. ~OnlyAcas(q)'
          BY <3>4 DEF OnlyAcas, AcasProcs
        <4>3. OneMerger(q)'
          BY <4>1 DEF OneMerger
        <4> QED BY <3>1, <3>2, <4>1, <4>2, <4>3 DEF EntriesEnd, MergerFits
      <3> QED BY <3>3, <3>4
    <2> QED BY <2>2, <2>3
  <1>5. AnswersKept'
    BY <1>i, <1>r, <1>f, <1>w, AnswersStayKept DEF WriteData, EditFits, Doing
  <1> QED BY <1>r, <1>1, <1>2, <1>3, <1>4, <1>5 DEF ProcessesInv

\* The facts get what the request has merged.
LEMMA MirrorDatesKeeps ==
  ASSUME NEW r \in Editors, ProcessesInv, MirrorDates(r)
  PROVE  ProcessesInv'
  <1> USE ProcessesAssumption, StatesOfProcs
  <1>i. /\ ProcessTables /\ EditsFit /\ AbsentIsBlank /\ PathsKept /\ EntriesKept /\ AnswersKept
    BY DEF ProcessesInv
  <1>w. edit[r] \in EditRow /\ EditFits(edit[r])
    BY <1>i DEF EditsFit
  <1> DEFINE x == NoEdit
  <1>x. edit' = [edit EXCEPT ![r] = x]
    BY <1>i DEF MirrorDates, Finish, EditsFit
  <1>s. x \in EditRow
    BY <1>i, <1>w, NothingIsEntered DEF MirrorDates, EditRow, EditAts, ProcessTables, ProcessRow, AllegationStates, Answers
  <1>f. x.at = "idle" /\ x.proc = NoProc /\ x.from = "none" /\ x.to = "none"
       /\ x.data = NoData /\ x.patched = {} /\ x.allegation = NoAllegation
    BY <1>w DEF NoEdit, EditRow
  <1> HIDE DEF x
  <1>g. EditFits(x)
    BY <1>i, <1>w, <1>f DEF MirrorDates, EditFits, Doing
  <1>r. EditsFit' /\ \A s \in Editors : edit'[s] = IF s = r THEN x ELSE edit[s]
    BY <1>i, <1>x, <1>s, <1>g, EditMoves
  <1>p. \A q \in Procs : process'[q] = process[q]
    BY DEF MirrorDates
  <1>n. mirror' \in Entered /\ several' \subseteq Fields /\ apart' \subseteq Fields
    BY <1>i DEF MirrorDates, Entered, ProcessTables
  <1>m. \A f \in Fields : mirror'[f] \in IF f \in edit[r].patched THEN FactFor(f, edit[r].data[f]) ELSE {mirror[f]}
    BY DEF MirrorDates
  <1>a. \A f \in Fields \ apart' :
          /\ f \in edit[r].patched => mirror'[f] = edit[r].data[f]
          /\ f \notin edit[r].patched => f \notin apart /\ mirror'[f] = mirror[f]
    <2> SUFFICES ASSUME NEW f \in Fields \ apart'
                 PROVE  /\ f \in edit[r].patched => mirror'[f] = edit[r].data[f]
                        /\ f \notin edit[r].patched => f \notin apart /\ mirror'[f] = mirror[f]
      OBVIOUS
    <2>1. apart' = (apart \ edit[r].patched) \cup ({g \in edit[r].patched : edit[r].data[g] = NoDate} \cap several)
      BY DEF MirrorDates
    <2>2. CASE f \in edit[r].patched
      <3>1. edit[r].data[f] # NoDate \/ f \notin several
        BY <2>1, <2>2
      <3>2. FactFor(f, edit[r].data[f]) = {edit[r].data[f]}
        BY <3>1 DEF FactFor, Left
      <3>3. mirror'[f] \in FactFor(f, edit[r].data[f])
        BY <1>m, <2>2
      <3> QED BY <2>2, <3>2, <3>3
    <2>3. CASE f \notin edit[r].patched
      BY <1>m, <2>1, <2>3
    <2> QED BY <2>2, <2>3
  <1>1. ProcessTables'
    BY <1>i, <1>w, <1>m, <1>n DEF MirrorDates, ProcessTables, ProcessRow, AddIf, Doing, EditFits
  <1>2. AbsentIsBlank'
    BY <1>i, <1>w, <1>r, <1>p, <1>f, BlankStays DEF MirrorDates
  <1>3. PathsKept'
    <2> SUFFICES ASSUME NEW q \in Procs \ crossed' PROVE (PathGoesOn(q) /\ OneMover(q) /\ PathEnds(q))'
      BY DEF PathsKept
    <2>1. q \notin crossed /\ PathGoesOn(q) /\ OneMover(q) /\ PathEnds(q)
      BY <1>i DEF PathsKept, MirrorDates, AddIf
    <2>2. history'[q] = history[q] /\ process'[q].state = process[q].state
      BY <1>p DEF MirrorDates
    <2>3. \A s \in Editors : Mover(s, q) => s # r
      BY DEF Mover, MirrorDates, Free, Doing
    <2>4. x.at \notin {"state", "row"}
      BY <1>f DEF MirrorDates
    <2>5. \A s \in Editors : edit'[s].proc = q /\ edit'[s].at \in {"state", "row"} <=> Mover(s, q)
      BY <1>r, <2>3, <2>4 DEF Mover
    <2> QED BY <1>r, <2>1, <2>2, <2>3, <2>5, PathStays
  <1>4. EntriesKept'
    <2> SUFFICES ASSUME NEW q \in Procs \ mixed' PROVE (OneMerger(q) /\ EntriesEnd(q))'
      BY DEF EntriesKept
    <2>1. q \notin mixed /\ OneMerger(q) /\ EntriesEnd(q)
      BY <1>i DEF EntriesKept, MirrorDates, AddIf
    <2>2. CASE q # edit[r].proc
      <3>1. \A s \in Editors : Merger(s, q) => s # r
        BY <2>2 DEF Merger, MirrorDates, Doing
      <3>2. edit[r].proc \in AcasProcs
        BY <1>w DEF MirrorDates, Doing, EditFits, AcasProcs
      <3>3. ~OnlyAcas(q)
        BY <2>2, <3>2 DEF OnlyAcas
      <3> QED BY <1>r, <1>p, <1>f, <2>1, <2>2, <3>1, <3>3, EntriesStay DEF Merger, MirrorDates
    <2>3. CASE q = edit[r].proc
      <3>0. \A s \in Editors : Merger(s, q) <=> s = r
        BY <2>1, <2>3 DEF OneMerger, Merger, MirrorDates, Doing
      <3>1. MergerFits(q, edit[r])
        BY <2>1, <3>0 DEF EntriesEnd
      <3>2. process'[q].data = process[q].data /\ entered' = entered
        BY <1>p DEF MirrorDates
      <3>3. \A s \in Editors : ~Merger(s, q)'
        BY <1>r, <1>f, <3>0 DEF Merger
      <3>4. OneMerger(q)'
        BY <3>3 DEF OneMerger
      <3>5. OnlyAcas(q) => \A f \in Fields \ apart' : mirror'[f] = process'[q].data[f]
        <4>1. edit[r].data = process[q].data
          BY <3>1 DEF MergerFits, MirrorDates, Doing
        <4>2. OnlyAcas(q) => Mirrored(q, Fields \ edit[r].patched)
          BY <3>1 DEF MergerFits, MirrorDates, Doing
        <4> QED BY <1>a, <3>2, <4>1, <4>2 DEF Mirrored
      <3>6. OnlyAcas(q)' <=> OnlyAcas(q)
        BY DEF OnlyAcas, AcasProcs
      <3>7. process'[q].data = entered'[q]
        BY <3>1, <3>2 DEF MergerFits, MirrorDates, Doing
      <3> QED BY <3>3, <3>4, <3>5, <3>6, <3>7 DEF EntriesEnd, Mirrored
    <2> QED BY <2>2, <2>3
  <1>5. AnswersKept'
    BY <1>i, <1>r, <1>f, <1>w, AnswersStayKept DEF MirrorDates, EditFits, Doing
  <1> QED BY <1>r, <1>1, <1>2, <1>3, <1>4, <1>5 DEF ProcessesInv

\* Only a proposal is opened without an answer.
LEMMA AskUpdateAllegationKeeps ==
  ASSUME NEW r \in Editors, NEW a \in Allegations, NEW asked \in Answers, ProcessesInv, AskUpdateAllegation(r, a, asked)
  PROVE  ProcessesInv'
  <1> USE ProcessesAssumption, StatesOfProcs
  <1>i. /\ ProcessTables /\ EditsFit /\ AbsentIsBlank /\ PathsKept /\ EntriesKept /\ AnswersKept
    BY DEF ProcessesInv
  <1>w. edit[r] \in EditRow /\ EditFits(edit[r])
    BY <1>i DEF EditsFit
  <1>a0. Answer(alleged[a], asked) \in {"open", "responded", "withdrawn", "same"}
    BY DEF Answer, Answers
  <1> DEFINE x == [NoEdit EXCEPT !.at = "allegation", !.allegation = a,
                                !.from = asked, !.to = Answer(alleged[a], asked)]
  <1>x. edit' = [edit EXCEPT ![r] = x]
    BY <1>i DEF AskUpdateAllegation, Finish, EditsFit
  <1>s. x \in EditRow
    BY <1>i, <1>w, NothingIsEntered, <1>a0 DEF EditRow, EditAts, AllegationStates, Answers
  <1>f. x.at = "allegation" /\ x.proc = NoProc /\ x.from = asked /\ x.to = Answer(alleged[a], asked)
       /\ x.data = NoData /\ x.patched = {} /\ x.allegation = a
    BY <1>w DEF NoEdit, EditRow
  <1> HIDE DEF x
  <1>g. EditFits(x)
    BY <1>i, <1>w, <1>f, <1>a0 DEF AskUpdateAllegation, EditFits, Doing, Answer
  <1>r. EditsFit' /\ \A s \in Editors : edit'[s] = IF s = r THEN x ELSE edit[s]
    BY <1>i, <1>x, <1>s, <1>g, EditMoves
  <1>p. \A q \in Procs : process'[q] = process[q]
    BY DEF AskUpdateAllegation
  <1>1. ProcessTables'
    BY <1>i, <1>w DEF AskUpdateAllegation, ProcessTables, ProcessRow, AddIf, Doing, EditFits
  <1>2. AbsentIsBlank'
    BY <1>i, <1>w, <1>r, <1>p, <1>f, BlankStays DEF AskUpdateAllegation
  <1>3. PathsKept'
    <2> SUFFICES ASSUME NEW q \in Procs \ crossed' PROVE (PathGoesOn(q) /\ OneMover(q) /\ PathEnds(q))'
      BY DEF PathsKept
    <2>1. q \notin crossed /\ PathGoesOn(q) /\ OneMover(q) /\ PathEnds(q)
      BY <1>i DEF PathsKept, AskUpdateAllegation, AddIf
    <2>2. history'[q] = history[q] /\ process'[q].state = process[q].state
      BY <1>p DEF AskUpdateAllegation
    <2>3. \A s \in Editors : Mover(s, q) => s # r
      BY DEF Mover, AskUpdateAllegation, Free, Doing
    <2>4. x.at \notin {"state", "row"}
      BY <1>f DEF AskUpdateAllegation
    <2>5. \A s \in Editors : edit'[s].proc = q /\ edit'[s].at \in {"state", "row"} <=> Mover(s, q)
      BY <1>r, <2>3, <2>4 DEF Mover
    <2> QED BY <1>r, <2>1, <2>2, <2>3, <2>5, PathStays
  <1>4. EntriesKept'
    <2> SUFFICES ASSUME NEW q \in Procs \ mixed' PROVE (OneMerger(q) /\ EntriesEnd(q))'
      BY DEF EntriesKept
    <2>1. q \notin mixed /\ OneMerger(q) /\ EntriesEnd(q)
      BY <1>i DEF EntriesKept, AskUpdateAllegation, AddIf
    <2>2. mirror' = mirror /\ apart' = apart /\ process'[q].data = process[q].data /\ entered'[q] = entered[q]
      BY <1>p DEF AskUpdateAllegation
    <2>3. \A s \in Editors : Merger(s, q) => s # r
      BY DEF Merger, AskUpdateAllegation, Free, Doing
    <2>4. x.at \notin {"data", "mirror"}
      BY <1>f DEF AskUpdateAllegation
    <2>5. \A s \in Editors : edit'[s].proc = q /\ edit'[s].at \in {"data", "mirror"} <=> Merger(s, q)
      BY <1>r, <2>3, <2>4 DEF Merger
    <2> QED BY <1>r, <2>1, <2>2, <2>3, <2>5, EntriesStay
  <1>5. AnswersKept'
    <2> SUFFICES ASSUME NEW b \in Allegations
                 PROVE  JudgedIsThere(b)' /\ (b \notin reread' => OneJudge(b)' /\ JudgeFits(b)')
      BY DEF AnswersKept
    <2>1. JudgedIsThere(b) /\ (b \notin reread => OneJudge(b) /\ JudgeFits(b))
      BY <1>i DEF AnswersKept
    <2>2. CASE b # a
      <3>1. \A s \in Editors : edit'[s].allegation = b => edit[s].allegation = b /\ edit'[s] = edit[s]
        BY <1>r, <1>f, <2>2
      <3> QED BY <2>1, <3>1 DEF JudgedIsThere, OneJudge, JudgeFits, AskUpdateAllegation, AddIf
    <2>3. CASE b = a
      <3>1. JudgedIsThere(b)'
        BY <1>r, <1>f, <2>1, <2>3 DEF JudgedIsThere, AskUpdateAllegation
      <3>2. ASSUME b \notin reread' PROVE OneJudge(b)' /\ JudgeFits(b)'
        <4>1. \A s \in Editors : edit[s].allegation # b
          BY <2>3, <3>2 DEF AskUpdateAllegation, AddIf, Judging
        <4>2. \A s \in Editors : edit'[s].allegation = b => s = r
          BY <1>r, <4>1
        <4>3. x.from = "none" /\ x.to # "same" => alleged[a] = "proposed"
          BY <1>f DEF Answer
        <4> QED BY <1>r, <2>3, <4>2, <4>3 DEF OneJudge, JudgeFits, AskUpdateAllegation
      <3> QED BY <3>1, <3>2
    <2> QED BY <2>2, <2>3
  <1> QED BY <1>r, <1>1, <1>2, <1>3, <1>4, <1>5 DEF ProcessesInv

\* A deleted allegation stays deleted, and one judged by nobody else may change.
LEMMA WriteAllegationKeeps ==
  ASSUME NEW r \in Editors, ProcessesInv, WriteAllegation(r)
  PROVE  ProcessesInv'
  <1> USE ProcessesAssumption, StatesOfProcs
  <1>i. /\ ProcessTables /\ EditsFit /\ AbsentIsBlank /\ PathsKept /\ EntriesKept /\ AnswersKept
    BY DEF ProcessesInv
  <1>w. edit[r] \in EditRow /\ EditFits(edit[r])
    BY <1>i DEF EditsFit
  <1> DEFINE x == NoEdit
  <1>x. edit' = [edit EXCEPT ![r] = x]
    BY <1>i DEF WriteAllegation, Finish, EditsFit
  <1>s. x \in EditRow
    BY <1>i, <1>w, NothingIsEntered DEF WriteAllegation, EditRow, EditAts, ProcessTables, ProcessRow, AllegationStates, Answers
  <1>f. x.at = "idle" /\ x.proc = NoProc /\ x.from = "none" /\ x.to = "none"
       /\ x.data = NoData /\ x.patched = {} /\ x.allegation = NoAllegation
    BY <1>w DEF NoEdit, EditRow
  <1> HIDE DEF x
  <1>g. EditFits(x)
    BY <1>i, <1>w, <1>f DEF WriteAllegation, EditFits, Doing
  <1>r. EditsFit' /\ \A s \in Editors : edit'[s] = IF s = r THEN x ELSE edit[s]
    BY <1>i, <1>x, <1>s, <1>g, EditMoves
  <1>p. \A q \in Procs : process'[q] = process[q]
    BY DEF WriteAllegation
  <1>m. edit[r].allegation \in Allegations /\ edit[r].to \in {"open", "responded", "withdrawn", "same"}
    BY <1>w DEF EditFits, WriteAllegation, Doing
  <1>1. ProcessTables'
    BY <1>i, <1>w, <1>m DEF WriteAllegation, ProcessTables, ProcessRow, AddIf, Doing, EditFits, AllegationStates
  <1>2. AbsentIsBlank'
    BY <1>i, <1>w, <1>r, <1>p, <1>f, BlankStays DEF WriteAllegation
  <1>3. PathsKept'
    <2> SUFFICES ASSUME NEW q \in Procs \ crossed' PROVE (PathGoesOn(q) /\ OneMover(q) /\ PathEnds(q))'
      BY DEF PathsKept
    <2>1. q \notin crossed /\ PathGoesOn(q) /\ OneMover(q) /\ PathEnds(q)
      BY <1>i DEF PathsKept, WriteAllegation, AddIf
    <2>2. history'[q] = history[q] /\ process'[q].state = process[q].state
      BY <1>p DEF WriteAllegation
    <2>3. \A s \in Editors : Mover(s, q) => s # r
      BY DEF Mover, WriteAllegation, Free, Doing
    <2>4. x.at \notin {"state", "row"}
      BY <1>f DEF WriteAllegation
    <2>5. \A s \in Editors : edit'[s].proc = q /\ edit'[s].at \in {"state", "row"} <=> Mover(s, q)
      BY <1>r, <2>3, <2>4 DEF Mover
    <2> QED BY <1>r, <2>1, <2>2, <2>3, <2>5, PathStays
  <1>4. EntriesKept'
    <2> SUFFICES ASSUME NEW q \in Procs \ mixed' PROVE (OneMerger(q) /\ EntriesEnd(q))'
      BY DEF EntriesKept
    <2>1. q \notin mixed /\ OneMerger(q) /\ EntriesEnd(q)
      BY <1>i DEF EntriesKept, WriteAllegation, AddIf
    <2>2. mirror' = mirror /\ apart' = apart /\ process'[q].data = process[q].data /\ entered'[q] = entered[q]
      BY <1>p DEF WriteAllegation
    <2>3. \A s \in Editors : Merger(s, q) => s # r
      BY DEF Merger, WriteAllegation, Free, Doing
    <2>4. x.at \notin {"data", "mirror"}
      BY <1>f DEF WriteAllegation
    <2>5. \A s \in Editors : edit'[s].proc = q /\ edit'[s].at \in {"data", "mirror"} <=> Merger(s, q)
      BY <1>r, <2>3, <2>4 DEF Merger
    <2> QED BY <1>r, <2>1, <2>2, <2>3, <2>5, EntriesStay
  <1>5. AnswersKept'
    <2> SUFFICES ASSUME NEW b \in Allegations
                 PROVE  JudgedIsThere(b)' /\ (b \notin reread' => OneJudge(b)' /\ JudgeFits(b)')
      BY DEF AnswersKept
    <2>1. JudgedIsThere(b) /\ (b \notin reread => OneJudge(b) /\ JudgeFits(b))
      BY <1>i DEF AnswersKept
    <2>2. \A s \in Editors : edit'[s].allegation = b => s # r /\ edit[s].allegation = b /\ edit'[s] = edit[s]
      BY <1>r, <1>f
    <2>3. CASE b # edit[r].allegation
      <3>1. alleged'[b] = alleged[b]
        BY <1>i, <2>3 DEF WriteAllegation, ProcessTables
      <3> QED BY <2>1, <2>2, <3>1 DEF JudgedIsThere, OneJudge, JudgeFits, WriteAllegation
    <2>4. CASE b = edit[r].allegation
      <3>1. JudgedIsThere(b)'
        BY <1>i, <1>m, <2>1, <2>2, <2>4 DEF JudgedIsThere, WriteAllegation, ProcessTables
      <3>2. ASSUME b \notin reread' PROVE OneJudge(b)' /\ JudgeFits(b)'
        <4>1. \A s \in Editors : edit'[s].allegation # b
          BY <2>1, <2>2, <2>4, <3>2 DEF OneJudge, WriteAllegation
        <4> QED BY <4>1 DEF OneJudge, JudgeFits
      <3> QED BY <3>1, <3>2
    <2> QED BY <2>3, <2>4
  <1> QED BY <1>r, <1>1, <1>2, <1>3, <1>4, <1>5 DEF ProcessesInv

\* What the request leaves half-done is marked.
LEMMA BreakEditKeeps ==
  ASSUME NEW r \in Editors, ProcessesInv, BreakEdit(r)
  PROVE  ProcessesInv'
  <1> USE ProcessesAssumption, StatesOfProcs
  <1>i. /\ ProcessTables /\ EditsFit /\ AbsentIsBlank /\ PathsKept /\ EntriesKept /\ AnswersKept
    BY DEF ProcessesInv
  <1>w. edit[r] \in EditRow /\ EditFits(edit[r])
    BY <1>i DEF EditsFit
  <1> DEFINE x == NoEdit
  <1>x. edit' = [edit EXCEPT ![r] = x]
    BY <1>i DEF BreakEdit, Finish, EditsFit
  <1>s. x \in EditRow
    BY <1>i, <1>w, NothingIsEntered DEF BreakEdit, EditRow, EditAts, ProcessTables, ProcessRow, AllegationStates, Answers
  <1>f. x.at = "idle" /\ x.proc = NoProc /\ x.from = "none" /\ x.to = "none"
       /\ x.data = NoData /\ x.patched = {} /\ x.allegation = NoAllegation
    BY <1>w DEF NoEdit, EditRow
  <1> HIDE DEF x
  <1>g. EditFits(x)
    BY <1>i, <1>w, <1>f DEF BreakEdit, EditFits, Doing
  <1>r. EditsFit' /\ \A s \in Editors : edit'[s] = IF s = r THEN x ELSE edit[s]
    BY <1>i, <1>x, <1>s, <1>g, EditMoves
  <1>p. \A q \in Procs : process'[q] = process[q]
    BY DEF BreakEdit
  <1>1. ProcessTables'
    BY <1>i, <1>w DEF BreakEdit, ProcessTables, ProcessRow, AddIf, Doing, EditFits, Moving, Merging
  <1>2. AbsentIsBlank'
    BY <1>i, <1>w, <1>r, <1>p, <1>f, BlankStays DEF BreakEdit
  <1>3. PathsKept'
    <2> SUFFICES ASSUME NEW q \in Procs \ crossed' PROVE (PathGoesOn(q) /\ OneMover(q) /\ PathEnds(q))'
      BY DEF PathsKept
    <2>1. q \notin crossed /\ PathGoesOn(q) /\ OneMover(q) /\ PathEnds(q)
      BY <1>i DEF PathsKept, BreakEdit, AddIf
    <2>2. \A s \in Editors : Mover(s, q) => s # r
      BY DEF Mover, BreakEdit, AddIf, Moving
    <2> QED BY <1>r, <1>p, <1>f, <2>1, <2>2, PathStays DEF Mover, BreakEdit
  <1>4. EntriesKept'
    <2> SUFFICES ASSUME NEW q \in Procs \ mixed' PROVE (OneMerger(q) /\ EntriesEnd(q))'
      BY DEF EntriesKept
    <2>1. q \notin mixed /\ OneMerger(q) /\ EntriesEnd(q)
      BY <1>i DEF EntriesKept, BreakEdit, AddIf
    <2>2. \A s \in Editors : Merger(s, q) => s # r
      BY DEF Merger, BreakEdit, AddIf, Merging
    <2> QED BY <1>r, <1>p, <1>f, <2>1, <2>2, EntriesStay DEF Merger, BreakEdit
  <1>5. AnswersKept'
    BY <1>i, <1>r, <1>f, <1>w, AnswersStayKept DEF BreakEdit, EditFits, Doing
  <1> QED BY <1>r, <1>1, <1>2, <1>3, <1>4, <1>5 DEF ProcessesInv

\* Nobody edits what is not there.
LEMMA AddAllegationKeeps ==
  ASSUME NEW a \in Allegations, NEW s \in {"proposed", "open"}, ProcessesInv, AddAllegation(a, s)
  PROVE  ProcessesInv'
  <1> USE ProcessesAssumption, StatesOfProcs
  <1>i. /\ ProcessTables /\ EditsFit /\ AbsentIsBlank /\ PathsKept /\ EntriesKept /\ AnswersKept
    BY DEF ProcessesInv
  <1>1. ProcessTables'
    BY <1>i DEF AddAllegation, ProcessTables, AllegationStates
  <1>2. EditsFit' /\ AbsentIsBlank' /\ PathsKept'
    BY <1>i DEF AddAllegation, EditsFit, AbsentIsBlank, PathsKept, PathGoesOn, OneMover, Mover, PathEnds, MoverFits, Shown
  <1>3. EntriesKept'
    BY <1>i DEF AddAllegation, EntriesKept, OneMerger, Merger, EntriesEnd, MergerFits, Mirrored, OnlyAcas, AcasProcs
  <1>4. AnswersKept'
    <2>1. \A b \in Allegations : b # a => alleged'[b] = alleged[b]
      BY <1>i DEF AddAllegation, ProcessTables
    <2>2. alleged'[a] \notin {"absent"}
      BY <1>i DEF AddAllegation, ProcessTables
    <2>3. (\A r \in Editors : edit[r].allegation # a) \/ alleged'[a] = "deleted"
      BY <1>i DEF AddAllegation, AnswersKept, JudgedIsThere, ProcessTables
    <2> QED BY <1>i, <2>1, <2>2, <2>3 DEF AddAllegation, AnswersKept, JudgedIsThere, OneJudge, JudgeFits
  <1> QED BY <1>1, <1>2, <1>3, <1>4 DEF ProcessesInv

\* Who edits it will find it deleted.
LEMMA DeleteAllegationKeeps ==
  ASSUME NEW a \in Allegations, ProcessesInv, DeleteAllegation(a)
  PROVE  ProcessesInv'
  <1> USE ProcessesAssumption, StatesOfProcs
  <1>i. /\ ProcessTables /\ EditsFit /\ AbsentIsBlank /\ PathsKept /\ EntriesKept /\ AnswersKept
    BY DEF ProcessesInv
  <1>1. ProcessTables'
    BY <1>i DEF DeleteAllegation, ProcessTables, AllegationStates
  <1>2. EditsFit' /\ AbsentIsBlank' /\ PathsKept'
    BY <1>i DEF DeleteAllegation, EditsFit, AbsentIsBlank, PathsKept, PathGoesOn, OneMover, Mover, PathEnds, MoverFits, Shown
  <1>3. EntriesKept'
    BY <1>i DEF DeleteAllegation, EntriesKept, OneMerger, Merger, EntriesEnd, MergerFits, Mirrored, OnlyAcas, AcasProcs
  <1>4. AnswersKept'
    <2>1. \A b \in Allegations : b # a => alleged'[b] = alleged[b]
      BY <1>i DEF DeleteAllegation, ProcessTables
    <2>2. alleged'[a] \notin {"absent"}
      BY <1>i DEF DeleteAllegation, ProcessTables
    <2>3. (\A r \in Editors : edit[r].allegation # a) \/ alleged'[a] = "deleted"
      BY <1>i DEF DeleteAllegation, AnswersKept, JudgedIsThere, ProcessTables
    <2> QED BY <1>i, <2>1, <2>2, <2>3 DEF DeleteAllegation, AnswersKept, JudgedIsThere, OneJudge, JudgeFits
  <1> QED BY <1>1, <1>2, <1>3, <1>4 DEF ProcessesInv

\* A fact changed by itself is apart from its process.
LEMMA FactStepsKeep ==
  ASSUME NEW f \in Fields, ProcessesInv, FactSteps(f)
  PROVE  ProcessesInv'
  <1> USE ProcessesAssumption, StatesOfProcs
  <1>i. /\ ProcessTables /\ EditsFit /\ AbsentIsBlank /\ PathsKept /\ EntriesKept /\ AnswersKept
    BY DEF ProcessesInv
  <1>1. PICK value \in Dates \cup {NoDate} : ChangeFact(f, value) /\ several' \subseteq Fields
    BY <1>i DEF FactSteps, RecordFact, CorrectFact, RemoveFact, AddIf, ProcessTables
  <1>2. ProcessTables'
    BY <1>i, <1>1 DEF ChangeFact, ProcessTables, Entered
  <1>3. EditsFit' /\ AbsentIsBlank' /\ PathsKept' /\ AnswersKept'
    BY <1>i, <1>1 DEF ChangeFact, EditsFit, AbsentIsBlank, PathsKept, PathGoesOn, OneMover, Mover, PathEnds,
      MoverFits, Shown, AnswersKept, JudgedIsThere, OneJudge, JudgeFits
  <1>4. EntriesKept'
    <2> SUFFICES ASSUME NEW q \in Procs \ mixed' PROVE (OneMerger(q) /\ EntriesEnd(q))'
      BY DEF EntriesKept
    <2>1. OneMerger(q) /\ EntriesEnd(q)
      BY <1>1, <1>i DEF EntriesKept, ChangeFact
    <2>2. \A g \in Fields \ apart' : g \notin apart /\ mirror'[g] = mirror[g]
      BY <1>1, <1>i DEF ChangeFact, ProcessTables, Entered
    <2>3. process' = process /\ entered' = entered /\ edit' = edit
      BY <1>1 DEF ChangeFact
    <2> QED BY <2>1, <2>2, <2>3, EntriesStay DEF Merger
  <1> QED BY <1>2, <1>3, <1>4 DEF ProcessesInv

-----------------------------------------------------------------------------
LEMMA ProcessesStart == ProcessesInit => ProcessesInv
  <1> USE ProcessesAssumption
  <1> SUFFICES ASSUME ProcessesInit PROVE ProcessesInv
    OBVIOUS
  <1>1. \A r \in Editors : edit[r] = NoEdit
    BY DEF ProcessesInit
  <1>2. \A r \in Editors : edit[r].at = "idle" /\ edit[r].proc = NoProc /\ edit[r].allegation = NoAllegation
    BY <1>1 DEF NoEdit
  <1>3. EditsFit
    BY <1>1, NothingIsEntered DEF ProcessesInit, EditsFit
  <1>4. ProcessTables
    BY NothingIsEntered DEF ProcessesInit, ProcessTables, ProcessRow, AllegationStates
  <1>5. AbsentIsBlank
    BY <1>2 DEF ProcessesInit, AbsentIsBlank
  <1>6. PathsKept
    BY <1>2 DEF ProcessesInit, PathsKept, PathGoesOn, OneMover, PathEnds, Mover
  <1>7. EntriesKept
    BY <1>2 DEF ProcessesInit, EntriesKept, OneMerger, EntriesEnd, Merger, Mirrored
  <1>8. AnswersKept
    BY <1>2 DEF ProcessesInit, AnswersKept, JudgedIsThere, OneJudge, JudgeFits
  <1> QED BY <1>3, <1>4, <1>5, <1>6, <1>7, <1>8 DEF ProcessesInv

LEMMA ProcessesKeep == ProcessesInv /\ [ProcessesNext]_processVars => ProcessesInv'
  <1> SUFFICES ASSUME ProcessesInv, [ProcessesNext]_processVars PROVE ProcessesInv'
    OBVIOUS
  <1>1. ASSUME UNCHANGED processVars PROVE ProcessesInv'
    <2>1. ProcessTables' /\ EditsFit' /\ AbsentIsBlank' /\ AnswersKept'
      BY <1>1 DEF processVars, ProcessesInv, ProcessTables, EditsFit, AbsentIsBlank, AnswersKept,
        JudgedIsThere, OneJudge, JudgeFits
    <2>2. PathsKept'
      BY <1>1 DEF processVars, ProcessesInv, PathsKept, PathGoesOn, OneMover, Mover, PathEnds, MoverFits, Shown
    <2>3. EntriesKept'
      BY <1>1 DEF processVars, ProcessesInv, EntriesKept, OneMerger, Merger, EntriesEnd, MergerFits,
        Mirrored, OnlyAcas, AcasProcs
    <2> QED BY <2>1, <2>2, <2>3 DEF ProcessesInv
  <1>2. ASSUME NEW r \in Editors, NEW p \in Procs, StartSteps(r, p) \/ TransitionSteps(r, p)
        PROVE  ProcessesInv'
    BY <1>2, StartProcessKeeps, WriteHistoryKeeps, AskTransitionKeeps, WriteStateKeeps
      DEF StartSteps, TransitionSteps, Entered
  <1>3. ASSUME NEW r \in Editors, NEW p \in Procs, EditSteps(r, p) PROVE ProcessesInv'
    BY <1>3, AskUpdateDataKeeps, WriteDataKeeps, MirrorDatesKeeps DEF EditSteps
  <1>4. ASSUME NEW r \in Editors, NEW a \in Allegations, AllegationSteps(r, a) PROVE ProcessesInv'
    BY <1>4, AddAllegationKeeps, AskUpdateAllegationKeeps, DeleteAllegationKeeps, WriteAllegationKeeps
      DEF AllegationSteps
  <1>5. ASSUME NEW r \in Editors, BreakEdit(r) PROVE ProcessesInv'
    BY <1>5, BreakEditKeeps
  <1>6. ASSUME NEW f \in Fields, FactSteps(f) PROVE ProcessesInv'
    BY <1>6, FactStepsKeep
  <1> QED BY <1>1, <1>2, <1>3, <1>4, <1>5, <1>6 DEF ProcessesNext

LEMMA ProcessesSafe == ProcessesSpec => []ProcessesInv
  BY ProcessesStart, ProcessesKeep, PTL DEF ProcessesSpec

-----------------------------------------------------------------------------
(* What the invariant says of the run's properties.                        *)

LEMMA ProcessesInvTyped == ProcessesInv => ProcessesTypeOK
  BY DEF ProcessesInv, ProcessTables, ProcessRow, Entered, EditsFit, EditRow, EditAts,
    AllegationStates, ProcessesTypeOK

LEMMA HistoryTells == ProcessesInv => HistoryTellsState
  <1> SUFFICES ASSUME ProcessesInv, NEW p \in Procs \ crossed, process[p].state # "absent", Moving(p) = {}
               PROVE  LET h == history[p] IN
                      /\ h # <<>> /\ h[1][1] = "none" /\ h[Len(h)][2] = process[p].state
                      /\ \A i \in 2..Len(h) : /\ h[i][1] = h[i - 1][2]
                                              /\ CanTransition(TypeOf[p], h[i][1], h[i][2])
    BY DEF HistoryTellsState
  <1>1. PathGoesOn(p) /\ PathEnds(p)
    BY DEF ProcessesInv, PathsKept
  <1>2. \A r \in Editors : ~Mover(r, p)
    BY DEF Mover, Moving
  <1>3. history[p] # <<>> /\ history[p][Len(history[p])][2] = process[p].state
    BY <1>1, <1>2 DEF PathEnds, Shown
  <1> QED BY <1>1, <1>3 DEF PathGoesOn

LEMMA StepsAlongEdges ==
  ProcessesInv /\ [ProcessesNext]_processVars =>
    [\A p \in Procs : process[p].state # "absent" /\ process'[p].state # process[p].state =>
       \/ \E row \in Machine(TypeOf[p]) : row[1] = process[p].state /\ process'[p].state \in row[2]
       \/ p \in crossed]_processVars
  <1> SUFFICES ASSUME ProcessesInv, ProcessesNext, NEW p \in Procs \ crossed,
                      process[p].state # "absent", process'[p].state # process[p].state
               PROVE  CanTransition(TypeOf[p], process[p].state, process'[p].state)
    BY DEF CanTransition
  <1>1. ProcessTables /\ EditsFit
    BY DEF ProcessesInv
  <1>2. ASSUME NEW r \in Editors, NEW q \in Procs, NEW t, NEW data, StartProcess(r, q, t, data) PROVE FALSE
    BY <1>1, <1>2 DEF StartProcess, ProcessTables, ProcessRow
  <1>3. ASSUME NEW r \in Editors, WriteData(r) PROVE FALSE
    <2>1. edit[r].proc \in Procs
      BY <1>1, <1>3 DEF EditsFit, EditFits, WriteData, Doing
    <2> QED BY <1>1, <1>3, <2>1 DEF WriteData, ProcessTables, ProcessRow
  <1>4. \E r \in Editors : WriteState(r)
    <2>1. PICK r \in Editors :
            \/ \E q \in Procs : StartSteps(r, q) \/ TransitionSteps(r, q) \/ EditSteps(r, q)
            \/ \E a \in Allegations : AllegationSteps(r, a)
            \/ \E f \in Fields : FactSteps(f)
            \/ BreakEdit(r)
      BY DEF ProcessesNext
    <2>2. process' # process
      OBVIOUS
    <2>3. ~\E f \in Fields : FactSteps(f)
      BY <2>2 DEF FactSteps, RecordFact, CorrectFact, RemoveFact, ChangeFact
    <2>4. ~\E a \in Allegations : AllegationSteps(r, a)
      BY <2>2 DEF AllegationSteps, AddAllegation, AskUpdateAllegation, WriteAllegation, DeleteAllegation
    <2>5. ~BreakEdit(r)
      BY <2>2 DEF BreakEdit
    <2>6. ~\E q \in Procs : StartSteps(r, q)
      BY <1>2, <2>2 DEF StartSteps, WriteHistory
    <2>7. ~\E q \in Procs : EditSteps(r, q)
      BY <1>3, <2>2 DEF EditSteps, AskUpdateData, MirrorDates
    <2>8. ~\E q \in Procs : \E s \in StatesFor(TypeOf[q]) : AskTransition(r, q, s)
      BY <2>2 DEF AskTransition
    <2> QED BY <2>1, <2>3, <2>4, <2>5, <2>6, <2>7, <2>8 DEF TransitionSteps
  <1>5. PICK r \in Editors : WriteState(r)
    BY <1>4
  <1>6. edit[r].proc = p /\ process'[p].state = edit[r].to
    BY <1>1, <1>5 DEF WriteState, ProcessTables, ProcessRow
  <1>7. MoverFits(p, edit[r])
    BY <1>5, <1>6 DEF ProcessesInv, PathsKept, PathEnds, Mover, WriteState, Doing
  <1> QED BY <1>5, <1>6, <1>7 DEF MoverFits, WriteState, Doing

LEMMA EntriesHold == ProcessesInv => EditsAddUp /\ MirrorIsTrue
  <1> SUFFICES ASSUME ProcessesInv, NEW p \in Procs \ mixed, Merging(p) = {}
               PROVE  process[p].data = entered[p] /\ (OnlyAcas(p) => Mirrored(p, Fields))
    BY DEF EditsAddUp, MirrorIsTrue, OnlyAcas, AcasProcs, Mirrored
  <1>1. \A r \in Editors : ~Merger(r, p)
    BY DEF Merger, Merging
  <1> QED BY <1>1 DEF ProcessesInv, EntriesKept, EntriesEnd

LEMMA AnswersAreNotTakenBack ==
  ProcessesInv /\ [ProcessesNext]_processVars =>
    [\A a \in Allegations \ reread :
       alleged[a] \in {"responded", "withdrawn"} /\ alleged'[a] \notin {alleged[a], "deleted"} =>
         \E r \in Editors : edit[r].allegation = a /\ edit[r].from # "none"]_processVars
  <1> SUFFICES ASSUME ProcessesInv, ProcessesNext, NEW a \in Allegations \ reread,
                      alleged[a] \in {"responded", "withdrawn"}, alleged'[a] \notin {alleged[a], "deleted"}
               PROVE  \E r \in Editors : edit[r].allegation = a /\ edit[r].from # "none"
    OBVIOUS
  <1>1. ProcessTables /\ EditsFit
    BY DEF ProcessesInv
  <1>2. ASSUME NEW b \in Allegations, NEW s, AddAllegation(b, s) PROVE FALSE
    BY <1>1, <1>2 DEF AddAllegation, ProcessTables
  <1>3. ASSUME NEW b \in Allegations, DeleteAllegation(b) PROVE FALSE
    BY <1>1, <1>3 DEF DeleteAllegation, ProcessTables
  <1>0. alleged' # alleged
    OBVIOUS
  <1>4. \E r \in Editors : WriteAllegation(r)
    <2>1. ASSUME NEW r \in Editors, NEW p \in Procs, StartSteps(r, p) \/ TransitionSteps(r, p) PROVE FALSE
      BY <1>0, <2>1 DEF StartSteps, TransitionSteps, StartProcess, WriteHistory, AskTransition, WriteState
    <2>2. ASSUME NEW r \in Editors, NEW p \in Procs, EditSteps(r, p) PROVE FALSE
      BY <1>0, <2>2 DEF EditSteps, AskUpdateData, WriteData, MirrorDates
    <2>3. ASSUME NEW r \in Editors, NEW b \in Allegations, AllegationSteps(r, b) PROVE WriteAllegation(r)
      BY <1>0, <1>2, <1>3, <2>3 DEF AllegationSteps, AskUpdateAllegation
    <2>4. ASSUME NEW r \in Editors, BreakEdit(r) PROVE FALSE
      BY <1>0, <2>4 DEF BreakEdit
    <2>5. ASSUME NEW f \in Fields, FactSteps(f) PROVE FALSE
      BY <1>0, <2>5 DEF FactSteps, RecordFact, CorrectFact, RemoveFact, ChangeFact
    <2> QED BY <2>1, <2>2, <2>3, <2>4, <2>5 DEF ProcessesNext
  <1>5. PICK r \in Editors : WriteAllegation(r)
    BY <1>4
  <1>6. edit[r].allegation = a /\ edit[r].to # "same"
    BY <1>1, <1>5 DEF WriteAllegation, ProcessTables
  <1>7. edit[r].from # "none"
    BY <1>6 DEF ProcessesInv, AnswersKept, JudgeFits
  <1> QED BY <1>6, <1>7

\* Every process, entry and allegation of a case has the shape the code gives it.
THEOREM ProcessesTyped == ProcessesSpec => []ProcessesTypeOK
  BY ProcessesSafe, ProcessesInvTyped, PTL

\* The recorded history of a process is a path of its machine that ends in its
\* state, and a process moves along an edge, for any number of requests at it,
\* unless two of its transitions crossed or one died between its two writes.
THEOREM HistoriesArePaths == ProcessesSpec => HistoryIsAPath
  <1>1. ProcessesInv /\ ProcessesInv' /\ [ProcessesNext]_processVars => [HistoryTellsState']_processVars
    <2>1. ProcessesInv' => HistoryTellsState'
      BY HistoryTells, PTL
    <2> QED BY <2>1
  <1>2. ProcessesSpec => [][HistoryTellsState']_processVars
    BY ProcessesSafe, <1>1, PTL DEF ProcessesSpec
  <1>3. ProcessesSpec => MovesAlongEdges
    BY ProcessesSafe, StepsAlongEdges, PTL DEF ProcessesSpec, MovesAlongEdges
  <1> QED BY <1>2, <1>3 DEF HistoryIsAPath

\* What a user entered about a process is what every reader sees: fields of
\* different edits add up, the facts mirror each field edited since its fact was
\* last changed by itself, and an answer is not taken back by an edit that gives
\* none.
THEOREM EntriesStayKept == ProcessesSpec => EntriesAreKept
  <1>1. ProcessesInv /\ ProcessesInv' /\ [ProcessesNext]_processVars => [EditsAddUp' /\ MirrorIsTrue']_processVars
    <2>1. ProcessesInv' => EditsAddUp' /\ MirrorIsTrue'
      <3>1. ProcessesInv => EditsAddUp
        BY EntriesHold
      <3>2. ProcessesInv => MirrorIsTrue
        BY EntriesHold
      <3>3. ProcessesInv' => EditsAddUp'
        BY <3>1, PTL
      <3>4. ProcessesInv' => MirrorIsTrue'
        BY <3>2, PTL
      <3> QED BY <3>3, <3>4
    <2> QED BY <2>1
  <1>2. ProcessesSpec => [][EditsAddUp' /\ MirrorIsTrue']_processVars
    BY ProcessesSafe, <1>1, PTL DEF ProcessesSpec
  <1>3. ProcessesSpec => AnswersStay
    BY ProcessesSafe, AnswersAreNotTakenBack, PTL DEF ProcessesSpec, AnswersStay
  <1> QED BY <1>2, <1>3 DEF EntriesAreKept

-----------------------------------------------------------------------------
(* Deadlines.                                                              *)

ListRow == [by : Pages, source : Sources, date : Days \cup {Unknown}, alone : {"yes", "no"},
            status : {"uncertain", "calculated", "expired", "stale"}]
PageRow == [at : {"idle", "delete", "processes", "insert", "select", "write"}, gives : [Sources -> Gives], day : Days,
            asks : Seq(TaskKeys), due : Days \cup {Unknown}, found : {"absent", "open", "done"},
            alone : {"yes", "no"}]
TaskRow == [status : {"absent", "open", "done"}, due : Days \cup {Unknown}]

\* A page that writes tasks has one of a kind, or the one that asks for a date.
TasksAsked(asks) == asks = <<Missing>> \/ \E k \in Kinds : asks = <<k>> \/ asks = <<k, Missing>>

Writing(p) == page[p].at \in {"select", "write"}

DeadlineTables ==
  /\ today \in Days /\ gives \in [Sources -> Gives]
  /\ rows \subseteq ListRow /\ task \in [TaskKeys -> TaskRow]
  /\ told \in Kinds \cup {NoKind}

PagesFit ==
  /\ page \in [Pages -> PageRow]
  /\ \A p \in Pages : page[p].day <= today /\ (Writing(p) => TasksAsked(page[p].asks))

\* A build that nothing overlapped is the only one.
AloneIsAlone ==
  \A p, q \in Pages : page[p].at # "idle" /\ page[p].alone = "yes" /\ page[q].at # "idle" => q = p

\* It inserts into an empty table, and who comes later deletes its rows first.
OwnRowsOnly ==
  /\ (\E row \in rows : row.alone = "yes") => \A p \in Pages : page[p].at \notin {"processes", "insert"}
  /\ \A p \in Pages : page[p].at \in {"processes", "insert"} /\ page[p].alone = "yes" => rows = {}

\* What it found of a task is still so when it inserts one.
FoundIsTrue ==
  \A p \in Pages : page[p].at = "write" /\ page[p].alone = "yes" /\ page[p].found = "absent" =>
    task[Head(page[p].asks)].status = "absent"

\* The day it is about to write is that of the most urgent row.
DueIsListed ==
  \A p \in Pages : Writing(p) /\ page[p].alone = "yes" /\ Head(page[p].asks) # Missing =>
    DueFits(Head(page[p].asks), page[p].due)

\* And nobody writes that task again before the next build.
ToldAgrees ==
  told # NoKind =>
    /\ \A p \in Pages : page[p].at = "idle" \/ (Writing(p) /\ Head(page[p].asks) = Missing)
    /\ task[told].status = "open" => DueFits(told, task[told].due)

DeadlinesInv ==
  /\ DeadlineTables /\ PagesFit /\ AloneIsAlone /\ OwnRowsOnly /\ ListedOnce
  /\ NotCalledPastTooSoon /\ FoundIsTrue /\ NoClashAlone /\ DueIsListed /\ ToldAgrees

-----------------------------------------------------------------------------
(* What a page turns into.                                                 *)

LEMMA NoPageFits ==
  NoPage \in PageRow /\ NoPage.at = "idle" /\ NoPage.day = 0 /\ NoPage.alone = "yes"
  BY DeadlinesAssumption DEF NoPage, PageRow, Gives, Days, NotRelevant, Unknown

LEMMA PageMoves ==
  ASSUME NEW p \in Pages, PagesFit, NEW x \in PageRow, x.day <= today,
         x.at \in {"select", "write"} => TasksAsked(x.asks),
         page' = [page EXCEPT ![p] = x], today' = today
  PROVE  PagesFit' /\ \A q \in Pages : page'[q] = IF q = p THEN x ELSE page[q]
  <1>1. \A q \in Pages : page'[q] = IF q = p THEN x ELSE page[q]
    BY DEF PagesFit
  <1>2. page' \in [Pages -> PageRow]
    BY DEF PagesFit
  <1> QED BY <1>1, <1>2 DEF PagesFit, Writing

\* Page p turns into x, and the others are as they were.
MovesTo(p, x) == \A q \in Pages : page'[q] = IF q = p THEN x ELSE page[q]

\* A page that moves and was the only one stays the only one.
LEMMA StaysAlone ==
  ASSUME NEW p \in Pages, AloneIsAlone, NEW x, page[p].at # "idle", x.at = "idle" \/ x.alone = page[p].alone,
         \A q \in Pages : page'[q] = IF q = p THEN x ELSE page[q]
  PROVE  AloneIsAlone'
  BY DEF AloneIsAlone

LEMMA PairIsConcat ==
  ASSUME NEW S, NEW k \in S, NEW m \in S
  PROVE  <<k>> \o <<m>> = <<k, m>>
  <1> DEFINE s == <<k>> \o <<m>>
             t == <<k, m>>
  <1>1. s \in Seq(S) /\ Len(s) = 2 /\ s[1] = k /\ s[2] = m
    OBVIOUS
  <1>2. t \in Seq(S) /\ Len(t) = 2 /\ t[1] = k /\ t[2] = m
    OBVIOUS
  <1>3. \A i \in 1..Len(s) : s[i] = t[i]
    BY <1>1, <1>2
  <1> HIDE DEF s, t
  <1>4. s = t
    BY <1>1, <1>2, <1>3, SeqEqual
  <1> QED BY <1>4 DEF s, t

LEMMA AsksOfTasks ==
  /\ \A k : Head(<<k>>) = k /\ Tail(<<k>>) = <<>> /\ <<k>> # <<>> /\ Head(<<k, Missing>>) = k
            /\ Tail(<<k, Missing>>) = <<Missing>> /\ <<k, Missing>> # <<>>
  /\ \A new : Asks(new, <<>>) = <<>> \/ TasksAsked(Asks(new, <<>>))
  /\ \A new : Asks(new, <<>>) # <<>> => Head(Asks(new, <<>>)) = Missing
  /\ \A new : \A k \in Kinds : TasksAsked(Asks(new, <<k>>)) /\ Head(Asks(new, <<k>>)) = k
  <1>1. \A k : /\ Head(<<k>>) = k /\ Tail(<<k>>) = <<>> /\ <<k>> # <<>> /\ Head(<<k, Missing>>) = k
               /\ <<k, Missing>> # <<>>
    OBVIOUS
  <1>2. \A k : Tail(<<k, Missing>>) = <<Missing>>
    OBVIOUS
  <1>3. \A k \in Kinds : <<k>> \o <<>> = <<k>> /\ <<k>> \o <<Missing>> = <<k, Missing>>
    <2>1. \A k : <<k>> \o <<>> = <<k>>
      OBVIOUS
    <2>2. \A k \in TaskKeys : Missing \in TaskKeys => <<k>> \o <<Missing>> = <<k, Missing>>
      BY PairIsConcat
    <2> QED BY <2>1, <2>2 DEF TaskKeys
  <1>4. <<>> \o <<>> = <<>> /\ <<>> \o <<Missing>> = <<Missing>>
    OBVIOUS
  <1>5. \A new : Asks(new, <<>>) = <<>> \/ Asks(new, <<>>) = <<Missing>>
    BY <1>4 DEF Asks
  <1>6. \A new : \A k \in Kinds : Asks(new, <<k>>) = <<k>> \/ Asks(new, <<k>>) = <<k, Missing>>
    BY <1>3 DEF Asks
  <1>7. \A new : \A k \in Kinds : TasksAsked(Asks(new, <<k>>)) /\ Head(Asks(new, <<k>>)) = k
    <2> TAKE new
    <2> TAKE k \in Kinds
    <2>1. CASE Asks(new, <<k>>) = <<k>>
      BY <1>1, <2>1 DEF TasksAsked
    <2>2. CASE Asks(new, <<k>>) = <<k, Missing>>
      BY <1>1, <2>2 DEF TasksAsked
    <2> QED BY <1>6, <2>1, <2>2
  <1> QED BY <1>1, <1>2, <1>5, <1>7 DEF TasksAsked

LEMMA TasksAskedIsSeq ==
  \A asks : TasksAsked(asks) => /\ asks \in Seq(TaskKeys) /\ asks # <<>> /\ Head(asks) \in TaskKeys
                                /\ Tail(asks) = <<>> \/ Tail(asks) = <<Missing>>
                                /\ Head(asks) = Missing => Tail(asks) = <<>>
  <1> SUFFICES ASSUME NEW asks, TasksAsked(asks)
               PROVE  /\ asks \in Seq(TaskKeys) /\ asks # <<>> /\ Head(asks) \in TaskKeys
                      /\ Tail(asks) = <<>> \/ Tail(asks) = <<Missing>>
                      /\ Head(asks) = Missing => Tail(asks) = <<>>
    OBVIOUS
  <1>1. CASE asks = <<Missing>>
    BY <1>1, AsksOfTasks DEF TaskKeys
  <1>2. CASE \E k \in Kinds : asks = <<k>>
    BY <1>2, AsksOfTasks DEF TaskKeys
  <1>3. CASE \E k \in Kinds : asks = <<k, Missing>>
    <2>1. PICK k \in Kinds : asks = <<k, Missing>>
      BY <1>3
    <2>2. asks \in Seq(TaskKeys)
      BY <2>1 DEF TaskKeys
    <2> QED BY <2>1, <2>2, AsksOfTasks, DeadlinesAssumption DEF TaskKeys
  <1> QED BY <1>1, <1>2, <1>3 DEF TasksAsked

\* A page goes on to the tasks left, if any.
GoneOn(p, x, asks, due) ==
  /\ asks = <<>> => x.at = "idle"
  /\ asks # <<>> => x.at = "select" /\ x.asks = asks /\ x.due = due /\ x.alone = page[p].alone

LEMMA PageGoesOn ==
  ASSUME NEW p \in Pages, PagesFit, today' = today, today \in Days, NEW asks, NEW due \in Days \cup {Unknown},
         asks = <<>> \/ TasksAsked(asks), GoOn(p, asks, due), page[p].at # "idle"
  PROVE  /\ PagesFit'
         /\ \E x \in PageRow : MovesTo(p, x) /\ GoneOn(p, x, asks, due)
  <1> DEFINE x == IF asks = <<>> THEN NoPage
                  ELSE [NoPage EXCEPT !.at = "select", !.asks = asks, !.due = due, !.alone = page[p].alone]
  <1>1. page' = [page EXCEPT ![p] = x]
    BY DEF GoOn
  <1>2. page[p].alone \in {"yes", "no"}
    BY DEF PagesFit, PageRow
  <1>3. x \in PageRow
    BY <1>2, NoPageFits, TasksAskedIsSeq DEF PageRow
  <1>4. /\ asks = <<>> => x.at = "idle"
        /\ asks # <<>> => x.at = "select" /\ x.asks = asks /\ x.due = due /\ x.alone = page[p].alone
        /\ x.day = 0
    BY NoPageFits DEF NoPage
  <1> HIDE DEF x
  <1>5. x.day <= today /\ (x.at \in {"select", "write"} => TasksAsked(x.asks))
    BY <1>4 DEF Days
  <1>6. PagesFit' /\ \A q \in Pages : page'[q] = IF q = p THEN x ELSE page[q]
    BY <1>1, <1>3, <1>5, PageMoves
  <1> QED BY <1>3, <1>4, <1>6 DEF MovesTo, GoneOn

\* A day that is over stays over.
LEMMA NextDayKeeps ==
  ASSUME DeadlinesInv, NextDay
  PROVE  DeadlinesInv'
  <1> USE DeadlinesAssumption
  <1>i. /\ DeadlineTables /\ PagesFit /\ AloneIsAlone /\ OwnRowsOnly /\ ListedOnce
       /\ NotCalledPastTooSoon /\ FoundIsTrue /\ NoClashAlone /\ DueIsListed /\ ToldAgrees
    BY DEF DeadlinesInv
  <1>1. DeadlineTables'
    BY <1>i DEF NextDay, DeadlineTables, Days
  <1>2. PagesFit'
    BY <1>i DEF NextDay, DeadlineTables, PagesFit, PageRow, Writing, Days
  <1>3. AloneIsAlone'
    BY <1>i DEF NextDay, AloneIsAlone
  <1>4. OwnRowsOnly'
    BY <1>i DEF NextDay, OwnRowsOnly
  <1>5. ListedOnce'
    BY <1>i DEF NextDay, ListedOnce
  <1>6. NotCalledPastTooSoon'
    <2>1. \A row \in rows : row.date \in Int
      BY <1>i DEF DeadlineTables, ListRow, Days, Unknown
    <2> QED BY <1>i, <2>1 DEF NextDay, NotCalledPastTooSoon, DeadlineTables, Days
  <1>7. FoundIsTrue'
    BY <1>i DEF NextDay, FoundIsTrue
  <1>8. NoClashAlone'
    BY <1>i DEF NextDay, NoClashAlone
  <1>d. \A kind, due : DueFits(kind, due) => DueFits(kind, due)'
    <2>1. today \in Int /\ today' = today + 1 /\ rows' = rows
      BY <1>i DEF NextDay, DeadlineTables, Days
    <2>2. \A row \in rows : row.date \in Int
      BY <1>i DEF DeadlineTables, ListRow, Days, Unknown
    <2>3. \A row \in rows : row.date >= today' => row.date >= today
      BY <2>1, <2>2
    <2> QED BY <2>1, <2>3 DEF DueFits
  <1>9. DueIsListed'
    <2>1. page' = page
      BY DEF NextDay
    <2> QED BY <1>d, <1>i, <2>1 DEF DueIsListed, Writing
  <1>10. ToldAgrees'
    <2>1. page' = page /\ told' = told /\ task' = task
      BY DEF NextDay
    <2> QED BY <1>d, <1>i, <2>1 DEF ToldAgrees, Writing
  <1> QED BY <1>1, <1>2, <1>3, <1>4, <1>5, <1>6, <1>7, <1>8, <1>9, <1>10 DEF DeadlinesInv

\* The rows are as they were.
LEMMA ChangeInputKeeps ==
  ASSUME NEW s \in Sources, NEW d \in Gives, DeadlinesInv, ChangeInput(s, d)
  PROVE  DeadlinesInv'
  <1> USE DeadlinesAssumption
  <1>i. /\ DeadlineTables /\ PagesFit /\ AloneIsAlone /\ OwnRowsOnly /\ ListedOnce
       /\ NotCalledPastTooSoon /\ FoundIsTrue /\ NoClashAlone /\ DueIsListed /\ ToldAgrees
    BY DEF DeadlinesInv
  <1>1. DeadlineTables'
    BY <1>i DEF ChangeInput, DeadlineTables
  <1>2. PagesFit'
    BY <1>i DEF ChangeInput, DeadlineTables, PagesFit, Writing
  <1>3. AloneIsAlone'
    BY <1>i DEF ChangeInput, AloneIsAlone
  <1>4. OwnRowsOnly'
    BY <1>i DEF ChangeInput, OwnRowsOnly
  <1>5. ListedOnce'
    BY <1>i DEF ChangeInput, ListedOnce
  <1>6. NotCalledPastTooSoon'
    BY <1>i DEF ChangeInput, NotCalledPastTooSoon, DeadlineTables
  <1>7. FoundIsTrue'
    BY <1>i DEF ChangeInput, FoundIsTrue
  <1>8. NoClashAlone'
    BY <1>i DEF ChangeInput, NoClashAlone
  <1>9. DueIsListed'
    BY <1>i DEF ChangeInput, DueIsListed, DueFits, Writing
  <1>10. ToldAgrees'
    BY <1>i DEF ChangeInput, ToldAgrees, DueFits, Writing
  <1> QED BY <1>1, <1>2, <1>3, <1>4, <1>5, <1>6, <1>7, <1>8, <1>9, <1>10 DEF DeadlinesInv

\* A row marked stale keeps its kind and its date.
LEMMA MarkRowsKeeps ==
  ASSUME DeadlinesInv, MarkRows
  PROVE  DeadlinesInv'
  <1> USE DeadlinesAssumption
  <1>i. /\ DeadlineTables /\ PagesFit /\ AloneIsAlone /\ OwnRowsOnly /\ ListedOnce
       /\ NotCalledPastTooSoon /\ FoundIsTrue /\ NoClashAlone /\ DueIsListed /\ ToldAgrees
    BY DEF DeadlinesInv
  <1>m. \A row \in rows' : \E old \in rows :
          /\ row \in ListRow /\ row.source = old.source /\ row.date = old.date /\ row.alone = old.alone
          /\ row.status = "stale" /\ row = [old EXCEPT !.status = "stale"]
    BY <1>i DEF MarkRows, DeadlineTables, ListRow
  <1>o. \A old \in rows : \E row \in rows' : row.source = old.source /\ row.date = old.date
    <2> SUFFICES ASSUME NEW old \in rows PROVE \E row \in rows' : row.source = old.source /\ row.date = old.date
      OBVIOUS
    <2>1. [old EXCEPT !.status = "stale"] \in rows'
      BY DEF MarkRows
    <2>2. old \in ListRow
      BY <1>i DEF DeadlineTables
    <2> QED BY <2>1, <2>2 DEF ListRow
  <1>d. \A kind, due : DueFits(kind, due) => DueFits(kind, due)'
    <2>1. today' = today
      BY DEF MarkRows
    <2> QED BY <1>m, <1>o, <2>1 DEF DueFits
  <1>1. DeadlineTables'
    <2>1. rows' \subseteq ListRow
      BY <1>m
    <2> QED BY <1>i, <2>1 DEF MarkRows, DeadlineTables
  <1>2. PagesFit'
    BY <1>i DEF MarkRows, DeadlineTables, PagesFit, Writing
  <1>3. AloneIsAlone'
    BY <1>i DEF MarkRows, AloneIsAlone
  <1>4. OwnRowsOnly'
    <2>1. rows = {} => rows' = {}
      BY DEF MarkRows
    <2>2. (\E row \in rows' : row.alone = "yes") => \E row \in rows : row.alone = "yes"
      BY <1>m
    <2> QED BY <1>i, <2>1, <2>2 DEF MarkRows, OwnRowsOnly
  <1>5. ListedOnce'
    <2> SUFFICES ASSUME NEW r \in rows', NEW s \in rows', r.source = s.source, r # s
                 PROVE  r.alone = "no" /\ s.alone = "no"
      BY DEF ListedOnce
    <2>1. PICK a \in rows : r.source = a.source /\ r.alone = a.alone /\ r = [a EXCEPT !.status = "stale"]
      BY <1>m
    <2>2. PICK b \in rows : s.source = b.source /\ s.alone = b.alone /\ s = [b EXCEPT !.status = "stale"]
      BY <1>m
    <2> QED BY <1>i, <2>1, <2>2 DEF ListedOnce
  <1>6. NotCalledPastTooSoon'
    BY <1>m DEF NotCalledPastTooSoon
  <1>7. FoundIsTrue'
    BY <1>i DEF MarkRows, FoundIsTrue
  <1>8. NoClashAlone'
    BY <1>i DEF MarkRows, NoClashAlone
  <1>9. DueIsListed'
    <2>1. page' = page
      BY DEF MarkRows
    <2> QED BY <1>d, <1>i, <2>1 DEF DueIsListed, Writing
  <1>10. ToldAgrees'
    <2>1. page' = page /\ told' = told /\ task' = task
      BY DEF MarkRows
    <2> QED BY <1>d, <1>i, <2>1 DEF ToldAgrees, Writing
  <1> QED BY <1>1, <1>2, <1>3, <1>4, <1>5, <1>6, <1>7, <1>8, <1>9, <1>10 DEF DeadlinesInv

\* A task that is done is not open.
LEMMA CompleteTaskKeeps ==
  ASSUME NEW k \in TaskKeys, DeadlinesInv, CompleteTask(k)
  PROVE  DeadlinesInv'
  <1> USE DeadlinesAssumption
  <1>i. /\ DeadlineTables /\ PagesFit /\ AloneIsAlone /\ OwnRowsOnly /\ ListedOnce
       /\ NotCalledPastTooSoon /\ FoundIsTrue /\ NoClashAlone /\ DueIsListed /\ ToldAgrees
    BY DEF DeadlinesInv
  <1>t. /\ task' \in [TaskKeys -> TaskRow]
        /\ \A j \in TaskKeys : j # k => task'[j] = task[j]
        /\ task'[k].due = task[k].due /\ task'[k].status = "done"
    <2>1. task[k] \in TaskRow /\ task \in [TaskKeys -> TaskRow]
      BY <1>i DEF DeadlineTables
    <2> DEFINE y == [task[k] EXCEPT !.status = "done"]
    <2>2. y \in TaskRow /\ y.due = task[k].due /\ y.status = "done"
      BY <2>1 DEF TaskRow, NoTask, Unknown, Days
    <2>3. task' = [task EXCEPT ![k] = y]
      BY <2>1 DEF CompleteTask
    <2> HIDE DEF y
    <2> QED BY <2>1, <2>2, <2>3
  <1>k. told # NoKind => told \in TaskKeys
    BY <1>i DEF DeadlineTables, TaskKeys
  <1>h. \A p \in Pages : Writing(p) => Head(page[p].asks) \in TaskKeys
    BY <1>i, TasksAskedIsSeq DEF PagesFit
  <1>1. DeadlineTables'
    BY <1>i, <1>t DEF CompleteTask, DeadlineTables
  <1>2. PagesFit'
    BY <1>i DEF CompleteTask, DeadlineTables, PagesFit, Writing
  <1>3. AloneIsAlone'
    BY <1>i DEF CompleteTask, AloneIsAlone
  <1>4. OwnRowsOnly'
    BY <1>i DEF CompleteTask, OwnRowsOnly
  <1>5. ListedOnce'
    BY <1>i DEF CompleteTask, ListedOnce
  <1>6. NotCalledPastTooSoon'
    BY <1>i DEF CompleteTask, NotCalledPastTooSoon, DeadlineTables
  <1>7. FoundIsTrue'
    <2>1. \A p \in Pages : page[p].at = "write" => Head(page[p].asks) \in TaskKeys
      BY <1>h DEF Writing
    <2> QED BY <1>i, <1>t, <2>1 DEF CompleteTask, FoundIsTrue
  <1>8. NoClashAlone'
    BY <1>i DEF CompleteTask, NoClashAlone
  <1>9. DueIsListed'
    BY <1>i DEF CompleteTask, DueIsListed, DueFits, Writing
  <1>10. ToldAgrees'
    <2>1. told' # NoKind => told' = told
      BY DEF CompleteTask
    <2>2. told' # NoKind /\ task'[told].status = "open" => task[told].status = "open" /\ task'[told] = task[told]
      BY <1>k, <1>t, <2>1 DEF CompleteTask
    <2> QED BY <1>i, <2>1, <2>2 DEF CompleteTask, ToldAgrees, DueFits, Writing
  <1> QED BY <1>1, <1>2, <1>3, <1>4, <1>5, <1>6, <1>7, <1>8, <1>9, <1>10 DEF DeadlinesInv

\* A task reopened is no longer the one told.
LEMMA ReopenTaskKeeps ==
  ASSUME NEW k \in TaskKeys, DeadlinesInv, ReopenTask(k)
  PROVE  DeadlinesInv'
  <1> USE DeadlinesAssumption
  <1>i. /\ DeadlineTables /\ PagesFit /\ AloneIsAlone /\ OwnRowsOnly /\ ListedOnce
       /\ NotCalledPastTooSoon /\ FoundIsTrue /\ NoClashAlone /\ DueIsListed /\ ToldAgrees
    BY DEF DeadlinesInv
  <1>t. /\ task' \in [TaskKeys -> TaskRow]
        /\ \A j \in TaskKeys : j # k => task'[j] = task[j]
        /\ task'[k].due = task[k].due /\ task'[k].status = "open"
    <2>1. task[k] \in TaskRow /\ task \in [TaskKeys -> TaskRow]
      BY <1>i DEF DeadlineTables
    <2> DEFINE y == [task[k] EXCEPT !.status = "open"]
    <2>2. y \in TaskRow /\ y.due = task[k].due /\ y.status = "open"
      BY <2>1 DEF TaskRow, NoTask, Unknown, Days
    <2>3. task' = [task EXCEPT ![k] = y]
      BY <2>1 DEF ReopenTask
    <2> HIDE DEF y
    <2> QED BY <2>1, <2>2, <2>3
  <1>k. told # NoKind => told \in TaskKeys
    BY <1>i DEF DeadlineTables, TaskKeys
  <1>h. \A p \in Pages : Writing(p) => Head(page[p].asks) \in TaskKeys
    BY <1>i, TasksAskedIsSeq DEF PagesFit
  <1>1. DeadlineTables'
    BY <1>i, <1>t DEF ReopenTask, DeadlineTables
  <1>2. PagesFit'
    BY <1>i DEF ReopenTask, DeadlineTables, PagesFit, Writing
  <1>3. AloneIsAlone'
    BY <1>i DEF ReopenTask, AloneIsAlone
  <1>4. OwnRowsOnly'
    BY <1>i DEF ReopenTask, OwnRowsOnly
  <1>5. ListedOnce'
    BY <1>i DEF ReopenTask, ListedOnce
  <1>6. NotCalledPastTooSoon'
    BY <1>i DEF ReopenTask, NotCalledPastTooSoon, DeadlineTables
  <1>7. FoundIsTrue'
    <2>1. \A p \in Pages : page[p].at = "write" => Head(page[p].asks) \in TaskKeys
      BY <1>h DEF Writing
    <2> QED BY <1>i, <1>t, <2>1 DEF ReopenTask, FoundIsTrue
  <1>8. NoClashAlone'
    BY <1>i DEF ReopenTask, NoClashAlone
  <1>9. DueIsListed'
    BY <1>i DEF ReopenTask, DueIsListed, DueFits, Writing
  <1>10. ToldAgrees'
    <2>1. told' # NoKind => told' = told
      BY DEF ReopenTask
    <2>2. told' # NoKind /\ task'[told].status = "open" => task[told].status = "open" /\ task'[told] = task[told]
      BY <1>k, <1>t, <2>1 DEF ReopenTask
    <2> QED BY <1>i, <2>1, <2>2 DEF ReopenTask, ToldAgrees, DueFits, Writing
  <1> QED BY <1>1, <1>2, <1>3, <1>4, <1>5, <1>6, <1>7, <1>8, <1>9, <1>10 DEF DeadlinesInv

\* A task deleted is not open.
LEMMA DeleteTaskKeeps ==
  ASSUME NEW k \in TaskKeys, DeadlinesInv, DeleteTask(k)
  PROVE  DeadlinesInv'
  <1> USE DeadlinesAssumption
  <1>i. /\ DeadlineTables /\ PagesFit /\ AloneIsAlone /\ OwnRowsOnly /\ ListedOnce
       /\ NotCalledPastTooSoon /\ FoundIsTrue /\ NoClashAlone /\ DueIsListed /\ ToldAgrees
    BY DEF DeadlinesInv
  <1>t. /\ task' \in [TaskKeys -> TaskRow]
        /\ \A j \in TaskKeys : j # k => task'[j] = task[j]
        /\ task'[k].due = Unknown /\ task'[k].status = "absent"
    <2>1. task[k] \in TaskRow /\ task \in [TaskKeys -> TaskRow]
      BY <1>i DEF DeadlineTables
    <2> DEFINE y == NoTask
    <2>2. y \in TaskRow /\ y.due = Unknown /\ y.status = "absent"
      BY <2>1 DEF TaskRow, NoTask, Unknown, Days
    <2>3. task' = [task EXCEPT ![k] = y]
      BY <2>1 DEF DeleteTask
    <2> HIDE DEF y
    <2> QED BY <2>1, <2>2, <2>3
  <1>k. told # NoKind => told \in TaskKeys
    BY <1>i DEF DeadlineTables, TaskKeys
  <1>h. \A p \in Pages : Writing(p) => Head(page[p].asks) \in TaskKeys
    BY <1>i, TasksAskedIsSeq DEF PagesFit
  <1>1. DeadlineTables'
    BY <1>i, <1>t DEF DeleteTask, DeadlineTables
  <1>2. PagesFit'
    BY <1>i DEF DeleteTask, DeadlineTables, PagesFit, Writing
  <1>3. AloneIsAlone'
    BY <1>i DEF DeleteTask, AloneIsAlone
  <1>4. OwnRowsOnly'
    BY <1>i DEF DeleteTask, OwnRowsOnly
  <1>5. ListedOnce'
    BY <1>i DEF DeleteTask, ListedOnce
  <1>6. NotCalledPastTooSoon'
    BY <1>i DEF DeleteTask, NotCalledPastTooSoon, DeadlineTables
  <1>7. FoundIsTrue'
    <2>1. \A p \in Pages : page[p].at = "write" => Head(page[p].asks) \in TaskKeys
      BY <1>h DEF Writing
    <2> QED BY <1>i, <1>t, <2>1 DEF DeleteTask, FoundIsTrue
  <1>8. NoClashAlone'
    BY <1>i DEF DeleteTask, NoClashAlone
  <1>9. DueIsListed'
    BY <1>i DEF DeleteTask, DueIsListed, DueFits, Writing
  <1>10. ToldAgrees'
    <2>1. told' # NoKind => told' = told
      BY DEF DeleteTask
    <2>2. told' # NoKind /\ task'[told].status = "open" => task[told].status = "open" /\ task'[told] = task[told]
      BY <1>k, <1>t, <2>1 DEF DeleteTask
    <2> QED BY <1>i, <2>1, <2>2 DEF DeleteTask, ToldAgrees, DueFits, Writing
  <1> QED BY <1>1, <1>2, <1>3, <1>4, <1>5, <1>6, <1>7, <1>8, <1>9, <1>10 DEF DeadlinesInv

\* Whoever is building is no longer alone, and nothing is told.
LEMMA BeginKeeps ==
  ASSUME NEW p \in Pages, DeadlinesInv, Begin(p)
  PROVE  DeadlinesInv'
  <1> USE DeadlinesAssumption
  <1>i. /\ DeadlineTables /\ PagesFit /\ AloneIsAlone /\ OwnRowsOnly /\ ListedOnce
       /\ NotCalledPastTooSoon /\ FoundIsTrue /\ NoClashAlone /\ DueIsListed /\ ToldAgrees
    BY DEF DeadlinesInv
  <1>a. page[p] \in PageRow /\ page[p].at = "idle"
    BY <1>i DEF Begin, PagesFit
  <1>b. \A q \in Pages : q # p =>
          /\ page'[q] \in PageRow /\ page'[q].at = page[q].at /\ page'[q].asks = page[q].asks
          /\ page'[q].due = page[q].due /\ page'[q].day = page[q].day /\ page'[q].found = page[q].found
          /\ page[q].at # "idle" => page'[q].alone = "no"
    <2> SUFFICES ASSUME NEW q \in Pages, q # p
                 PROVE  /\ page'[q] \in PageRow /\ page'[q].at = page[q].at /\ page'[q].asks = page[q].asks
                        /\ page'[q].due = page[q].due /\ page'[q].day = page[q].day
                        /\ page'[q].found = page[q].found
                        /\ page[q].at # "idle" => page'[q].alone = "no"
      OBVIOUS
    <2>1. page[q] \in PageRow
      BY <1>i DEF PagesFit
    <2>2. page'[q] = [page[q] EXCEPT !.alone = IF q \in Building THEN "no" ELSE "yes"]
      BY DEF Begin
    <2> QED BY <2>1, <2>2 DEF PageRow, Building
  <1>r. page'[p] \in PageRow /\ page'[p].at = "delete" /\ page'[p].day = today
        /\ page'[p].alone = (IF Building = {} THEN "yes" ELSE "no")
    <2>1. page'[p] = [NoPage EXCEPT !.at = "delete", !.gives = Read(p, Limits), !.day = today,
                                    !.alone = IF Building = {} THEN "yes" ELSE "no"]
      BY DEF Begin
    <2>2. Read(p, Limits) \in [Sources -> Gives]
      BY <1>a, <1>i DEF Read, PageRow, DeadlineTables
    <2> QED BY <1>i, <2>1, <2>2, NoPageFits DEF PageRow, DeadlineTables, NoPage
  <1>f. told' = NoKind /\ UNCHANGED <<today, gives, rows, task, clashed>>
    BY DEF Begin
  <1>1. DeadlineTables'
    BY <1>i, <1>f DEF DeadlineTables
  <1>2. PagesFit'
    <2>1. page' \in [Pages -> PageRow]
      BY <1>b, <1>r DEF Begin
    <2>2. today <= today
      BY <1>i DEF DeadlineTables, Days
    <2> QED BY <1>i, <1>b, <1>r, <1>f, <2>1, <2>2 DEF PagesFit, Writing
  <1>3. AloneIsAlone'
    BY <1>i, <1>b, <1>r DEF AloneIsAlone, Building
  <1>4. OwnRowsOnly'
    BY <1>i, <1>b, <1>r, <1>f DEF OwnRowsOnly
  <1>5. ListedOnce'
    BY <1>i, <1>f DEF ListedOnce
  <1>6. NotCalledPastTooSoon'
    BY <1>i, <1>f DEF NotCalledPastTooSoon
  <1>7. FoundIsTrue'
    BY <1>i, <1>b, <1>r, <1>f DEF FoundIsTrue
  <1>8. NoClashAlone'
    BY <1>i, <1>f DEF NoClashAlone
  <1>9. DueIsListed'
    BY <1>i, <1>b, <1>r, <1>f DEF DueIsListed, DueFits, Writing
  <1>10. ToldAgrees'
    BY <1>f DEF ToldAgrees
  <1> QED BY <1>1, <1>2, <1>3, <1>4, <1>5, <1>6, <1>7, <1>8, <1>9, <1>10 DEF DeadlinesInv

\* The table is empty, and stays so for one that is alone.
LEMMA DeleteRowsKeeps ==
  ASSUME NEW p \in Pages, DeadlinesInv, DeleteRows(p)
  PROVE  DeadlinesInv'
  <1> USE DeadlinesAssumption
  <1>i. /\ DeadlineTables /\ PagesFit /\ AloneIsAlone /\ OwnRowsOnly /\ ListedOnce
       /\ NotCalledPastTooSoon /\ FoundIsTrue /\ NoClashAlone /\ DueIsListed /\ ToldAgrees
    BY DEF DeadlinesInv
  <1>w. page[p] \in PageRow /\ page[p].day <= today /\ (Writing(p) => TasksAsked(page[p].asks))
    BY <1>i DEF PagesFit
  <1> DEFINE x == [page[p] EXCEPT !.at = "processes"]
  <1>x. page' = [page EXCEPT ![p] = x] /\ today' = today
    BY <1>i DEF DeleteRows, PagesFit
  <1>f. x \in PageRow /\ x.at = "processes" /\ x.alone = page[p].alone /\ x.day = page[p].day
    BY <1>i, <1>w, NoPageFits DEF PageRow
  <1> HIDE DEF x
  <1>d. today \in Int /\ 0 <= today
    BY <1>i DEF DeadlineTables, Days
  <1>a. x.day <= today /\ (x.at \in {"select", "write"} => TasksAsked(x.asks))
    BY <1>d, <1>w, <1>f DEF DeleteRows, Writing
  <1>r. PagesFit' /\ \A q \in Pages : page'[q] = IF q = p THEN x ELSE page[q]
    BY <1>i, <1>x, <1>f, <1>a, PageMoves
  <1>1. DeadlineTables'
    BY <1>i, <1>r, <1>f, <1>w DEF DeleteRows, Cleared, DeadlineTables
  <1>2. PagesFit'
    BY <1>r
  <1>3. AloneIsAlone'
    BY <1>i, <1>r, <1>f, StaysAlone DEF DeleteRows
  <1>4. OwnRowsOnly'
    BY <1>i, <1>r, <1>f, <1>w DEF DeleteRows, Cleared, OwnRowsOnly
  <1>5. ListedOnce'
    BY <1>i, <1>r, <1>f, <1>w DEF DeleteRows, Cleared, ListedOnce
  <1>6. NotCalledPastTooSoon'
    BY <1>i, <1>r, <1>f, <1>w DEF DeleteRows, Cleared, NotCalledPastTooSoon, DeadlineTables
  <1>7. FoundIsTrue'
    BY <1>i, <1>r, <1>f, <1>w DEF DeleteRows, Cleared, FoundIsTrue
  <1>8. NoClashAlone'
    BY <1>i, <1>r, <1>f, <1>w DEF DeleteRows, Cleared, NoClashAlone
  <1>9. DueIsListed'
    <2> SUFFICES ASSUME NEW q \in Pages, page'[q].at \in {"select", "write"}, page'[q].alone = "yes" PROVE FALSE
      BY DEF DueIsListed, Writing
    <2>1. q # p /\ page[q].at # "idle" /\ page[q].alone = "yes"
      BY <1>r, <1>f
    <2> QED BY <1>i, <2>1 DEF DeleteRows, AloneIsAlone
  <1>10. ToldAgrees'
    BY <1>i, <1>r, <1>f, <1>w DEF DeleteRows, Cleared, ToldAgrees, DueFits, Writing
  <1> QED BY <1>1, <1>2, <1>3, <1>4, <1>5, <1>6, <1>7, <1>8, <1>9, <1>10 DEF DeadlinesInv

\* What it reads of the processes is in no row yet.
LEMMA ReadProcessesKeeps ==
  ASSUME NEW p \in Pages, DeadlinesInv, ReadProcesses(p)
  PROVE  DeadlinesInv'
  <1> USE DeadlinesAssumption
  <1>i. /\ DeadlineTables /\ PagesFit /\ AloneIsAlone /\ OwnRowsOnly /\ ListedOnce
       /\ NotCalledPastTooSoon /\ FoundIsTrue /\ NoClashAlone /\ DueIsListed /\ ToldAgrees
    BY DEF DeadlinesInv
  <1>w. page[p] \in PageRow /\ page[p].day <= today /\ (Writing(p) => TasksAsked(page[p].asks))
    BY <1>i DEF PagesFit
  <1> DEFINE x == [page[p] EXCEPT !.at = "insert", !.gives = Read(p, Windows)]
  <1>x. page' = [page EXCEPT ![p] = x] /\ today' = today
    BY <1>i DEF ReadProcesses, PagesFit
  <1>f. x \in PageRow /\ x.at = "insert" /\ x.alone = page[p].alone /\ x.day = page[p].day
    <2>1. Read(p, Windows) \in [Sources -> Gives]
      BY <1>i, <1>w DEF Read, PageRow, DeadlineTables
    <2> QED BY <1>w, <2>1 DEF PageRow
  <1> HIDE DEF x
  <1>d. today \in Int /\ 0 <= today
    BY <1>i DEF DeadlineTables, Days
  <1>a. x.day <= today /\ (x.at \in {"select", "write"} => TasksAsked(x.asks))
    BY <1>d, <1>w, <1>f DEF ReadProcesses, Writing
  <1>r. PagesFit' /\ \A q \in Pages : page'[q] = IF q = p THEN x ELSE page[q]
    BY <1>i, <1>x, <1>f, <1>a, PageMoves
  <1>1. DeadlineTables'
    BY <1>i, <1>r, <1>f, <1>w DEF ReadProcesses, DeadlineTables
  <1>2. PagesFit'
    BY <1>r
  <1>3. AloneIsAlone'
    BY <1>i, <1>r, <1>f, StaysAlone DEF ReadProcesses
  <1>4. OwnRowsOnly'
    BY <1>i, <1>r, <1>f, <1>w DEF ReadProcesses, OwnRowsOnly
  <1>5. ListedOnce'
    BY <1>i, <1>r, <1>f, <1>w DEF ReadProcesses, ListedOnce
  <1>6. NotCalledPastTooSoon'
    BY <1>i, <1>r, <1>f, <1>w DEF ReadProcesses, NotCalledPastTooSoon, DeadlineTables
  <1>7. FoundIsTrue'
    BY <1>i, <1>r, <1>f, <1>w DEF ReadProcesses, FoundIsTrue
  <1>8. NoClashAlone'
    BY <1>i, <1>r, <1>f, <1>w DEF ReadProcesses, NoClashAlone
  <1>9. DueIsListed'
    BY <1>i, <1>r, <1>f, <1>w DEF ReadProcesses, DueIsListed, DueFits, Writing
  <1>10. ToldAgrees'
    BY <1>i, <1>r, <1>f, <1>w DEF ReadProcesses, ToldAgrees, DueFits, Writing
  <1> QED BY <1>1, <1>2, <1>3, <1>4, <1>5, <1>6, <1>7, <1>8, <1>9, <1>10 DEF DeadlinesInv

\* A page that ends in an exception has nothing to write.
LEMMA BreakPageKeeps ==
  ASSUME NEW p \in Pages, DeadlinesInv, BreakPage(p)
  PROVE  DeadlinesInv'
  <1> USE DeadlinesAssumption
  <1>i. /\ DeadlineTables /\ PagesFit /\ AloneIsAlone /\ OwnRowsOnly /\ ListedOnce
       /\ NotCalledPastTooSoon /\ FoundIsTrue /\ NoClashAlone /\ DueIsListed /\ ToldAgrees
    BY DEF DeadlinesInv
  <1>w. page[p] \in PageRow /\ page[p].day <= today /\ (Writing(p) => TasksAsked(page[p].asks))
    BY <1>i DEF PagesFit
  <1> DEFINE x == NoPage
  <1>x. page' = [page EXCEPT ![p] = x] /\ today' = today
    BY <1>i DEF BreakPage, PagesFit
  <1>f. x \in PageRow /\ x.at = "idle" /\ x.alone = "yes" /\ x.day = 0
    BY <1>i, <1>w, NoPageFits DEF PageRow
  <1> HIDE DEF x
  <1>d. today \in Int /\ 0 <= today
    BY <1>i DEF DeadlineTables, Days
  <1>a. x.day <= today /\ (x.at \in {"select", "write"} => TasksAsked(x.asks))
    BY <1>d, <1>w, <1>f DEF BreakPage, Writing
  <1>r. PagesFit' /\ \A q \in Pages : page'[q] = IF q = p THEN x ELSE page[q]
    BY <1>i, <1>x, <1>f, <1>a, PageMoves
  <1>1. DeadlineTables'
    BY <1>i, <1>r, <1>f, <1>w DEF BreakPage, DeadlineTables
  <1>2. PagesFit'
    BY <1>r
  <1>3. AloneIsAlone'
    BY <1>i, <1>r, <1>f, StaysAlone DEF BreakPage
  <1>4. OwnRowsOnly'
    BY <1>i, <1>r, <1>f, <1>w DEF BreakPage, OwnRowsOnly
  <1>5. ListedOnce'
    BY <1>i, <1>r, <1>f, <1>w DEF BreakPage, ListedOnce
  <1>6. NotCalledPastTooSoon'
    BY <1>i, <1>r, <1>f, <1>w DEF BreakPage, NotCalledPastTooSoon, DeadlineTables
  <1>7. FoundIsTrue'
    BY <1>i, <1>r, <1>f, <1>w DEF BreakPage, FoundIsTrue
  <1>8. NoClashAlone'
    BY <1>i, <1>r, <1>f, <1>w DEF BreakPage, NoClashAlone
  <1>9. DueIsListed'
    BY <1>i, <1>r, <1>f, <1>w DEF BreakPage, DueIsListed, DueFits, Writing
  <1>10. ToldAgrees'
    BY <1>i, <1>r, <1>f, <1>w DEF BreakPage, ToldAgrees, DueFits, Writing
  <1> QED BY <1>1, <1>2, <1>3, <1>4, <1>5, <1>6, <1>7, <1>8, <1>9, <1>10 DEF DeadlinesInv

\* What is found is what is there.
LEMMA SelectTaskKeeps ==
  ASSUME NEW p \in Pages, DeadlinesInv, SelectTask(p)
  PROVE  DeadlinesInv'
  <1> USE DeadlinesAssumption
  <1>i. /\ DeadlineTables /\ PagesFit /\ AloneIsAlone /\ OwnRowsOnly /\ ListedOnce
       /\ NotCalledPastTooSoon /\ FoundIsTrue /\ NoClashAlone /\ DueIsListed /\ ToldAgrees
    BY DEF DeadlinesInv
  <1>w. page[p] \in PageRow /\ page[p].day <= today /\ (Writing(p) => TasksAsked(page[p].asks))
    BY <1>i DEF PagesFit
  <1>h. Head(page[p].asks) \in TaskKeys
    BY <1>w, TasksAskedIsSeq DEF SelectTask, Writing
  <1> DEFINE x == [page[p] EXCEPT !.at = "write", !.found = task[Head(page[p].asks)].status]
  <1>x. page' = [page EXCEPT ![p] = x] /\ today' = today
    BY <1>i DEF SelectTask, Found, PagesFit
  <1>f. x \in PageRow /\ x.at = "write" /\ x.alone = page[p].alone /\ x.day = page[p].day
       /\ x.asks = page[p].asks /\ x.due = page[p].due /\ x.found = task[Head(page[p].asks)].status
    BY <1>i, <1>w, <1>h DEF PageRow, DeadlineTables, TaskRow, SelectTask, Writing
  <1> HIDE DEF x
  <1>d. today \in Int /\ 0 <= today
    BY <1>i DEF DeadlineTables, Days
  <1>a. x.day <= today /\ (x.at \in {"select", "write"} => TasksAsked(x.asks))
    BY <1>d, <1>w, <1>f DEF SelectTask, Writing
  <1>r. PagesFit' /\ \A q \in Pages : page'[q] = IF q = p THEN x ELSE page[q]
    BY <1>i, <1>x, <1>f, <1>a, PageMoves
  <1>1. DeadlineTables'
    BY <1>i, <1>r, <1>f, <1>w DEF SelectTask, DeadlineTables
  <1>2. PagesFit'
    BY <1>r
  <1>3. AloneIsAlone'
    BY <1>i, <1>r, <1>f, StaysAlone DEF SelectTask
  <1>4. OwnRowsOnly'
    BY <1>i, <1>r, <1>f, <1>w DEF SelectTask, OwnRowsOnly
  <1>5. ListedOnce'
    BY <1>i, <1>r, <1>f, <1>w DEF SelectTask, ListedOnce
  <1>6. NotCalledPastTooSoon'
    BY <1>i, <1>r, <1>f, <1>w DEF SelectTask, NotCalledPastTooSoon, DeadlineTables
  <1>7. FoundIsTrue'
    BY <1>i, <1>r, <1>f, <1>w DEF SelectTask, FoundIsTrue
  <1>8. NoClashAlone'
    BY <1>i, <1>r, <1>f, <1>w DEF SelectTask, NoClashAlone
  <1>y. \A kind, d : DueFits(kind, d)' <=> DueFits(kind, d)
    BY DEF SelectTask, DueFits
  <1>9. DueIsListed'
    <2>1. Writing(p) /\ rows' = rows
      BY DEF SelectTask, Writing
    <2> SUFFICES ASSUME NEW q \in Pages, page'[q].at \in {"select", "write"}, page'[q].alone = "yes",
                        Head(page'[q].asks) # Missing
                 PROVE  DueFits(Head(page[q].asks), page[q].due)'
      BY DEF DueIsListed, Writing
    <2>2. Writing(q) /\ page'[q].asks = page[q].asks /\ page'[q].due = page[q].due /\ page'[q].alone = page[q].alone
      BY <1>r, <1>f, <2>1 DEF Writing
    <2>3. DueFits(Head(page[q].asks), page[q].due)
      BY <1>i, <2>2 DEF DueIsListed
    <2> QED BY <2>2, <2>3, <1>y
  <1>10. ToldAgrees'
    <2>1. told' = told /\ rows' = rows /\ task' = task /\ page[p].at = "select"
      BY DEF SelectTask
    <2>2. \A q \in Pages : page[q].at = "idle" \/ (Writing(q) /\ Head(page[q].asks) = Missing) =>
            page'[q].at = "idle" \/ (page'[q].at \in {"select", "write"} /\ Head(page'[q].asks) = Missing)
      BY <1>r, <1>f, <2>1 DEF Writing
    <2>3. told # NoKind /\ task[told].status = "open" => DueFits(told, task[told].due)'
      BY <1>i, <2>1 DEF ToldAgrees, DueFits, SelectTask
    <2>4. told # NoKind => \A q \in Pages : page[q].at = "idle" \/ (Writing(q) /\ Head(page[q].asks) = Missing)
      BY <1>i DEF ToldAgrees
    <2> QED BY <2>1, <2>2, <2>3, <2>4 DEF ToldAgrees, Writing
  <1> QED BY <1>1, <1>2, <1>3, <1>4, <1>5, <1>6, <1>7, <1>8, <1>9, <1>10 DEF DeadlinesInv

-----------------------------------------------------------------------------
(* The rows a build inserts.                                               *)

LEMMA RowsInserted ==
  ASSUME NEW p \in Pages, DeadlineTables, PagesFit
  PROVE  /\ \A row \in NewRows(p) :
              /\ row \in ListRow /\ row.alone = page[p].alone
              /\ row.status = "expired" => row.date < today
              /\ row.status \in {"calculated", "expired"} => row.date \in Days
         /\ \A r, s \in NewRows(p) : r.source = s.source => r = s
         /\ \A row \in Urgent(NewRows(p)) :
              /\ row \in NewRows(p) /\ Kind(row.source) \in Kinds /\ row.date \in Days
              /\ \A other \in NewRows(p) : other.date >= today => row.date <= other.date
  <1>w. page[p] \in PageRow /\ page[p].day <= today
    BY DEF PagesFit
  <1>1. ASSUME NEW row \in NewRows(p)
        PROVE  /\ row \in ListRow /\ row.alone = page[p].alone
               /\ row.status = "expired" => row.date < today
               /\ row.status \in {"calculated", "expired"} => row.date \in Days
               /\ row.date >= today => row.status = "calculated"
    <2>1. PICK k \in Shows(p) :
            row = [by |-> p, source |-> k, date |-> page[p].gives[k], alone |-> page[p].alone,
                   status |-> Status(page[p].gives[k], page[p].day)]
      BY <1>1 DEF NewRows
    <2>2. k \in Sources /\ page[p].gives[k] \in Days \cup {Unknown}
      BY <1>w DEF Shows, PageRow, Gives, Unknown, NotRelevant
    <2>3. page[p].day \in Int /\ today \in Int /\ page[p].alone \in {"yes", "no"}
      BY <1>w DEF PageRow, DeadlineTables, Days
    <2>4. /\ row.date = page[p].gives[k] /\ row.alone = page[p].alone
          /\ row.status = Status(page[p].gives[k], page[p].day)
      BY <2>1
    <2>5. Status(page[p].gives[k], page[p].day) \in {"uncertain", "expired", "calculated"}
      BY DEF Status
    <2>6. row \in ListRow
      BY <2>1, <2>2, <2>3, <2>5 DEF ListRow
    <2>7. row.status = "expired" => row.date < today
      BY <1>w, <2>2, <2>3, <2>4, DeadlinesAssumption DEF Status, Days, Unknown
    <2>8. row.status \in {"calculated", "expired"} => row.date \in Days
      BY <2>2, <2>4 DEF Status
    <2>9. row.date >= today => row.status = "calculated"
      BY <1>w, <2>2, <2>3, <2>4, DeadlinesAssumption DEF Status, Days, Unknown, DeadlineTables
    <2> QED BY <2>4, <2>6, <2>7, <2>8, <2>9
  <1>2. \A r, s \in NewRows(p) : r.source = s.source => r = s
    BY DEF NewRows
  <1>3. \A row \in Urgent(NewRows(p)) : row \in NewRows(p) /\ row.status \in {"calculated", "expired"}
    BY DEF Urgent, Earliest
  <1>4. \A row \in Urgent(NewRows(p)) : Kind(row.source) \in Kinds /\ row.date \in Days
    BY <1>1, <1>3 DEF ListRow, Kinds
  <1>5. ASSUME NEW row \in Urgent(NewRows(p)), NEW other \in NewRows(p), other.date >= today
        PROVE  row.date <= other.date
    <2>1. other.status = "calculated"
      BY <1>1, <1>5
    <2> QED BY <2>1 DEF Urgent, Earliest
  <1> QED BY <1>1, <1>2, <1>3, <1>4, <1>5

\* Where the page goes from there.
Inserted(p, x) ==
  \/ x.at = "idle"
  \/ /\ x.at = "select" /\ x.alone = page[p].alone
     /\ Head(x.asks) = Missing \/ \E row \in Urgent(NewRows(p)) : Head(x.asks) = Kind(row.source) /\ x.due = row.date

LEMMA InsertGoesOn ==
  ASSUME NEW p \in Pages, DeadlineTables, PagesFit, InsertRows(p)
  PROVE  PagesFit' /\ \E x \in PageRow : MovesTo(p, x) /\ Inserted(p, x)
  <1>0. today' = today /\ today \in Days /\ page[p].at # "idle" /\ Unknown \in Days \cup {Unknown}
    BY DEF InsertRows, DeadlineTables
  <1>1. ASSUME GoOn(p, Asks(NewRows(p), <<>>), Unknown)
        PROVE  PagesFit' /\ \E x \in PageRow : MovesTo(p, x) /\ Inserted(p, x)
    <2> DEFINE asks == Asks(NewRows(p), <<>>)
    <2>1. /\ asks = <<>> \/ TasksAsked(asks)
          /\ asks # <<>> => Head(asks) = Missing
      BY AsksOfTasks
    <2> HIDE DEF asks
    <2>2. GoOn(p, asks, Unknown)
      BY <1>1 DEF asks
    <2>3. PICK x \in PageRow : MovesTo(p, x) /\ GoneOn(p, x, asks, Unknown)
      BY <1>0, <2>1, <2>2, PageGoesOn
    <2>4. PagesFit'
      BY <1>0, <2>1, <2>2, PageGoesOn
    <2> QED BY <2>1, <2>3, <2>4 DEF Inserted, GoneOn
  <1>2. ASSUME NEW row \in Urgent(NewRows(p)), GoOn(p, Asks(NewRows(p), <<Kind(row.source)>>), row.date)
        PROVE  PagesFit' /\ \E x \in PageRow : MovesTo(p, x) /\ Inserted(p, x)
    <2> DEFINE asks == Asks(NewRows(p), <<Kind(row.source)>>)
    <2>0. row \in NewRows(p) /\ Kind(row.source) \in Kinds /\ row.date \in Days \cup {Unknown}
      BY RowsInserted
    <2>1. TasksAsked(asks) /\ Head(asks) = Kind(row.source)
      BY <2>0, AsksOfTasks
    <2> HIDE DEF asks
    <2>2. GoOn(p, asks, row.date) /\ asks # <<>>
      BY <1>2, <2>1, TasksAskedIsSeq DEF asks
    <2>3. PICK x \in PageRow : MovesTo(p, x) /\ GoneOn(p, x, asks, row.date)
      BY <1>0, <2>0, <2>1, <2>2, PageGoesOn
    <2>4. PagesFit'
      BY <1>0, <2>0, <2>1, <2>2, PageGoesOn
    <2> QED BY <2>0, <2>1, <2>2, <2>3, <2>4 DEF Inserted, GoneOn
  <1> QED BY <1>1, <1>2 DEF InsertRows

\* A build that is alone lists each kind once, and takes the day of its task from there.
LEMMA InsertRowsKeeps ==
  ASSUME NEW p \in Pages, DeadlinesInv, InsertRows(p)
  PROVE  DeadlinesInv'
  <1> USE DeadlinesAssumption
  <1>i. /\ DeadlineTables /\ PagesFit /\ AloneIsAlone /\ OwnRowsOnly /\ ListedOnce
       /\ NotCalledPastTooSoon /\ FoundIsTrue /\ NoClashAlone /\ DueIsListed /\ ToldAgrees
    BY DEF DeadlinesInv
  <1>w. page[p] \in PageRow
    BY <1>i DEF PagesFit
  <1>n. /\ \A row \in NewRows(p) : row \in ListRow /\ row.alone = page[p].alone
        /\ \A row \in NewRows(p) : row.status = "expired" => row.date < today
        /\ \A r, s \in NewRows(p) : r.source = s.source => r = s
    BY <1>i, RowsInserted
  <1>f. /\ UNCHANGED <<today, gives, task, told, clashed>>
        /\ rows' = rows \cup NewRows(p) /\ page[p].at = "insert"
    BY DEF InsertRows
  <1>g. PagesFit'
    BY <1>i, InsertGoesOn
  <1>x. PICK x \in PageRow : MovesTo(p, x) /\ Inserted(p, x)
    BY <1>i, InsertGoesOn
  <1>r. (\A q \in Pages : page'[q] = IF q = p THEN x ELSE page[q]) /\ x.at \in {"idle", "select"}
        /\ (x.at = "select" => x.alone = page[p].alone)
    BY <1>x DEF MovesTo, Inserted
  <1>a. page[p].alone = "yes" => rows = {} /\ \A q \in Pages : q # p => page[q].at = "idle"
    BY <1>i, <1>f DEF OwnRowsOnly, AloneIsAlone
  <1>b. \A row \in rows : row.alone = "no"
    BY <1>i, <1>f DEF OwnRowsOnly, DeadlineTables, ListRow
  <1>1. DeadlineTables'
    BY <1>i, <1>f, <1>n DEF DeadlineTables
  <1>2. PagesFit'
    BY <1>g
  <1>3. AloneIsAlone'
    <2>1. x.at = "idle" \/ x.alone = page[p].alone
      BY <1>r
    <2> QED BY <1>i, <1>f, <1>r, <2>1, StaysAlone
  <1>4. OwnRowsOnly'
    <2>1. (\E row \in rows' : row.alone = "yes") => page[p].alone = "yes"
      BY <1>b, <1>f, <1>n
    <2>2. \A q \in Pages : page'[q].at \in {"processes", "insert"} =>
            q # p /\ page[q].at \in {"processes", "insert"} /\ page'[q].alone = page[q].alone
      BY <1>r
    <2>3. \A q \in Pages : page'[q].at \in {"processes", "insert"} => page[p].alone = "no" /\ page[q].alone = "no"
      BY <1>a, <1>f, <1>i, <1>w, <2>2 DEF AloneIsAlone, PageRow, PagesFit
    <2> QED BY <2>1, <2>2, <2>3 DEF OwnRowsOnly
  <1>5. ListedOnce'
    <2> SUFFICES ASSUME NEW r \in rows', NEW s \in rows', r.source = s.source, r # s
                 PROVE  r.alone = "no" /\ s.alone = "no"
      BY DEF ListedOnce
    <2>1. CASE page[p].alone = "yes"
      BY <1>a, <1>f, <1>n, <2>1
    <2>2. CASE page[p].alone = "no"
      BY <1>b, <1>f, <1>n, <2>2
    <2> QED BY <1>w, <2>1, <2>2 DEF PageRow
  <1>6. NotCalledPastTooSoon'
    BY <1>i, <1>f, <1>n DEF NotCalledPastTooSoon
  <1>7. FoundIsTrue'
    BY <1>i, <1>f, <1>r DEF FoundIsTrue
  <1>8. NoClashAlone'
    BY <1>i, <1>f DEF NoClashAlone
  <1>9. DueIsListed'
    <2> SUFFICES ASSUME NEW q \in Pages, page'[q].at \in {"select", "write"}, page'[q].alone = "yes",
                        Head(page'[q].asks) # Missing
                 PROVE  DueFits(Head(page[q].asks), page[q].due)'
      BY DEF DueIsListed, Writing
    <2>1. q = p
      <3>1. ASSUME q # p PROVE FALSE
        BY <1>f, <1>i, <1>r, <3>1 DEF AloneIsAlone
      <3> QED BY <3>1
    <2>2. x.at = "select" /\ page[p].alone = "yes" /\ page'[q] = x
      BY <1>r, <2>1
    <2>3. rows' = NewRows(p) /\ today' = today
      BY <1>a, <1>f, <2>2
    <2>4. PICK new \in Urgent(NewRows(p)) : Head(x.asks) = Kind(new.source) /\ x.due = new.date
      BY <1>x, <2>2 DEF Inserted
    <2>5. new \in NewRows(p) /\ \A other \in NewRows(p) : other.date >= today => new.date <= other.date
      BY <1>i, RowsInserted
    <2>6. \E row \in rows' : Kind(row.source) = Head(x.asks) /\ row.date = x.due
      BY <2>3, <2>4, <2>5
    <2>7. \A row \in rows' : row.date >= today => x.due <= row.date
      BY <2>3, <2>4, <2>5
    <2> QED BY <2>2, <2>3, <2>6, <2>7 DEF DueFits
  <1>10. ToldAgrees'
    <2>1. told = NoKind
      BY <1>f, <1>i DEF ToldAgrees, DueFits, Writing
    <2> QED BY <1>f, <2>1 DEF ToldAgrees
  <1> QED BY <1>1, <1>2, <1>3, <1>4, <1>5, <1>6, <1>7, <1>8, <1>9, <1>10 DEF DeadlinesInv

\* The task of a build that is alone has the day of the row, until the next build.
LEMMA WriteTaskKeeps ==
  ASSUME NEW p \in Pages, DeadlinesInv, WriteTask(p)
  PROVE  DeadlinesInv'
  <1> USE DeadlinesAssumption
  <1>i. /\ DeadlineTables /\ PagesFit /\ AloneIsAlone /\ OwnRowsOnly /\ ListedOnce
       /\ NotCalledPastTooSoon /\ FoundIsTrue /\ NoClashAlone /\ DueIsListed /\ ToldAgrees
    BY DEF DeadlinesInv
  <1> DEFINE k == Head(page[p].asks)
             found == page[p].found
             due == page[p].due
             refused == found = "absent" /\ task[k].status # "absent"
             rest == IF refused THEN <<>> ELSE Tail(page[p].asks)
  <1>w. page[p] \in PageRow /\ TasksAsked(page[p].asks) /\ page[p].at = "write"
    BY <1>i DEF PagesFit, Writing, WriteTask
  <1>k. k \in TaskKeys /\ (rest = <<>> \/ rest = <<Missing>>) /\ (k = Missing => rest = <<>>)
    BY <1>w, TasksAskedIsSeq
  <1>c. found \in {"absent", "open", "done"} /\ due \in Days \cup {Unknown} /\ page[p].alone \in {"yes", "no"}
    BY <1>w DEF PageRow
  <1>u. UNCHANGED <<today, gives, rows>>
    BY DEF WriteTask
  <1>t. /\ task' \in [TaskKeys -> TaskRow]
        /\ \A j \in TaskKeys : j # k => task'[j] = task[j]
        /\ task[k].status = "absent" /\ found # "absent" => task'[k].status = "absent"
        /\ found # "done" /\ task'[k].status = "open" => refused \/ task'[k].due = due
    <2>0. task \in [TaskKeys -> TaskRow] /\ task[k] \in TaskRow
      BY <1>i, <1>k DEF DeadlineTables
    <2>1. task' = CASE found = "absent" /\ ~refused -> [task EXCEPT ![k] = [status |-> "open", due |-> due]]
                    [] found = "open" /\ task[k].status # "absent" -> [task EXCEPT ![k].due = due]
                    [] OTHER -> task
      BY DEF WriteTask, Due
    <2>2. CASE found = "absent" /\ ~refused
      <3>1. task' = [task EXCEPT ![k] = [status |-> "open", due |-> due]]
        BY <2>1, <2>2
      <3>2. [status |-> "open", due |-> due] \in TaskRow
        BY <1>c DEF TaskRow
      <3> HIDE DEF k, due, refused, found
      <3> QED BY <1>k, <2>0, <2>2, <3>1, <3>2
    <2>3. CASE found = "open" /\ task[k].status # "absent"
      <3>1. task' = [task EXCEPT ![k].due = due]
        BY <2>1, <2>3
      <3> DEFINE y == [task[k] EXCEPT !.due = due]
      <3>2. y \in TaskRow /\ y.due = due
        BY <1>c, <2>0 DEF TaskRow
      <3>3. task' = [task EXCEPT ![k] = y]
        BY <3>1
      <3> HIDE DEF k, due, refused, found, y
      <3> QED BY <1>k, <2>0, <2>3, <3>2, <3>3
    <2>4. CASE ~(found = "absent" /\ ~refused) /\ ~(found = "open" /\ task[k].status # "absent")
      <3>1. task' = task
        BY <2>1, <2>4
      <3> HIDE DEF k, due, refused, found
      <3>2. found = "absent" => refused
        BY <2>4
      <3>3. found = "open" => task[k].status = "absent"
        BY <2>4
      <3> QED BY <1>c, <2>0, <3>1, <3>2, <3>3
    <2> QED BY <2>2, <2>3, <2>4
  <1>d. /\ told' = IF k = Missing THEN told
                   ELSE IF page[p].alone = "yes" /\ found # "done" THEN k ELSE NoKind
        /\ clashed' = IF refused THEN clashed \cup {page[p].alone} ELSE clashed
        /\ GoOn(p, rest, Unknown)
    BY DEF WriteTask
  <1>n. page[p].alone = "yes" => ~refused
    BY <1>i, <1>w DEF FoundIsTrue
  <1>q. page[p].alone = "yes" => \A q \in Pages : q # p => page[q].at = "idle"
    BY <1>i, <1>w DEF AloneIsAlone
  <1>l. page[p].alone = "yes" /\ k # Missing => DueFits(k, due)
    BY <1>i, <1>w DEF DueIsListed, DueFits, Writing
  <1> HIDE DEF k, found, due, refused, rest
  <1>g. PagesFit' /\ \E x \in PageRow : MovesTo(p, x) /\ GoneOn(p, x, rest, Unknown)
    <2>1. rest = <<>> \/ TasksAsked(rest)
      BY <1>k DEF TasksAsked
    <2>2. today' = today /\ today \in Days /\ page[p].at # "idle" /\ Unknown \in Days \cup {Unknown}
      BY <1>i, <1>u, <1>w DEF DeadlineTables
    <2> QED BY <1>i, <1>d, <2>1, <2>2, PageGoesOn
  <1>x. PICK x \in PageRow : MovesTo(p, x) /\ GoneOn(p, x, rest, Unknown)
    BY <1>g
  <1>r. /\ \A q \in Pages : page'[q] = IF q = p THEN x ELSE page[q]
        /\ x.at = "idle" \/ (x.at = "select" /\ Head(x.asks) = Missing /\ x.alone = page[p].alone)
    BY <1>k, <1>x, AsksOfTasks DEF MovesTo, GoneOn
  <1>1. DeadlineTables'
    BY <1>i, <1>d, <1>k, <1>t, <1>u DEF DeadlineTables, TaskKeys
  <1>2. PagesFit'
    BY <1>g
  <1>3. AloneIsAlone'
    BY <1>i, <1>r, <1>w, StaysAlone
  <1>4. OwnRowsOnly'
    BY <1>i, <1>r, <1>u DEF OwnRowsOnly
  <1>5. ListedOnce'
    BY <1>i, <1>u DEF ListedOnce
  <1>6. NotCalledPastTooSoon'
    BY <1>i, <1>u DEF NotCalledPastTooSoon
  <1>7. FoundIsTrue'
    <2> SUFFICES ASSUME NEW q \in Pages, page'[q].at = "write", page'[q].alone = "yes",
                        page'[q].found = "absent"
                 PROVE  task'[Head(page'[q].asks)].status = "absent"
      BY DEF FoundIsTrue
    <2>1. q # p /\ page[q].at = "write" /\ page[q].alone = "yes"
      BY <1>r
    <2> QED BY <1>i, <1>w, <2>1 DEF AloneIsAlone
  <1>8. NoClashAlone'
    BY <1>i, <1>c, <1>d, <1>n DEF NoClashAlone
  <1>9. DueIsListed'
    <2> SUFFICES ASSUME NEW q \in Pages, page'[q].at \in {"select", "write"}, page'[q].alone = "yes",
                        Head(page'[q].asks) # Missing
                 PROVE  DueFits(Head(page[q].asks), page[q].due)'
      BY DEF DueIsListed, Writing
    <2>1. q # p /\ page[q].at \in {"select", "write"} /\ page[q].alone = "yes"
      BY <1>r
    <2> QED BY <1>i, <1>w, <2>1 DEF AloneIsAlone
  <1>y. \A kind, d : DueFits(kind, d)' <=> DueFits(kind, d)
    BY <1>u DEF DueFits
  <1>10. ToldAgrees'
    <2> SUFFICES ASSUME told' # NoKind
                 PROVE  /\ \A q \in Pages :
                             page'[q].at = "idle" \/ (page'[q].at \in {"select", "write"} /\ Head(page'[q].asks) = Missing)
                        /\ task'[told'].status = "open" => DueFits(told', task'[told'].due)
      BY <1>y DEF ToldAgrees, Writing
    <2>1. CASE k = Missing
      <3>1. told' = told /\ told \in Kinds /\ told # k
        BY <1>d, <1>i, <2>1 DEF DeadlineTables
      <3>2. task'[told'] = task[told]
        BY <1>t, <3>1 DEF TaskKeys
      <3>3. \A q \in Pages : page[q].at = "idle" \/ (page[q].at \in {"select", "write"} /\ Head(page[q].asks) = Missing)
        BY <1>i, <3>1 DEF ToldAgrees, DueFits, Writing
      <3>4. task[told].status = "open" => DueFits(told, task[told].due)
        BY <1>i, <3>1 DEF ToldAgrees
      <3>5. \A q \in Pages : page'[q].at = "idle" \/ (page'[q].at \in {"select", "write"} /\ Head(page'[q].asks) = Missing)
        BY <1>r, <3>3
      <3> QED BY <1>u, <3>1, <3>2, <3>4, <3>5
    <2>2. CASE k # Missing
      <3>1. told' = k /\ page[p].alone = "yes" /\ found # "done" /\ ~refused
        BY <1>d, <1>n, <2>2
      <3>2. \A q \in Pages : page'[q].at = "idle" \/ (page'[q].at = "select" /\ Head(page'[q].asks) = Missing)
        BY <1>q, <1>r, <3>1
      <3>3. task'[k].status = "open" => task'[k].due = due
        BY <1>t, <3>1
      <3>4. DueFits(k, due)
        BY <1>l, <2>2, <3>1
      <3> QED BY <1>u, <3>1, <3>2, <3>3, <3>4
    <2> QED BY <2>1, <2>2
  <1> QED BY <1>1, <1>2, <1>3, <1>4, <1>5, <1>6, <1>7, <1>8, <1>9, <1>10 DEF DeadlinesInv

-----------------------------------------------------------------------------
LEMMA DeadlinesStart == DeadlinesInit => DeadlinesInv
  <1> USE DeadlinesAssumption
  <1> SUFFICES ASSUME DeadlinesInit PROVE DeadlinesInv
    OBVIOUS
  <1>1. \A p \in Pages : page[p] = NoPage /\ page[p].at = "idle" /\ page[p].day = 0
    BY NoPageFits DEF DeadlinesInit
  <1>2. \A k \in TaskKeys : task[k] = NoTask
    BY DEF DeadlinesInit
  <1>3. DeadlineTables
    BY <1>2 DEF DeadlinesInit, DeadlineTables, TaskRow, NoTask, Days, Gives, Unknown, NotRelevant
  <1>4. PagesFit
    BY <1>1, NoPageFits DEF DeadlinesInit, PagesFit, Writing
  <1>5. AloneIsAlone /\ OwnRowsOnly /\ FoundIsTrue /\ DueIsListed
    BY <1>1 DEF DeadlinesInit, AloneIsAlone, OwnRowsOnly, FoundIsTrue, DueIsListed, DueFits, Writing
  <1>6. ListedOnce /\ NotCalledPastTooSoon /\ NoClashAlone /\ ToldAgrees
    BY DEF DeadlinesInit, ListedOnce, NotCalledPastTooSoon, NoClashAlone, ToldAgrees
  <1> QED BY <1>3, <1>4, <1>5, <1>6 DEF DeadlinesInv

LEMMA DeadlinesKeep == DeadlinesInv /\ [DeadlinesNext]_deadlineVars => DeadlinesInv'
  <1> SUFFICES ASSUME DeadlinesInv, [DeadlinesNext]_deadlineVars PROVE DeadlinesInv'
    OBVIOUS
  <1>1. ASSUME UNCHANGED deadlineVars PROVE DeadlinesInv'
    BY <1>1 DEF deadlineVars, DeadlinesInv, DeadlineTables, PagesFit, Writing, AloneIsAlone, OwnRowsOnly,
      ListedOnce, NotCalledPastTooSoon, FoundIsTrue, NoClashAlone, DueIsListed, DueFits, ToldAgrees
  <1>2. ASSUME NEW k \in TaskKeys, TaskSteps(k) PROVE DeadlinesInv'
    BY <1>2, CompleteTaskKeeps, ReopenTaskKeeps, DeleteTaskKeeps DEF TaskSteps
  <1>3. ASSUME NEW p \in Pages, PageSteps(p) PROVE DeadlinesInv'
    BY <1>3, BeginKeeps, DeleteRowsKeeps, ReadProcessesKeeps, InsertRowsKeeps, SelectTaskKeeps, WriteTaskKeeps, BreakPageKeeps
      DEF PageSteps, ListDeadlines, ComputeDeadlines
  <1> QED BY <1>1, <1>2, <1>3, NextDayKeeps, MarkRowsKeeps, ChangeInputKeeps DEF DeadlinesNext

LEMMA DeadlinesSafe == DeadlinesSpec => []DeadlinesInv
  BY DeadlinesStart, DeadlinesKeep, PTL DEF DeadlinesSpec

LEMMA DeadlinesInvTyped == DeadlinesInv => DeadlinesTypeOK
  <1> SUFFICES ASSUME DeadlinesInv PROVE DeadlinesTypeOK
    OBVIOUS
  <1>1. DeadlineTables /\ PagesFit
    BY DEF DeadlinesInv
  <1>2. \A k \in TaskKeys : task[k].status \in {"absent", "open", "done"} /\ task[k].due \in Days \cup {Unknown}
    BY <1>1 DEF DeadlineTables, TaskRow
  <1>3. \A p \in Pages : /\ page[p].at \in {"idle", "delete", "processes", "insert", "select", "write"}
                         /\ page[p].asks \in Seq(TaskKeys) /\ page[p].gives \in [Sources -> Gives]
    BY <1>1 DEF PagesFit, PageRow
  <1> QED BY <1>1, <1>2, <1>3 DEF DeadlineTables, ListRow, DeadlinesTypeOK

LEMMA ListHolds == DeadlinesInv => ListIsTrue
  <1> SUFFICES ASSUME DeadlinesInv PROVE ListIsTrue
    OBVIOUS
  <1>1. TaskAgrees
    BY DEF DeadlinesInv, ToldAgrees, TaskAgrees
  <1> QED BY <1>1 DEF DeadlinesInv, ListIsTrue

\* Deadline rows, tasks and pages have the shape the code gives them.
THEOREM DeadlinesTyped == DeadlinesSpec => []DeadlinesTypeOK
  BY DeadlinesSafe, DeadlinesInvTyped, PTL

\* However many pages compute the deadlines at once and the user's own tasks
\* change meanwhile, nothing is listed twice unless two builds overlapped,
\* nothing is called past before its day is over, a build that nothing
\* overlapped never ends in an error of its own making, and the task it wrote is
\* due on the day of a row of its kind, the most urgent, although the rows of two
\* processes share it.
THEOREM ListsAreTrue == DeadlinesSpec => []ListIsTrue
  BY DeadlinesSafe, ListHolds, PTL

-----------------------------------------------------------------------------
(* The three together.  They share no variable, so any behaviour of all of   *)
(* them is one of each.                                                    *)

\* Whatever is asked of a case, its processes, deadlines, tasks and rows have
\* the shape the code gives them.
THEOREM CasesTyped == ProcessesSpec /\ DeadlinesSpec /\ CaseRoutesSpec => []CasesTypeOK
  BY ProcessesTyped, DeadlinesTyped, RoutesTyped, PTL DEF CasesTypeOK

=============================================================================
