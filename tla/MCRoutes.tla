------------------------------ MODULE MCRoutes ------------------------------
(* Finite instances of CaseRoutes: two users with a case each, a row of one   *)
(* table in each case, and two requests, the second of which can do what      *)
(* removes rows and cases.                                                    *)
EXTENDS CaseRoutes

CONSTANTS o1, o2, c1, c2, i1, i2

VARIABLE studied

Segments  == {"people", "events", "documents", "processes", "allegations"}
MCOwners  == {o1, o2}
MCCaseIds == {c1, c2}
MCClients == {i1, i2}
MCOwner   == [c \in CaseIds |-> IF c = c1 THEN o1 ELSE o2]
MCRows    == Segments \X CaseIds
MCHome    == [r \in Rows |-> r[2]]
MCSegment == [r \in Rows |-> r[1]]

MCRoutesInit == CaseRoutesInit /\ studied \in Segments

\* An allegation needs its process.
Parent(seg) == seg = "processes" /\ studied = "allegations"

StudiedRows == {r \in Rows : r[1] = studied \/ Parent(r[1])} \cup {NoRow}

FirstRoutes  == {q \in Routes : q.seg = studied \/ (Parent(q.seg) /\ q.does = "add")}
SecondRoutes == {q \in Routes : q.seg \notin Segments \/ (q.seg = studied /\ q.does = "remove")}

MCRoutesNext ==
  /\ UNCHANGED studied
  /\ \/ \E i \in Clients : RequestSteps(i) \/ NoSuchRoute(i)
     \/ \E user \in Owners, c \in CaseIds, route \in FirstRoutes, r \in StudiedRows :
          Request(i1, user, route, c, r)
     \/ \E route \in SecondRoutes, r \in StudiedRows : Request(i2, o1, route, c1, r)

=============================================================================
