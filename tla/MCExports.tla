----------------------------- MODULE MCExports ------------------------------
(* Finite instances of Exports. *)
EXTENDS Exports

CONSTANTS t1, t2, a1, g1

MCTabs     == {t1, t2}
MCPoints   == {a1}
MCChangers == {g1}
MCKinds    == {Letter, Summary, Pack}

\* A second screen and a changing record are looked at apart from each other,
\* and both apart from the documents that set nothing of a process out.
Apart == \/ OneScreen /\ changer = {} /\ \A p \in Points : point[p] = "absent"
         \/ /\ \A t \in Tabs : tab[t].task.type = Letter
            /\ \A i \in Ids : artifact[i].type = Letter
MCExportsNext == (ScreensNext \/ (OneScreen /\ RecordNext)) /\ Apart'

=============================================================================
