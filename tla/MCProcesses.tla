----------------------------- MODULE MCProcesses -----------------------------
(* Finite instances of Processes: a case with a process of every type, and    *)
(* one of them looked at, for its transitions, for the edits of its data or   *)
(* for its allegations.                                                       *)
EXTENDS Processes

CONSTANTS day1, a1, e1, e2

VARIABLES topic, focus

MCProcs   == {"grievance", "disciplinary", "grievance_appeal", "acas_early_conciliation", "informal"}
MCTypeOf  == [p \in Procs |-> p]
MCEditors == {e1, e2}

MCProcessesInit ==
  /\ ProcessesInit
  /\ focus \in Procs
  /\ topic \in {"transitions", "edits", "allegations"}
  /\ topic = "allegations" => focus = "informal"
  /\ topic = "edits" => focus \in {"acas_early_conciliation", "grievance"}

\* Which state the process starts in makes no difference to the edits, nor with
\* which dates to the transitions.
StartToEdit(r) == \/ \E data \in [Fields -> Dates \cup {NoDate}] :
                       StartProcess(r, focus, CHOOSE s \in StatesFor(TypeOf[focus]) : TRUE, data)
                  \/ WriteHistory(r)

StartToMove(r) == \/ \E s \in StatesFor(TypeOf[focus]) : StartProcess(r, focus, s, NoData)
                  \/ WriteHistory(r)

MCProcessesNext ==
  /\ UNCHANGED <<topic, focus>>
  /\ \E r \in Editors :
       \/ topic = "transitions" /\ (StartToMove(r) \/ TransitionSteps(r, focus))
       \/ topic = "edits" /\ (StartToEdit(r) \/ EditSteps(r, focus))
       \/ topic = "edits" /\ focus \in AcasProcs /\ \E f \in Fields : FactSteps(f)
       \/ topic = "allegations" /\ AllegationSteps(r, a1)
       \/ BreakEdit(r)

=============================================================================
