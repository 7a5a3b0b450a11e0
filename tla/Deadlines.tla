----------------------------- MODULE Deadlines -----------------------------
(***************************************************************************)
(* The deadline rows and system tasks of one case: computeCaseDeadlines    *)
(* and listDeadlines of coffeecup/src/legal/deadlines/case-deadlines.ts,   *)
(* and tasks/service.ts.  A build reads the record, deletes the old rows,  *)
(* reads the processes, inserts the new rows and writes the task of the    *)
(* most urgent; every page that lists deadlines may start one, so builds   *)
(* overlap.  What date a limit's inputs give is TimeLimits' and CaseDates' *)
(* business: here it is an input of its own, and time passes.              *)
(***************************************************************************)
EXTENDS Integers, Sequences, FiniteSets

CONSTANTS
  Limits,    \* statutory time limits that may be relevant: each a row's kind
  Windows,   \* grievances and disciplinaries: each may give an appeal window
  KindOf,    \* the kind of a window's row: processes of one type share it
  LastDay,   \* bound on the days
  Pages,     \* concurrent requests that list or compute deadlines
  Missing,   \* the key of the task that asks for a missing date
  NoKind

Sources == Limits \cup Windows
Kind(s) == IF s \in Limits THEN s ELSE KindOf[s]
Kinds   == {Kind(s) : s \in Sources}

ASSUME DeadlinesAssumption ==
  /\ LastDay \in Nat /\ Limits \cap Windows = {}
  /\ NoKind \notin Kinds /\ Missing \notin Kinds \cup {NoKind}

\* What the inputs give for a source: it is not relevant to the case (a process
\* has no outcome), a date or a number of days is missing, or it ends on a day.
Days  == 0..LastDay
Gives == Days \cup {-1, -2}
NotRelevant == -2
Unknown     == -1

VARIABLES
  today,
  gives,    \* what the inputs give now
  rows,     \* the deadlines table: what each row is for and which page wrote it
            \* tell two apart
  task,     \* the system task of each key: a kind's deadline, or Missing
  page,     \* where each page is, and what it has read
  told,     \* the kind whose task the last build wrote, if nothing overlapped it
  clashed   \* pages whose insert of a task met the unique index

deadlineVars == <<today, gives, rows, task, page, told, clashed>>

TaskKeys == Kinds \cup {Missing}

NoTask == [status |-> "absent", due |-> Unknown]
NoPage == [at |-> "idle", gives |-> [s \in Sources |-> NotRelevant], day |-> 0,
           asks |-> <<>>, due |-> Unknown, found |-> "absent", alone |-> "yes"]

DeadlinesInit ==
  /\ today = 0
  /\ gives \in [Sources -> {Unknown, NotRelevant}]
  /\ rows = {} /\ clashed = {}
  /\ task = [k \in TaskKeys |-> NoTask]
  /\ page = [p \in Pages |-> NoPage]
  /\ told = NoKind

-----------------------------------------------------------------------------
(* The days, the inputs and the user's own tasks.                          *)

NextDay ==
  /\ today < LastDay
  /\ today' = today + 1
  /\ UNCHANGED <<gives, rows, task, page, told, clashed>>

\* Requests change the inputs and mark the rows, and not always both: what a
\* change marks is CaseRecord's business.
ChangeInput(s, d) ==
  /\ gives[s] # d
  /\ gives' = [gives EXCEPT ![s] = d]
  /\ UNCHANGED <<today, rows, task, page, told, clashed>>

MarkRows ==
  /\ rows' = {[row EXCEPT !.status = "stale"] : row \in rows}
  /\ UNCHANGED <<today, gives, task, page, told, clashed>>

\* completeTask, with done true or false, and deleteTask.
CompleteTask(k) ==
  /\ task[k].status = "open"
  /\ task' = [task EXCEPT ![k].status = "done"]
  /\ UNCHANGED <<today, gives, rows, page, told, clashed>>

ReopenTask(k) ==
  /\ task[k].status = "done"
  /\ task' = [task EXCEPT ![k].status = "open"]
  /\ told' = IF told = k THEN NoKind ELSE told
  /\ UNCHANGED <<today, gives, rows, page, clashed>>

DeleteTask(k) ==
  /\ task[k].status # "absent"
  /\ task' = [task EXCEPT ![k] = NoTask]
  /\ UNCHANGED <<today, gives, rows, page, told, clashed>>

-----------------------------------------------------------------------------
(* computeCaseDeadlines.                                                   *)

Building == {p \in Pages : page[p].at # "idle"}

\* What the limits need is read (one by one; CaseRecord has the reads) and the day.
Read(p, sources) == [s \in Sources |-> IF s \in sources THEN gives[s] ELSE page[p].gives[s]]

Begin(p) ==
  LET alone == IF Building = {} THEN "yes" ELSE "no" IN
  /\ page[p].at = "idle"
  /\ page' = [q \in Pages |->
       IF q = p THEN [NoPage EXCEPT !.at = "delete", !.gives = Read(p, Limits), !.day = today, !.alone = alone]
       ELSE [page[q] EXCEPT !.alone = IF q \in Building THEN "no" ELSE "yes"]]
  /\ told' = NoKind
  /\ UNCHANGED <<today, gives, rows, task, clashed>>

\* listDeadlines computes when there is nothing or something is stale; else it
\* answers with the rows, and changes nothing.
ListDeadlines(p) == (rows = {} \/ \E row \in rows : row.status = "stale") /\ Begin(p)

ComputeDeadlines(p) == Begin(p)

ClearedOwn(p) == {row \in rows : row.by # p}     \* a mistake: what others wrote stays
Cleared(p)    == {}

DeleteRows(p) ==
  /\ page[p].at = "delete"
  /\ rows' = Cleared(p)
  /\ page' = [page EXCEPT ![p].at = "processes"]
  /\ UNCHANGED <<today, gives, task, told, clashed>>

\* Only then does it list the processes.
ReadProcesses(p) ==
  /\ page[p].at = "processes"
  /\ page' = [page EXCEPT ![p].at = "insert", ![p].gives = Read(p, Windows)]
  /\ UNCHANGED <<today, gives, rows, task, told, clashed>>

\* A deadline is past when its day is over.
StatusEarly(d, day) == IF d = Unknown THEN "uncertain" ELSE IF d <= day THEN "expired" ELSE "calculated"  \* a mistake
Status(d, day)      == IF d = Unknown THEN "uncertain" ELSE IF d < day THEN "expired" ELSE "calculated"

ShowsAll(p) == Sources                          \* a mistake: what is not relevant too
Shows(p)    == {s \in Sources : page[p].gives[s] # NotRelevant}

NewRows(p) ==
  {[by |-> p, source |-> s, date |-> page[p].gives[s], alone |-> page[p].alone,
    status |-> Status(page[p].gives[s], page[p].day)] : s \in Shows(p)}

\* The most urgent: the earliest still to come, or else the earliest past.
Earliest(set) == {row \in set : \A other \in set : row.date <= other.date}

Urgent(new) ==
  LET coming == {row \in new : row.status = "calculated"}
      past   == {row \in new : row.status = "expired"}
  IN Earliest(IF coming # {} THEN coming ELSE past)

\* Its task, and the one that asks for the date a statutory limit lacks.
Asks(new, urgent) ==
  urgent \o (IF \E row \in new : row.source \in Limits /\ row.status = "uncertain"
               THEN <<Missing>> ELSE <<>>)

GoOn(p, asks, due) ==
  page' = [page EXCEPT ![p] =
    IF asks = <<>> THEN NoPage
    ELSE [NoPage EXCEPT !.at = "select", !.asks = asks, !.due = due, !.alone = page[p].alone]]

InsertRows(p) ==
  LET new == NewRows(p) IN
  /\ page[p].at = "insert"
  /\ rows' = rows \cup new
  /\ \/ Urgent(new) = {} /\ GoOn(p, Asks(new, <<>>), Unknown)
     \/ \E row \in Urgent(new) : GoOn(p, Asks(new, <<Kind(row.source)>>), row.date)
  /\ UNCHANGED <<today, gives, task, told, clashed>>

\* upsertSystemTask: a select, and by what it finds an insert, an update or
\* nothing; the unique index lets one insert through, and the page of the
\* other ends in an exception.
FoundIfOpen(k) == IF task[k].status = "open" THEN "open" ELSE "absent"   \* a mistake
Found(k)       == task[k].status

SelectTask(p) ==
  /\ page[p].at = "select"
  /\ page' = [page EXCEPT ![p].at = "write", ![p].found = Found(Head(page[p].asks))]
  /\ UNCHANGED <<today, gives, rows, task, told, clashed>>

DueStays(k, found, d) == IF found = "open" THEN task[k].due ELSE d                \* a mistake
Due(k, found, d)      == d

WriteTask(p) ==
  LET k == Head(page[p].asks)
      found == page[p].found
      refused == found = "absent" /\ task[k].status # "absent"
      due == Due(k, found, page[p].due)
  IN
  /\ page[p].at = "write"
  /\ task' = CASE found = "absent" /\ ~refused -> [task EXCEPT ![k] = [status |-> "open", due |-> due]]
               [] found = "open" /\ task[k].status # "absent" -> [task EXCEPT ![k].due = due]
               [] OTHER -> task
  /\ clashed' = IF refused THEN clashed \cup {page[p].alone} ELSE clashed
  /\ told' = IF k = Missing THEN told
             ELSE IF page[p].alone = "yes" /\ found # "done" THEN k ELSE NoKind
  /\ GoOn(p, IF refused THEN <<>> ELSE Tail(page[p].asks), Unknown)
  /\ UNCHANGED <<today, gives, rows>>

BreakPage(p) ==
  /\ page[p].at # "idle"
  /\ page' = [page EXCEPT ![p] = NoPage]
  /\ UNCHANGED <<today, gives, rows, task, told, clashed>>

TaskSteps(k) == CompleteTask(k) \/ ReopenTask(k) \/ DeleteTask(k)

PageSteps(p) == \/ ListDeadlines(p) \/ ComputeDeadlines(p)
                \/ DeleteRows(p) \/ ReadProcesses(p) \/ InsertRows(p) \/ SelectTask(p) \/ WriteTask(p) \/ BreakPage(p)

DeadlinesNext ==
  \/ NextDay \/ MarkRows
  \/ \E k \in TaskKeys : TaskSteps(k)
  \/ \E s \in Sources, d \in Gives : ChangeInput(s, d)
  \/ \E p \in Pages : PageSteps(p)

DeadlinesSpec == DeadlinesInit /\ [][DeadlinesNext]_deadlineVars

-----------------------------------------------------------------------------
(* Properties.                                                             *)

DeadlinesTypeOK ==
  /\ today \in Days /\ gives \in [Sources -> Gives]
  /\ rows \subseteq [by : Pages, source : Sources, date : Days \cup {Unknown}, alone : {"yes", "no"},
                     status : {"uncertain", "calculated", "expired", "stale"}]
  /\ \A k \in TaskKeys : task[k].status \in {"absent", "open", "done"} /\ task[k].due \in Days \cup {Unknown}
  /\ \A p \in Pages : /\ page[p].at \in {"idle", "delete", "processes", "insert", "select", "write"}
                      /\ page[p].asks \in Seq(TaskKeys) /\ page[p].gives \in [Sources -> Gives]

\* A deadline is listed once: a limit, or one process's window, has two rows
\* only where two builds overlapped, both deleted and both inserted.
ListedOnce ==
  \A r, s \in rows : r.source = s.source /\ r # s => r.alone = "no" /\ s.alone = "no"

\* No deadline is called past before its day is over, whatever day the rows
\* were computed on and whoever reads them later.
NotCalledPastTooSoon == \A row \in rows : row.status = "expired" => row.date < today

\* The insert of a task fails only between builds that overlap: alone, a page
\* never answers with an error because a task is there already.
NoClashAlone == "yes" \notin clashed

\* The task on the dashboard and the rows on the dates page agree, although the
\* rows of two processes share one task: after a build that nothing overlapped,
\* the open task is due on the day of a row of its kind, and no row still to
\* come is earlier, whatever it was due on before.
DueFits(kind, due) ==
  /\ \E row \in rows : Kind(row.source) = kind /\ row.date = due
  /\ \A row \in rows : row.date >= today => due <= row.date

TaskAgrees ==
  Building = {} /\ told # NoKind /\ task[told].status = "open" => DueFits(told, task[told].due)

\* The dates page and the dashboard can be relied on: nothing listed twice or
\* called past too soon, no error of the page's own making, one due date.
ListIsTrue == ListedOnce /\ NotCalledPastTooSoon /\ NoClashAlone /\ TaskAgrees

=============================================================================
