----------------------------- MODULE Retention -----------------------------
(***************************************************************************)
(* A case's end: soft deletion, the worker's purge after the retention     *)
(* window, the owner's immediate purge and the end of the whole account    *)
(* (coffeecup/src/cases/retention.ts), against the uploads and deletions   *)
(* of documents that overlap them.  A document is a row and a file; the    *)
(* file is in a store that no foreign key reaches, so each handler writes  *)
(* the two one after the other.  All cases here are of one account.        *)
(***************************************************************************)
EXTENDS Integers, FiniteSets

CONSTANTS
  Cases, Documents,
  CaseOf,       \* the case whose key prefix a document's file has
  Invocations,  \* requests and worker runs under way
  Worker,       \* the one the scheduler calls
  NoDocument,
  MaxFaults     \* bound on statements that throw and invocations that die

ASSUME RetentionAssumption ==
  /\ NoDocument \notin Documents /\ CaseOf \in [Documents -> Cases]
  /\ Worker \in Invocations /\ MaxFaults \in Nat

VARIABLES
  case,    \* the row of the cases table, and whether its 30 days are over
  row,     \* the row of the documents table
  files,   \* documents whose bytes are in the store
  running, \* what each invocation does next, and what it has read
  strays,  \* uploads that overlapped a purge of their case, or died before the row
  hurt,    \* documents whose deletion, or whose case's purge, died half-way
  faults

retentionVars == <<case, row, files, running, strays, hurt, faults>>

\* list: cases to purge; read: cases whose keys were read; keys: files to delete.
Doing(step, d, list) == [at |-> step, doc |-> d, list |-> list, read |-> {}, keys |-> {}]
Nothing == Doing("idle", NoDocument, {})

RetentionInit ==
  /\ case = [c \in Cases |-> "absent"]
  /\ row = [d \in Documents |-> "absent"]
  /\ files = {} /\ strays = {} /\ hurt = {} /\ faults = 0
  /\ running = [i \in Invocations |-> Nothing]

-----------------------------------------------------------------------------
Rests(i)       == running[i].at = "idle"
Is(i, step)    == running[i].at = step
On(i, d, step) == running' = [running EXCEPT ![i] = Doing(step, d, {})]
End(i)         == running' = [running EXCEPT ![i] = Nothing]
DocsOfAny(c)   == Documents                          \* a mistake
DocsOf(c)      == {d \in Documents : CaseOf[d] = c}

\* requireCaseAccess: the owner's case, and not one deleted.
Access(c) == case[c] = "live"

CreateCase(c) ==
  /\ case[c] = "absent"
  /\ case' = [case EXCEPT ![c] = "live"]
  /\ UNCHANGED <<row, files, running, strays, hurt, faults>>

DeleteCase(c) ==
  /\ Access(c)
  /\ case' = [case EXCEPT ![c] = "deleted"]
  /\ UNCHANGED <<row, files, running, strays, hurt, faults>>

\* RETENTION_DAYS go by.
Expire(c) ==
  /\ case[c] = "deleted"
  /\ case' = [case EXCEPT ![c] = "expired"]
  /\ UNCHANGED <<row, files, running, strays, hurt, faults>>

-----------------------------------------------------------------------------
(* uploadDocument and deleteDocument.                                      *)

\* A purge that will not see a document uploaded from now on.
Overlapped(d) == \E i \in Invocations : \/ CaseOf[d] \in running[i].read
                                        \/ running[i].at \in {"account", "accountFiles"}

AskUpload(i, d) ==
  /\ Rests(i) /\ Access(CaseOf[d])
  /\ row[d] = "absent" /\ d \notin files
  /\ \A j \in Invocations : running[j].doc # d
  /\ On(i, d, "put")
  /\ strays' = IF Overlapped(d) THEN strays \cup {d} ELSE strays
  /\ UNCHANGED <<case, row, files, hurt, faults>>

PutFile(i) ==
  LET d == running[i].doc IN
  /\ Is(i, "put")
  /\ files' = files \cup {d}
  /\ On(i, d, "insert")
  /\ UNCHANGED <<case, row, strays, hurt, faults>>

\* The foreign key refuses a row of a case that is gone; the file stays.
InsertRow(i) ==
  LET d == running[i].doc IN
  /\ Is(i, "insert")
  /\ row' = IF case[CaseOf[d]] = "gone" THEN row ELSE [row EXCEPT ![d] = "live"]
  /\ End(i)
  /\ UNCHANGED <<case, files, strays, hurt, faults>>

AskDeleteDocument(i, d) ==
  /\ Rests(i) /\ Access(CaseOf[d]) /\ row[d] = "live"
  /\ On(i, d, "unstore")
  /\ UNCHANGED <<case, row, files, strays, hurt, faults>>

Unstore(i) ==
  LET d == running[i].doc IN
  /\ Is(i, "unstore")
  /\ files' = files \ {d}
  /\ On(i, d, "unlist")
  /\ UNCHANGED <<case, row, strays, hurt, faults>>

Unlist(i) ==
  LET d == running[i].doc IN
  /\ Is(i, "unlist")
  /\ row' = [row EXCEPT ![d] = IF @ = "live" THEN "deleted" ELSE @]
  /\ End(i)
  /\ UNCHANGED <<case, files, strays, hurt, faults>>

-----------------------------------------------------------------------------
(* The purges: a list of cases, and for each its files and then its row.   *)

BeginPurge(i, step, list) ==
  running' = [running EXCEPT ![i] = Doing(step, NoDocument, list)]

\* purgeExpiredCases selects the cases deleted before the cutoff.
PastCutoff == {c \in Cases : case[c] = "expired"}

AskPurgeExpired(i) ==
  /\ Rests(i) /\ PastCutoff # {}
  /\ BeginPurge(i, "next", PastCutoff)
  /\ UNCHANGED <<case, row, files, strays, hurt, faults>>

\* purgeCaseNow finds the owner's case by its id, deleted or not.
AskPurgeNow(i, c) ==
  /\ Rests(i) /\ case[c] \notin {"absent", "gone"}
  /\ BeginPurge(i, "next", {c})
  /\ UNCHANGED <<case, row, files, strays, hurt, faults>>

\* deleteAccount takes the account's cases, the deleted ones among them.
OwnedLiveOnly == {c \in Cases : case[c] = "live"}                         \* a mistake
Owned         == {c \in Cases : case[c] \notin {"absent", "gone"}}

AskDeleteAccount(i) ==
  /\ Rests(i)
  /\ BeginPurge(i, "account", Owned)
  /\ UNCHANGED <<case, row, files, strays, hurt, faults>>

\* purgeCaseFiles reads the keys of all the case's rows.
ReadKeys(i, c) ==
  /\ running[i].at \in {"next", "account"} /\ c \in running[i].list
  /\ running' = [running EXCEPT ![i] =
       [at   |-> IF Is(i, "next") THEN "files" ELSE "accountFiles",
        doc  |-> NoDocument,
        list |-> running[i].list \ {c},
        read |-> running[i].read \cup {c},
        keys |-> {d \in DocsOf(c) : row[d] # "absent"}]]
  /\ strays' = strays \cup {d \in DocsOf(c) : \E j \in Invocations :
                               running[j].doc = d /\ running[j].at \in {"put", "insert"}}
  /\ UNCHANGED <<case, row, files, hurt, faults>>

\* storage.delete does not mind a file that is not there.
MissingFileThrows(d) == d \in files                                       \* a mistake
Deletable(d)         == TRUE

DeleteFile(i, d) ==
  /\ running[i].at \in {"files", "accountFiles"} /\ d \in running[i].keys
  /\ Deletable(d)
  /\ files' = files \ {d}
  /\ running' = [running EXCEPT ![i].keys = @ \ {d}]
  /\ UNCHANGED <<case, row, strays, hurt, faults>>

\* A mistake: no cascade from the case's row to its documents'.
EraseCasesOnly(gone) ==
  /\ case' = [c \in Cases |-> IF c \in gone THEN "gone" ELSE case[c]]
  /\ row' = row

\* Rows of cases go, and those of their documents with them.
Erase(gone) ==
  /\ case' = [c \in Cases |-> IF c \in gone THEN "gone" ELSE case[c]]
  /\ row' = [d \in Documents |-> IF CaseOf[d] \in gone THEN "absent" ELSE row[d]]

\* The case is deleted, and the loop goes on with the next one.
EraseCase(i) ==
  /\ Is(i, "files") /\ running[i].keys = {}
  /\ Erase(running[i].read)
  /\ IF running[i].list = {} THEN End(i) ELSE BeginPurge(i, "next", running[i].list)
  /\ UNCHANGED <<files, strays, hurt, faults>>

NextOfAccount(i) ==
  /\ Is(i, "accountFiles") /\ running[i].keys = {}
  /\ running' = [running EXCEPT ![i].at = "account"]
  /\ UNCHANGED <<case, row, files, strays, hurt, faults>>

\* The user's row is deleted, and every case of theirs with it.
EraseAccount(i) ==
  /\ Is(i, "account") /\ running[i].list = {}
  /\ Erase(Cases)
  /\ End(i)
  /\ UNCHANGED <<files, strays, hurt, faults>>

\* A statement throws, or the process dies, before the next statement.
Fault(i) ==
  LET d == running[i].doc IN
  /\ ~Rests(i) /\ faults < MaxFaults
  /\ faults' = faults + 1
  /\ strays' = strays \cup (IF Is(i, "insert") THEN {d} ELSE {})
  /\ hurt' = hurt \cup (IF Is(i, "unlist") THEN {d} ELSE {})
                  \cup {e \in Documents : CaseOf[e] \in running[i].read}
  /\ End(i)
  /\ UNCHANGED <<case, row, files>>

-----------------------------------------------------------------------------
DocumentSteps(i) == \/ \E d \in Documents : AskUpload(i, d) \/ AskDeleteDocument(i, d)
                    \/ PutFile(i) \/ InsertRow(i) \/ Unstore(i) \/ Unlist(i)

PurgeSteps(i) == \/ \E c \in Cases : ReadKeys(i, c)
                 \/ \E d \in Documents : DeleteFile(i, d)
                 \/ EraseCase(i)

AccountSteps(i) == AskDeleteAccount(i) \/ NextOfAccount(i) \/ EraseAccount(i)

RetentionNext ==
  \/ \E c \in Cases : CreateCase(c) \/ DeleteCase(c) \/ Expire(c)
  \/ \E i \in Invocations : AskPurgeExpired(i) \/ PurgeSteps(i) \/ Fault(i)
  \/ \E i \in Invocations \ {Worker} : \/ DocumentSteps(i) \/ AccountSteps(i)
                                       \/ \E c \in Cases : AskPurgeNow(i, c)

\* The scheduler calls the worker again and again, and what has begun goes on
\* to its end or to a fault; users may stop at any point.
RetentionFairness ==
  /\ WF_retentionVars(AskPurgeExpired(Worker))
  /\ WF_retentionVars(PurgeSteps(Worker))

RetentionSpec     == RetentionInit /\ [][RetentionNext]_retentionVars
RetentionFairSpec == RetentionSpec /\ RetentionFairness

-----------------------------------------------------------------------------
(* Properties.                                                             *)

\* Rows and invocations are of the shape the schema and the code give them,
\* and no document's row points to a case that is not there.
RetentionTypeOK ==
  /\ case \in [Cases -> {"absent", "live", "deleted", "expired", "gone"}]
  /\ row \in [Documents -> {"absent", "live", "deleted"}]
  /\ files \subseteq Documents /\ strays \subseteq Documents /\ hurt \subseteq Documents
  /\ running \in [Invocations ->
       [at : {"idle", "put", "insert", "unstore", "unlist", "next", "files", "account", "accountFiles"},
        doc : Documents \cup {NoDocument}, list : SUBSET Cases, read : SUBSET Cases,
        keys : SUBSET Documents]]
  /\ faults \in 0..MaxFaults
  /\ \A d \in Documents : row[d] # "absent" => case[CaseOf[d]] \notin {"absent", "gone"}

\* Nothing of a purged case stays in the store, where nothing would ever find
\* it again: a file outlives its case only if its upload overlapped the purge
\* or died before its row was there.
PurgeLeavesNoFile ==
  \A d \in files : case[CaseOf[d]] = "gone" =>
    \/ d \in strays
    \/ \E i \in Invocations : running[i].doc = d

\* A document that is listed can be opened: its file is missing only while its
\* deletion or its case's purge is under way, or where one died.
ListedHasFile ==
  \A d \in Documents : row[d] = "live" =>
    \/ d \in files \cup hurt
    \/ \E i \in Invocations : CaseOf[d] \in running[i].read \/ running[i].doc = d

\* A case past its window is purged at last, whatever uploads, deletions and
\* other purges do, and however (finitely) often the store or a run fails.
ExpiredIsPurged == \A c \in Cases : case[c] = "expired" ~> case[c] = "gone"

\* Rows and files end together, in whichever order the two are written and
\* whoever else writes them: no file without its case, no row without its file.
FilesFollowRows == PurgeLeavesNoFile /\ ListedHasFile

=============================================================================
