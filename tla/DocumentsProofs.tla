---------------------------- MODULE DocumentsProofs ----------------------------
(***************************************************************************)
(* Documents while they are read, and cases as they end: rows and files    *)
(* end together, a waiting document has its job, a deletion is respected.  *)
(* For any number of documents, cases, workers, requests and invocations,  *)
(* whatever overlaps and wherever one dies.                                *)
(***************************************************************************)
EXTENDS MCDocuments, TLAPS

-----------------------------------------------------------------------------
(* Retention: what rows, files and invocations are to each other.          *)
Run == [at : {"idle", "put", "insert", "unstore", "unlist", "next", "files", "account", "accountFiles"},
        doc : Documents \cup {NoDocument}, list : SUBSET Cases, read : SUBSET Cases,
        keys : SUBSET Documents]

Tables ==
  /\ case \in [Cases -> {"absent", "live", "deleted", "expired", "gone"}]
  /\ row \in [Documents -> {"absent", "live", "deleted"}]
  /\ files \subseteq Documents /\ strays \subseteq Documents /\ hurt \subseteq Documents
  /\ faults \in 0..MaxFaults
  /\ \A d \in Documents : row[d] # "absent" => case[CaseOf[d]] \notin {"absent", "gone"}

\* What an invocation holds is what its step needs.
Shaped(x) ==
  /\ x \in Run
  /\ x.at \in {"put", "insert", "unstore", "unlist"} => x.doc \in Documents /\ x.read = {}
  /\ x.at \notin {"put", "insert", "unstore", "unlist"} => x.doc = NoDocument
  /\ x.at \in {"idle", "next"} => x.read = {}
  /\ x.at = "account" => x.keys = {}
  /\ \A d \in x.keys : CaseOf[d] \in x.read

Runs == running \in [Invocations -> Run] /\ \A i \in Invocations : Shaped(running[i])

Uploads(i, d) == running[i].at \in {"put", "insert"} /\ running[i].doc = d

\* An upload is of a new row, that nobody else works on.
OnlyUploads ==
  \A i \in Invocations : \A d \in Documents : Uploads(i, d) =>
    /\ row[d] = "absent"
    /\ \A j \in Invocations : d \notin running[j].keys /\ (j # i => running[j].doc # d)
    /\ running[i].at = "insert" => d \in files
    /\ case[CaseOf[d]] # "absent"
    /\ case[CaseOf[d]] = "gone" => d \in strays

\* Keys are of rows, or of rows that went with their case.
KeysOfRows ==
  \A i \in Invocations : \A d \in running[i].keys : row[d] # "absent" \/ case[CaseOf[d]] = "gone"

\* A file has its row, or will have it, or is a stray.
FilesHaveRows ==
  \A d \in files : /\ \/ row[d] # "absent" \/ d \in strays
                      \/ \E i \in Invocations : running[i].at = "insert" /\ running[i].doc = d
                   /\ case[CaseOf[d]] # "absent"

\* A purge that has read a case's keys has every file of it but the strays.
PurgesSee ==
  \A i \in Invocations : \A d \in Documents : CaseOf[d] \in running[i].read =>
    /\ d \in files => d \in running[i].keys \cup strays
    /\ \A j \in Invocations : Uploads(j, d) => d \in strays

\* So does the end of an account, with the cases it has not read yet; what it
\* has not listed is new, or gone.
AccountSees ==
  \A i \in Invocations : running[i].at \in {"account", "accountFiles"} =>
    \A d \in Documents : CaseOf[d] \notin running[i].list \cup running[i].read =>
      /\ d \in files => d \in strays
      /\ \A j \in Invocations : Uploads(j, d) => d \in strays

\* A listed row without its file is on its way out.
RowsHaveFiles ==
  \A d \in Documents : row[d] = "live" =>
    \/ d \in files \cup hurt
    \/ \E i \in Invocations : CaseOf[d] \in running[i].read
                              \/ (running[i].at = "unlist" /\ running[i].doc = d)

RetentionInv ==
  /\ Tables /\ Runs /\ OnlyUploads /\ KeysOfRows /\ FilesHaveRows
  /\ PurgesSee /\ AccountSees /\ RowsHaveFiles

-----------------------------------------------------------------------------

\* What one invocation turns into, the others staying as they are.
LEMMA Started ==
  ASSUME NEW i \in Invocations, Runs, NEW s, NEW d, On(i, d, s)
  PROVE  running' = [running EXCEPT ![i] =
           [at |-> s, doc |-> d, list |-> {}, read |-> {}, keys |-> {}]]
  BY DEF Runs, On, Doing

LEMMA Listed ==
  ASSUME NEW i \in Invocations, Runs, NEW s, NEW l, BeginPurge(i, s, l)
  PROVE  running' = [running EXCEPT ![i] =
           [at |-> s, doc |-> NoDocument, list |-> l, read |-> {}, keys |-> {}]]
  BY DEF Runs, BeginPurge, Doing

LEMMA Ended ==
  ASSUME NEW i \in Invocations, Runs, End(i)
  PROVE  running' = [running EXCEPT ![i] =
           [at |-> "idle", doc |-> NoDocument, list |-> {}, read |-> {}, keys |-> {}]]
  BY DEF Runs, End, Nothing, Doing

LEMMA Moved ==
  ASSUME NEW i \in Invocations, Runs, NEW x, Shaped(x), running' = [running EXCEPT ![i] = x]
  PROVE  Runs' /\ \A j \in Invocations : running'[j] = IF j = i THEN x ELSE running[j]
  <1>1. \A j \in Invocations : running'[j] = IF j = i THEN x ELSE running[j]
    BY DEF Runs
  <1>2. running' \in [Invocations -> Run]
    BY DEF Runs, Shaped
  <1> QED BY <1>1, <1>2 DEF Runs, Shaped

LEMMA Stays ==
  ASSUME Runs, running' = running
  PROVE  Runs'
  BY DEF Runs, Shaped

\* A new case has nothing yet.
LEMMA CreateCaseKeeps ==
  ASSUME NEW c \in Cases, RetentionInv, CreateCase(c)
  PROVE  RetentionInv'
  <1> USE RetentionAssumption
  <1>i. Tables /\ Runs /\ OnlyUploads /\ KeysOfRows /\ FilesHaveRows
       /\ PurgesSee /\ AccountSees /\ RowsHaveFiles
    BY DEF RetentionInv
  <1>r. Runs' /\ \A j \in Invocations : running'[j] = running[j]
    BY <1>i, Stays DEF CreateCase
  <1>1. Tables'
    BY <1>i, <1>r DEF Tables, Runs, Shaped, Run, CreateCase
  <1>2. OnlyUploads'
    BY <1>i, <1>r DEF Tables, Runs, OnlyUploads, KeysOfRows, PurgesSee, AccountSees, Uploads,
       Shaped, CreateCase
  <1>3. KeysOfRows'
    BY <1>i, <1>r DEF Tables, Runs, OnlyUploads, KeysOfRows, Uploads, Shaped, Run, CreateCase
  <1>4. FilesHaveRows'
    BY <1>i, <1>r DEF Tables, Runs, OnlyUploads, FilesHaveRows, PurgesSee, AccountSees,
       Uploads, Shaped, CreateCase
  <1>5. PurgesSee'
    BY <1>i, <1>r DEF Tables, Runs, OnlyUploads, FilesHaveRows, PurgesSee, Uploads, Shaped,
       CreateCase
  <1>6. AccountSees'
    BY <1>i, <1>r DEF Tables, Runs, OnlyUploads, FilesHaveRows, PurgesSee, AccountSees,
       Uploads, Shaped, CreateCase
  <1>7. RowsHaveFiles'
    BY <1>i, <1>r DEF Tables, Runs, OnlyUploads, RowsHaveFiles, Uploads, Shaped, CreateCase
  <1> QED BY <1>r, <1>1, <1>2, <1>3, <1>4, <1>5, <1>6, <1>7 DEF RetentionInv

\* The case is only marked.
LEMMA DeleteCaseKeeps ==
  ASSUME NEW c \in Cases, RetentionInv, DeleteCase(c)
  PROVE  RetentionInv'
  <1> USE RetentionAssumption
  <1>i. Tables /\ Runs /\ OnlyUploads /\ KeysOfRows /\ FilesHaveRows
       /\ PurgesSee /\ AccountSees /\ RowsHaveFiles
    BY DEF RetentionInv
  <1>r. Runs' /\ \A j \in Invocations : running'[j] = running[j]
    BY <1>i, Stays DEF DeleteCase
  <1>1. Tables'
    BY <1>i, <1>r DEF Tables, Runs, Shaped, Run, DeleteCase, Access
  <1>2. OnlyUploads'
    BY <1>i, <1>r DEF Tables, Runs, OnlyUploads, KeysOfRows, PurgesSee, AccountSees, Uploads,
       Shaped, DeleteCase, Access
  <1>3. KeysOfRows'
    BY <1>i, <1>r DEF Tables, Runs, OnlyUploads, KeysOfRows, Uploads, Shaped, Run, DeleteCase,
       Access
  <1>4. FilesHaveRows'
    BY <1>i, <1>r DEF Tables, Runs, OnlyUploads, FilesHaveRows, PurgesSee, AccountSees,
       Uploads, Shaped, DeleteCase, Access
  <1>5. PurgesSee'
    BY <1>i, <1>r DEF Tables, Runs, OnlyUploads, FilesHaveRows, PurgesSee, Uploads, Shaped,
       DeleteCase, Access
  <1>6. AccountSees'
    BY <1>i, <1>r DEF Tables, Runs, OnlyUploads, FilesHaveRows, PurgesSee, AccountSees,
       Uploads, Shaped, DeleteCase, Access
  <1>7. RowsHaveFiles'
    BY <1>i, <1>r DEF Tables, Runs, OnlyUploads, RowsHaveFiles, Uploads, Shaped, DeleteCase,
       Access
  <1> QED BY <1>r, <1>1, <1>2, <1>3, <1>4, <1>5, <1>6, <1>7 DEF RetentionInv

\* Time passes.
LEMMA ExpireKeeps ==
  ASSUME NEW c \in Cases, RetentionInv, Expire(c)
  PROVE  RetentionInv'
  <1> USE RetentionAssumption
  <1>i. Tables /\ Runs /\ OnlyUploads /\ KeysOfRows /\ FilesHaveRows
       /\ PurgesSee /\ AccountSees /\ RowsHaveFiles
    BY DEF RetentionInv
  <1>r. Runs' /\ \A j \in Invocations : running'[j] = running[j]
    BY <1>i, Stays DEF Expire
  <1>1. Tables'
    BY <1>i, <1>r DEF Tables, Runs, Shaped, Run, Expire
  <1>2. OnlyUploads'
    BY <1>i, <1>r DEF Tables, Runs, OnlyUploads, KeysOfRows, PurgesSee, AccountSees, Uploads,
       Shaped, Expire
  <1>3. KeysOfRows'
    BY <1>i, <1>r DEF Tables, Runs, OnlyUploads, KeysOfRows, Uploads, Shaped, Run, Expire
  <1>4. FilesHaveRows'
    BY <1>i, <1>r DEF Tables, Runs, OnlyUploads, FilesHaveRows, PurgesSee, AccountSees,
       Uploads, Shaped, Expire
  <1>5. PurgesSee'
    BY <1>i, <1>r DEF Tables, Runs, OnlyUploads, FilesHaveRows, PurgesSee, Uploads, Shaped,
       Expire
  <1>6. AccountSees'
    BY <1>i, <1>r DEF Tables, Runs, OnlyUploads, FilesHaveRows, PurgesSee, AccountSees,
       Uploads, Shaped, Expire
  <1>7. RowsHaveFiles'
    BY <1>i, <1>r DEF Tables, Runs, OnlyUploads, RowsHaveFiles, Uploads, Shaped, Expire
  <1> QED BY <1>r, <1>1, <1>2, <1>3, <1>4, <1>5, <1>6, <1>7 DEF RetentionInv

\* A purge that would not see the new document makes it a stray.
LEMMA AskUploadKeeps ==
  ASSUME NEW i \in Invocations, NEW d \in Documents, RetentionInv, AskUpload(i, d)
  PROVE  RetentionInv'
  <1> USE RetentionAssumption
  <1>i. Tables /\ Runs /\ OnlyUploads /\ KeysOfRows /\ FilesHaveRows
       /\ PurgesSee /\ AccountSees /\ RowsHaveFiles
    BY DEF RetentionInv
  <1> DEFINE x == [at |-> "put", doc |-> d, list |-> {}, read |-> {}, keys |-> {}]
  <1>x. running' = [running EXCEPT ![i] = x]
    BY <1>i, Started DEF AskUpload
  <1>s. Shaped(x)
    BY <1>i DEF Shaped, Run, Runs, Tables, AskUpload
  <1>r. Runs' /\ \A j \in Invocations : running'[j] = IF j = i THEN x ELSE running[j]
    <2> HIDE DEF x
    <2> QED BY <1>i, <1>x, <1>s, Moved
  <1>1. Tables'
    BY <1>i, <1>r DEF Tables, Runs, Shaped, Run, AskUpload, Access, Overlapped, Rests
  <1>2. OnlyUploads'
    BY <1>i, <1>r DEF Tables, Runs, OnlyUploads, KeysOfRows, PurgesSee, AccountSees, Uploads,
       Shaped, AskUpload, Access, Overlapped, Rests
  <1>3. KeysOfRows'
    BY <1>i, <1>r DEF Tables, Runs, OnlyUploads, KeysOfRows, Uploads, Shaped, Run, AskUpload,
       Access, Overlapped, Rests
  <1>4. FilesHaveRows'
    BY <1>i, <1>r DEF Tables, Runs, OnlyUploads, FilesHaveRows, PurgesSee, AccountSees,
       Uploads, Shaped, AskUpload, Access, Overlapped, Rests
  <1>5. PurgesSee'
    BY <1>i, <1>r DEF Tables, Runs, OnlyUploads, FilesHaveRows, PurgesSee, Uploads, Shaped,
       AskUpload, Access, Overlapped, Rests
  <1>6. AccountSees'
    BY <1>i, <1>r DEF Tables, Runs, OnlyUploads, FilesHaveRows, PurgesSee, AccountSees,
       Uploads, Shaped, AskUpload, Access, Overlapped, Rests
  <1>7. RowsHaveFiles'
    BY <1>i, <1>r DEF Tables, Runs, OnlyUploads, RowsHaveFiles, Uploads, Shaped, AskUpload,
       Access, Overlapped, Rests
  <1> QED BY <1>r, <1>1, <1>2, <1>3, <1>4, <1>5, <1>6, <1>7 DEF RetentionInv

\* The row is still to come.
LEMMA PutFileKeeps ==
  ASSUME NEW i \in Invocations, RetentionInv, PutFile(i)
  PROVE  RetentionInv'
  <1> USE RetentionAssumption
  <1>i. Tables /\ Runs /\ OnlyUploads /\ KeysOfRows /\ FilesHaveRows
       /\ PurgesSee /\ AccountSees /\ RowsHaveFiles
    BY DEF RetentionInv
  <1> DEFINE x == [at |-> "insert", doc |-> running[i].doc, list |-> {}, read |-> {}, keys |-> {}]
  <1>x. running' = [running EXCEPT ![i] = x]
    BY <1>i, Started DEF PutFile, Is
  <1>s. Shaped(x)
    BY <1>i DEF Shaped, Run, Runs, Tables, PutFile, Is
  <1>r. Runs' /\ \A j \in Invocations : running'[j] = IF j = i THEN x ELSE running[j]
    <2> HIDE DEF x
    <2> QED BY <1>i, <1>x, <1>s, Moved
  <1>1. Tables'
    BY <1>i, <1>r DEF Tables, Runs, Shaped, Run, PutFile, Is
  <1>2. OnlyUploads'
    BY <1>i, <1>r DEF Tables, Runs, OnlyUploads, KeysOfRows, PurgesSee, AccountSees, Uploads,
       Shaped, PutFile, Is
  <1>3. KeysOfRows'
    BY <1>i, <1>r DEF Tables, Runs, OnlyUploads, KeysOfRows, Uploads, Shaped, Run, PutFile, Is
  <1>4. FilesHaveRows'
    BY <1>i, <1>r DEF Tables, Runs, OnlyUploads, FilesHaveRows, PurgesSee, AccountSees,
       Uploads, Shaped, PutFile, Is
  <1>5. PurgesSee'
    BY <1>i, <1>r DEF Tables, Runs, OnlyUploads, FilesHaveRows, PurgesSee, Uploads, Shaped,
       PutFile, Is
  <1>6. AccountSees'
    BY <1>i, <1>r DEF Tables, Runs, OnlyUploads, FilesHaveRows, PurgesSee, AccountSees,
       Uploads, Shaped, PutFile, Is
  <1>7. RowsHaveFiles'
    BY <1>i, <1>r DEF Tables, Runs, OnlyUploads, RowsHaveFiles, Uploads, Shaped, PutFile, Is
  <1> QED BY <1>r, <1>1, <1>2, <1>3, <1>4, <1>5, <1>6, <1>7 DEF RetentionInv

\* The row comes to its file, if the case is still there.
LEMMA InsertRowKeeps ==
  ASSUME NEW i \in Invocations, RetentionInv, InsertRow(i)
  PROVE  RetentionInv'
  <1> USE RetentionAssumption
  <1>i. Tables /\ Runs /\ OnlyUploads /\ KeysOfRows /\ FilesHaveRows
       /\ PurgesSee /\ AccountSees /\ RowsHaveFiles
    BY DEF RetentionInv
  <1> DEFINE x == [at |-> "idle", doc |-> NoDocument, list |-> {}, read |-> {}, keys |-> {}]
  <1>x. running' = [running EXCEPT ![i] = x]
    BY <1>i, Ended DEF InsertRow, Is
  <1>s. Shaped(x)
    BY <1>i DEF Shaped, Run, Runs, Tables, InsertRow, Is
  <1>r. Runs' /\ \A j \in Invocations : running'[j] = IF j = i THEN x ELSE running[j]
    <2> HIDE DEF x
    <2> QED BY <1>i, <1>x, <1>s, Moved
  <1>1. Tables'
    BY <1>i, <1>r DEF Tables, Runs, Shaped, Run, OnlyUploads, Uploads, InsertRow, Is
  <1>2. OnlyUploads'
    BY <1>i, <1>r DEF Tables, Runs, OnlyUploads, KeysOfRows, PurgesSee, AccountSees, Uploads,
       Shaped, InsertRow, Is
  <1>3. KeysOfRows'
    BY <1>i, <1>r DEF Tables, Runs, OnlyUploads, KeysOfRows, Uploads, Shaped, Run, InsertRow, Is
  <1>4. FilesHaveRows'
    BY <1>i, <1>r DEF Tables, Runs, OnlyUploads, FilesHaveRows, PurgesSee, AccountSees,
       Uploads, Shaped, InsertRow, Is
  <1>5. PurgesSee'
    BY <1>i, <1>r DEF Tables, Runs, OnlyUploads, FilesHaveRows, PurgesSee, Uploads, Shaped,
       InsertRow, Is
  <1>6. AccountSees'
    BY <1>i, <1>r DEF Tables, Runs, OnlyUploads, FilesHaveRows, PurgesSee, AccountSees,
       Uploads, Shaped, InsertRow, Is
  <1>7. RowsHaveFiles'
    BY <1>i, <1>r DEF Tables, Runs, OnlyUploads, RowsHaveFiles, Uploads, Shaped, InsertRow, Is
  <1> QED BY <1>r, <1>1, <1>2, <1>3, <1>4, <1>5, <1>6, <1>7 DEF RetentionInv

\* Nothing is deleted yet.
LEMMA AskDeleteDocumentKeeps ==
  ASSUME NEW i \in Invocations, NEW d \in Documents, RetentionInv, AskDeleteDocument(i, d)
  PROVE  RetentionInv'
  <1> USE RetentionAssumption
  <1>i. Tables /\ Runs /\ OnlyUploads /\ KeysOfRows /\ FilesHaveRows
       /\ PurgesSee /\ AccountSees /\ RowsHaveFiles
    BY DEF RetentionInv
  <1> DEFINE x == [at |-> "unstore", doc |-> d, list |-> {}, read |-> {}, keys |-> {}]
  <1>x. running' = [running EXCEPT ![i] = x]
    BY <1>i, Started DEF AskDeleteDocument
  <1>s. Shaped(x)
    BY <1>i DEF Shaped, Run, Runs, Tables, AskDeleteDocument
  <1>r. Runs' /\ \A j \in Invocations : running'[j] = IF j = i THEN x ELSE running[j]
    <2> HIDE DEF x
    <2> QED BY <1>i, <1>x, <1>s, Moved
  <1>1. Tables'
    BY <1>i, <1>r DEF Tables, Runs, Shaped, Run, AskDeleteDocument, Access, Rests
  <1>2. OnlyUploads'
    BY <1>i, <1>r DEF Tables, Runs, OnlyUploads, KeysOfRows, PurgesSee, AccountSees, Uploads,
       Shaped, AskDeleteDocument, Access, Rests
  <1>3. KeysOfRows'
    BY <1>i, <1>r DEF Tables, Runs, OnlyUploads, KeysOfRows, Uploads, Shaped, Run,
       AskDeleteDocument, Access, Rests
  <1>4. FilesHaveRows'
    BY <1>i, <1>r DEF Tables, Runs, OnlyUploads, FilesHaveRows, PurgesSee, AccountSees,
       Uploads, Shaped, AskDeleteDocument, Access, Rests
  <1>5. PurgesSee'
    BY <1>i, <1>r DEF Tables, Runs, OnlyUploads, FilesHaveRows, PurgesSee, Uploads, Shaped,
       AskDeleteDocument, Access, Rests
  <1>6. AccountSees'
    BY <1>i, <1>r DEF Tables, Runs, OnlyUploads, FilesHaveRows, PurgesSee, AccountSees,
       Uploads, Shaped, AskDeleteDocument, Access, Rests
  <1>7. RowsHaveFiles'
    BY <1>i, <1>r DEF Tables, Runs, OnlyUploads, RowsHaveFiles, Uploads, Shaped,
       AskDeleteDocument, Access, Rests
  <1> QED BY <1>r, <1>1, <1>2, <1>3, <1>4, <1>5, <1>6, <1>7 DEF RetentionInv

\* The row is now on its way out.
LEMMA UnstoreKeeps ==
  ASSUME NEW i \in Invocations, RetentionInv, Unstore(i)
  PROVE  RetentionInv'
  <1> USE RetentionAssumption
  <1>i. Tables /\ Runs /\ OnlyUploads /\ KeysOfRows /\ FilesHaveRows
       /\ PurgesSee /\ AccountSees /\ RowsHaveFiles
    BY DEF RetentionInv
  <1> DEFINE x == [at |-> "unlist", doc |-> running[i].doc, list |-> {}, read |-> {}, keys |-> {}]
  <1>x. running' = [running EXCEPT ![i] = x]
    BY <1>i, Started DEF Unstore, Is
  <1>s. Shaped(x)
    BY <1>i DEF Shaped, Run, Runs, Tables, Unstore, Is
  <1>r. Runs' /\ \A j \in Invocations : running'[j] = IF j = i THEN x ELSE running[j]
    <2> HIDE DEF x
    <2> QED BY <1>i, <1>x, <1>s, Moved
  <1>1. Tables'
    BY <1>i, <1>r DEF Tables, Runs, Shaped, Run, Unstore, Is
  <1>2. OnlyUploads'
    BY <1>i, <1>r DEF Tables, Runs, OnlyUploads, KeysOfRows, PurgesSee, AccountSees, Uploads,
       Shaped, Unstore, Is
  <1>3. KeysOfRows'
    BY <1>i, <1>r DEF Tables, Runs, OnlyUploads, KeysOfRows, Uploads, Shaped, Run, Unstore, Is
  <1>4. FilesHaveRows'
    BY <1>i, <1>r DEF Tables, Runs, OnlyUploads, FilesHaveRows, PurgesSee, AccountSees,
       Uploads, Shaped, Unstore, Is
  <1>5. PurgesSee'
    BY <1>i, <1>r DEF Tables, Runs, OnlyUploads, FilesHaveRows, PurgesSee, Uploads, Shaped,
       Unstore, Is
  <1>6. AccountSees'
    BY <1>i, <1>r DEF Tables, Runs, OnlyUploads, FilesHaveRows, PurgesSee, AccountSees,
       Uploads, Shaped, Unstore, Is
  <1>7. RowsHaveFiles'
    BY <1>i, <1>r DEF Tables, Runs, OnlyUploads, RowsHaveFiles, Uploads, Shaped, Unstore, Is
  <1> QED BY <1>r, <1>1, <1>2, <1>3, <1>4, <1>5, <1>6, <1>7 DEF RetentionInv

\* The row is no longer listed.
LEMMA UnlistKeeps ==
  ASSUME NEW i \in Invocations, RetentionInv, Unlist(i)
  PROVE  RetentionInv'
  <1> USE RetentionAssumption
  <1>i. Tables /\ Runs /\ OnlyUploads /\ KeysOfRows /\ FilesHaveRows
       /\ PurgesSee /\ AccountSees /\ RowsHaveFiles
    BY DEF RetentionInv
  <1> DEFINE x == [at |-> "idle", doc |-> NoDocument, list |-> {}, read |-> {}, keys |-> {}]
  <1>x. running' = [running EXCEPT ![i] = x]
    BY <1>i, Ended DEF Unlist, Is
  <1>s. Shaped(x)
    BY <1>i DEF Shaped, Run, Runs, Tables, Unlist, Is
  <1>r. Runs' /\ \A j \in Invocations : running'[j] = IF j = i THEN x ELSE running[j]
    <2> HIDE DEF x
    <2> QED BY <1>i, <1>x, <1>s, Moved
  <1>1. Tables'
    BY <1>i, <1>r DEF Tables, Runs, Shaped, Run, Unlist, Is
  <1>2. OnlyUploads'
    BY <1>i, <1>r DEF Tables, Runs, OnlyUploads, KeysOfRows, PurgesSee, AccountSees, Uploads,
       Shaped, Unlist, Is
  <1>3. KeysOfRows'
    BY <1>i, <1>r DEF Tables, Runs, OnlyUploads, KeysOfRows, Uploads, Shaped, Run, Unlist, Is
  <1>4. FilesHaveRows'
    BY <1>i, <1>r DEF Tables, Runs, OnlyUploads, FilesHaveRows, PurgesSee, AccountSees,
       Uploads, Shaped, Unlist, Is
  <1>5. PurgesSee'
    BY <1>i, <1>r DEF Tables, Runs, OnlyUploads, FilesHaveRows, PurgesSee, Uploads, Shaped,
       Unlist, Is
  <1>6. AccountSees'
    BY <1>i, <1>r DEF Tables, Runs, OnlyUploads, FilesHaveRows, PurgesSee, AccountSees,
       Uploads, Shaped, Unlist, Is
  <1>7. RowsHaveFiles'
    BY <1>i, <1>r DEF Tables, Runs, OnlyUploads, RowsHaveFiles, Uploads, Shaped, Unlist, Is
  <1> QED BY <1>r, <1>1, <1>2, <1>3, <1>4, <1>5, <1>6, <1>7 DEF RetentionInv

\* Nothing is read yet.
LEMMA AskPurgeExpiredKeeps ==
  ASSUME NEW i \in Invocations, RetentionInv, AskPurgeExpired(i)
  PROVE  RetentionInv'
  <1> USE RetentionAssumption
  <1>i. Tables /\ Runs /\ OnlyUploads /\ KeysOfRows /\ FilesHaveRows
       /\ PurgesSee /\ AccountSees /\ RowsHaveFiles
    BY DEF RetentionInv
  <1> DEFINE x == [at |-> "next", doc |-> NoDocument, list |-> PastCutoff, read |-> {}, keys |-> {}]
  <1>x. running' = [running EXCEPT ![i] = x]
    BY <1>i, Listed DEF AskPurgeExpired, PastCutoff
  <1>s. Shaped(x)
    BY <1>i DEF Shaped, Run, Runs, Tables, AskPurgeExpired, PastCutoff
  <1>r. Runs' /\ \A j \in Invocations : running'[j] = IF j = i THEN x ELSE running[j]
    <2> HIDE DEF x
    <2> QED BY <1>i, <1>x, <1>s, Moved
  <1>1. Tables'
    BY <1>i, <1>r DEF Tables, Runs, Shaped, Run, AskPurgeExpired, Rests
  <1>2. OnlyUploads'
    BY <1>i, <1>r DEF Tables, Runs, OnlyUploads, KeysOfRows, PurgesSee, AccountSees, Uploads,
       Shaped, AskPurgeExpired, Rests
  <1>3. KeysOfRows'
    BY <1>i, <1>r DEF Tables, Runs, OnlyUploads, KeysOfRows, Uploads, Shaped, Run,
       AskPurgeExpired, Rests
  <1>4. FilesHaveRows'
    BY <1>i, <1>r DEF Tables, Runs, OnlyUploads, FilesHaveRows, PurgesSee, AccountSees,
       Uploads, Shaped, AskPurgeExpired, Rests
  <1>5. PurgesSee'
    BY <1>i, <1>r DEF Tables, Runs, OnlyUploads, FilesHaveRows, PurgesSee, Uploads, Shaped,
       AskPurgeExpired, Rests
  <1>6. AccountSees'
    BY <1>i, <1>r DEF Tables, Runs, OnlyUploads, FilesHaveRows, PurgesSee, AccountSees,
       Uploads, Shaped, AskPurgeExpired, Rests
  <1>7. RowsHaveFiles'
    BY <1>i, <1>r DEF Tables, Runs, OnlyUploads, RowsHaveFiles, Uploads, Shaped,
       AskPurgeExpired, Rests
  <1> QED BY <1>r, <1>1, <1>2, <1>3, <1>4, <1>5, <1>6, <1>7 DEF RetentionInv

\* Nothing is read yet.
LEMMA AskPurgeNowKeeps ==
  ASSUME NEW i \in Invocations, NEW c \in Cases, RetentionInv, AskPurgeNow(i, c)
  PROVE  RetentionInv'
  <1> USE RetentionAssumption
  <1>i. Tables /\ Runs /\ OnlyUploads /\ KeysOfRows /\ FilesHaveRows
       /\ PurgesSee /\ AccountSees /\ RowsHaveFiles
    BY DEF RetentionInv
  <1> DEFINE x == [at |-> "next", doc |-> NoDocument, list |-> {c}, read |-> {}, keys |-> {}]
  <1>x. running' = [running EXCEPT ![i] = x]
    BY <1>i, Listed DEF AskPurgeNow
  <1>s. Shaped(x)
    BY <1>i DEF Shaped, Run, Runs, Tables, AskPurgeNow
  <1>r. Runs' /\ \A j \in Invocations : running'[j] = IF j = i THEN x ELSE running[j]
    <2> HIDE DEF x
    <2> QED BY <1>i, <1>x, <1>s, Moved
  <1>1. Tables'
    BY <1>i, <1>r DEF Tables, Runs, Shaped, Run, AskPurgeNow, Rests
  <1>2. OnlyUploads'
    BY <1>i, <1>r DEF Tables, Runs, OnlyUploads, KeysOfRows, PurgesSee, AccountSees, Uploads,
       Shaped, AskPurgeNow, Rests
  <1>3. KeysOfRows'
    BY <1>i, <1>r DEF Tables, Runs, OnlyUploads, KeysOfRows, Uploads, Shaped, Run,
       AskPurgeNow, Rests
  <1>4. FilesHaveRows'
    BY <1>i, <1>r DEF Tables, Runs, OnlyUploads, FilesHaveRows, PurgesSee, AccountSees,
       Uploads, Shaped, AskPurgeNow, Rests
  <1>5. PurgesSee'
    BY <1>i, <1>r DEF Tables, Runs, OnlyUploads, FilesHaveRows, PurgesSee, Uploads, Shaped,
       AskPurgeNow, Rests
  <1>6. AccountSees'
    BY <1>i, <1>r DEF Tables, Runs, OnlyUploads, FilesHaveRows, PurgesSee, AccountSees,
       Uploads, Shaped, AskPurgeNow, Rests
  <1>7. RowsHaveFiles'
    BY <1>i, <1>r DEF Tables, Runs, OnlyUploads, RowsHaveFiles, Uploads, Shaped, AskPurgeNow,
       Rests
  <1> QED BY <1>r, <1>1, <1>2, <1>3, <1>4, <1>5, <1>6, <1>7 DEF RetentionInv

\* The account lists every case that has anything.
LEMMA AskDeleteAccountKeeps ==
  ASSUME NEW i \in Invocations, RetentionInv, AskDeleteAccount(i)
  PROVE  RetentionInv'
  <1> USE RetentionAssumption
  <1>i. Tables /\ Runs /\ OnlyUploads /\ KeysOfRows /\ FilesHaveRows
       /\ PurgesSee /\ AccountSees /\ RowsHaveFiles
    BY DEF RetentionInv
  <1> DEFINE x == [at |-> "account", doc |-> NoDocument, list |-> Owned, read |-> {}, keys |-> {}]
  <1>x. running' = [running EXCEPT ![i] = x]
    BY <1>i, Listed DEF AskDeleteAccount, Owned
  <1>s. Shaped(x)
    BY <1>i DEF Shaped, Run, Runs, Tables, AskDeleteAccount, Owned
  <1>r. Runs' /\ \A j \in Invocations : running'[j] = IF j = i THEN x ELSE running[j]
    <2> HIDE DEF x
    <2> QED BY <1>i, <1>x, <1>s, Moved
  <1>1. Tables'
    BY <1>i, <1>r DEF Tables, Runs, Shaped, Run, AskDeleteAccount, Rests, Owned
  <1>2. OnlyUploads'
    BY <1>i, <1>r DEF Tables, Runs, OnlyUploads, KeysOfRows, PurgesSee, AccountSees, Uploads,
       Shaped, AskDeleteAccount, Rests, Owned
  <1>3. KeysOfRows'
    BY <1>i, <1>r DEF Tables, Runs, OnlyUploads, KeysOfRows, Uploads, Shaped, Run,
       AskDeleteAccount, Rests, Owned
  <1>4. FilesHaveRows'
    BY <1>i, <1>r DEF Tables, Runs, OnlyUploads, FilesHaveRows, PurgesSee, AccountSees,
       Uploads, Shaped, AskDeleteAccount, Rests, Owned
  <1>5. PurgesSee'
    BY <1>i, <1>r DEF Tables, Runs, OnlyUploads, FilesHaveRows, PurgesSee, Uploads, Shaped,
       AskDeleteAccount, Rests, Owned
  <1>6. AccountSees'
    BY <1>i, <1>r DEF Tables, Runs, OnlyUploads, FilesHaveRows, PurgesSee, AccountSees,
       Uploads, Shaped, AskDeleteAccount, Rests, Owned
  <1>7. RowsHaveFiles'
    BY <1>i, <1>r DEF Tables, Runs, OnlyUploads, RowsHaveFiles, Uploads, Shaped,
       AskDeleteAccount, Rests, Owned
  <1> QED BY <1>r, <1>1, <1>2, <1>3, <1>4, <1>5, <1>6, <1>7 DEF RetentionInv

\* Rows give the keys, and uploads under way are strays from now on.
LEMMA ReadKeysKeeps ==
  ASSUME NEW i \in Invocations, NEW c \in Cases, RetentionInv, ReadKeys(i, c)
  PROVE  RetentionInv'
  <1> USE RetentionAssumption
  <1>i. Tables /\ Runs /\ OnlyUploads /\ KeysOfRows /\ FilesHaveRows
       /\ PurgesSee /\ AccountSees /\ RowsHaveFiles
    BY DEF RetentionInv
  <1> DEFINE x == [at   |-> IF running[i].at = "next" THEN "files" ELSE "accountFiles",
                  doc  |-> NoDocument,
                  list |-> running[i].list \ {c},
                  read |-> running[i].read \cup {c},
                  keys |-> {d \in DocsOf(c) : row[d] # "absent"}]
  <1>x. running' = [running EXCEPT ![i] = x]
    BY <1>i DEF ReadKeys, Is, DocsOf
  <1>s. Shaped(x)
    BY <1>i DEF Shaped, Run, Runs, Tables, ReadKeys, Is, DocsOf
  <1>r. Runs' /\ \A j \in Invocations : running'[j] = IF j = i THEN x ELSE running[j]
    <2> HIDE DEF x
    <2> QED BY <1>i, <1>x, <1>s, Moved
  <1>1. Tables'
    BY <1>i, <1>r DEF Tables, Runs, Shaped, Run, ReadKeys, DocsOf
  <1>2. OnlyUploads'
    BY <1>i, <1>r DEF Tables, Runs, OnlyUploads, KeysOfRows, PurgesSee, AccountSees, Uploads,
       Shaped, ReadKeys, DocsOf
  <1>3. KeysOfRows'
    BY <1>i, <1>r DEF Tables, Runs, OnlyUploads, KeysOfRows, Uploads, Shaped, Run, ReadKeys,
       DocsOf
  <1>4. FilesHaveRows'
    BY <1>i, <1>r DEF Tables, Runs, OnlyUploads, FilesHaveRows, PurgesSee, AccountSees,
       Uploads, Shaped, ReadKeys, DocsOf
  <1>5. PurgesSee'
    BY <1>i, <1>r DEF Tables, Runs, OnlyUploads, FilesHaveRows, PurgesSee, Uploads, Shaped,
       ReadKeys, DocsOf
  <1>6. AccountSees'
    <2> SUFFICES ASSUME NEW j \in Invocations, running'[j].at \in {"account", "accountFiles"},
                        NEW d \in Documents, CaseOf[d] \notin running'[j].list \cup running'[j].read
                 PROVE  /\ d \in files' => d \in strays'
                        /\ \A k \in Invocations : Uploads(k, d)' => d \in strays'
      BY DEF AccountSees
    <2>1. running[j].at \in {"account", "accountFiles"} /\ CaseOf[d] \notin running[j].list \cup running[j].read
      <3>1. CASE j # i
        BY <1>r, <3>1
      <3>2. CASE j = i
        <4>1. running'[i] = x
          <5> HIDE DEF x
          <5> QED BY <1>r
        <4>2. x.at = IF running[i].at = "next" THEN "files" ELSE "accountFiles"
          OBVIOUS
        <4>3. x.list = running[i].list \ {c} /\ x.read = running[i].read \cup {c}
          OBVIOUS
        <4> HIDE DEF x
        <4> QED BY <3>2, <4>1, <4>2, <4>3 DEF ReadKeys
      <3> QED BY <3>1, <3>2
    <2>2. d \in files => d \in strays
      BY <1>i, <2>1 DEF AccountSees
    <2>3. \A k \in Invocations : Uploads(k, d) => d \in strays
      BY <1>i, <2>1 DEF AccountSees
    <2>4. \A k \in Invocations : Uploads(k, d)' => Uploads(k, d)
      <3>1. x.at \notin {"put", "insert"}
        OBVIOUS
      <3> HIDE DEF x
      <3> QED BY <1>r, <3>1 DEF Uploads
    <2> QED BY <2>2, <2>3, <2>4 DEF ReadKeys
  <1>7. RowsHaveFiles'
    BY <1>i, <1>r DEF Tables, Runs, OnlyUploads, RowsHaveFiles, Uploads, Shaped, ReadKeys,
       DocsOf
  <1> QED BY <1>r, <1>1, <1>2, <1>3, <1>4, <1>5, <1>6, <1>7 DEF RetentionInv

\* Its case was read, so its row may lack its file.
LEMMA DeleteFileKeeps ==
  ASSUME NEW i \in Invocations, NEW d \in Documents, RetentionInv, DeleteFile(i, d)
  PROVE  RetentionInv'
  <1> USE RetentionAssumption
  <1>i. Tables /\ Runs /\ OnlyUploads /\ KeysOfRows /\ FilesHaveRows
       /\ PurgesSee /\ AccountSees /\ RowsHaveFiles
    BY DEF RetentionInv
  <1> DEFINE x == [at |-> running[i].at, doc |-> running[i].doc, list |-> running[i].list, read |-> running[i].read, keys |-> running[i].keys \ {d}]
  <1>w. running[i] \in Run
    BY <1>i DEF Runs
  <1>e. [running[i] EXCEPT !.keys = @ \ {d}] = x
    BY <1>w DEF Run
  <1>x. running' = [running EXCEPT ![i] = x]
    BY <1>i, <1>e DEF DeleteFile, Runs
  <1>s. Shaped(x)
    BY <1>i DEF Shaped, Run, Runs, Tables, DeleteFile
  <1>r. Runs' /\ \A j \in Invocations : running'[j] = IF j = i THEN x ELSE running[j]
    <2> HIDE DEF x
    <2> QED BY <1>i, <1>x, <1>s, Moved
  <1>1. Tables'
    BY <1>i, <1>r DEF Tables, Runs, Shaped, Run, DeleteFile
  <1>2. OnlyUploads'
    BY <1>i, <1>r DEF Tables, Runs, OnlyUploads, KeysOfRows, PurgesSee, AccountSees, Uploads,
       Shaped, DeleteFile
  <1>3. KeysOfRows'
    BY <1>i, <1>r DEF Tables, Runs, OnlyUploads, KeysOfRows, Uploads, Shaped, Run, DeleteFile
  <1>4. FilesHaveRows'
    BY <1>i, <1>r DEF Tables, Runs, OnlyUploads, FilesHaveRows, PurgesSee, AccountSees,
       Uploads, Shaped, DeleteFile
  <1>5. PurgesSee'
    BY <1>i, <1>r DEF Tables, Runs, OnlyUploads, FilesHaveRows, PurgesSee, Uploads, Shaped,
       DeleteFile
  <1>6. AccountSees'
    BY <1>i, <1>r DEF Tables, Runs, OnlyUploads, FilesHaveRows, PurgesSee, AccountSees,
       Uploads, Shaped, DeleteFile
  <1>7. RowsHaveFiles'
    BY <1>i, <1>r DEF Tables, Runs, OnlyUploads, RowsHaveFiles, Uploads, Shaped, DeleteFile
  <1> QED BY <1>r, <1>1, <1>2, <1>3, <1>4, <1>5, <1>6, <1>7 DEF RetentionInv

\* All files of the case but its strays are gone.
LEMMA EraseCaseKeeps ==
  ASSUME NEW i \in Invocations, RetentionInv, EraseCase(i)
  PROVE  RetentionInv'
  <1> USE RetentionAssumption
  <1>i. Tables /\ Runs /\ OnlyUploads /\ KeysOfRows /\ FilesHaveRows
       /\ PurgesSee /\ AccountSees /\ RowsHaveFiles
    BY DEF RetentionInv
  <1> DEFINE x == IF running[i].list = {}
                  THEN [at |-> "idle", doc |-> NoDocument, list |-> {}, read |-> {}, keys |-> {}]
                  ELSE [at |-> "next", doc |-> NoDocument, list |-> running[i].list, read |-> {}, keys |-> {}]
  <1>x. running' = [running EXCEPT ![i] = x]
    BY <1>i, Ended, Listed DEF EraseCase, Is
  <1>s. Shaped(x)
    BY <1>i DEF Shaped, Run, Runs, Tables, EraseCase, Is
  <1>r. Runs' /\ \A j \in Invocations : running'[j] = IF j = i THEN x ELSE running[j]
    <2> HIDE DEF x
    <2> QED BY <1>i, <1>x, <1>s, Moved
  <1>1. Tables'
    BY <1>i, <1>r DEF Tables, Runs, Shaped, Run, EraseCase, Erase, Is
  <1>2. OnlyUploads'
    BY <1>i, <1>r DEF Tables, Runs, OnlyUploads, KeysOfRows, PurgesSee, AccountSees, Uploads,
       Shaped, EraseCase, Erase, Is
  <1>3. KeysOfRows'
    BY <1>i, <1>r DEF Tables, Runs, OnlyUploads, KeysOfRows, Uploads, Shaped, Run, EraseCase,
       Erase, Is
  <1>4. FilesHaveRows'
    BY <1>i, <1>r DEF Tables, Runs, OnlyUploads, FilesHaveRows, PurgesSee, AccountSees,
       Uploads, Shaped, EraseCase, Erase, Is
  <1>5. PurgesSee'
    BY <1>i, <1>r DEF Tables, Runs, OnlyUploads, FilesHaveRows, PurgesSee, Uploads, Shaped,
       EraseCase, Erase, Is
  <1>6. AccountSees'
    BY <1>i, <1>r DEF Tables, Runs, OnlyUploads, FilesHaveRows, PurgesSee, AccountSees,
       Uploads, Shaped, EraseCase, Erase, Is
  <1>7. RowsHaveFiles'
    BY <1>i, <1>r DEF Tables, Runs, OnlyUploads, RowsHaveFiles, Uploads, Shaped, EraseCase,
       Erase, Is
  <1> QED BY <1>r, <1>1, <1>2, <1>3, <1>4, <1>5, <1>6, <1>7 DEF RetentionInv

\* The keys of the case read last are used up.
LEMMA NextOfAccountKeeps ==
  ASSUME NEW i \in Invocations, RetentionInv, NextOfAccount(i)
  PROVE  RetentionInv'
  <1> USE RetentionAssumption
  <1>i. Tables /\ Runs /\ OnlyUploads /\ KeysOfRows /\ FilesHaveRows
       /\ PurgesSee /\ AccountSees /\ RowsHaveFiles
    BY DEF RetentionInv
  <1> DEFINE x == [at |-> "account", doc |-> running[i].doc, list |-> running[i].list, read |-> running[i].read, keys |-> running[i].keys]
  <1>w. running[i] \in Run
    BY <1>i DEF Runs
  <1>e. [running[i] EXCEPT !.at = "account"] = x
    BY <1>w DEF Run, Is
  <1>x. running' = [running EXCEPT ![i] = x]
    BY <1>i, <1>e DEF NextOfAccount, Runs
  <1>s. Shaped(x)
    BY <1>i DEF Shaped, Run, Runs, Tables, NextOfAccount, Is
  <1>r. Runs' /\ \A j \in Invocations : running'[j] = IF j = i THEN x ELSE running[j]
    <2> HIDE DEF x
    <2> QED BY <1>i, <1>x, <1>s, Moved
  <1>1. Tables'
    BY <1>i, <1>r DEF Tables, Runs, Shaped, Run, NextOfAccount, Is
  <1>2. OnlyUploads'
    BY <1>i, <1>r DEF Tables, Runs, OnlyUploads, KeysOfRows, PurgesSee, AccountSees, Uploads,
       Shaped, NextOfAccount, Is
  <1>3. KeysOfRows'
    BY <1>i, <1>r DEF Tables, Runs, OnlyUploads, KeysOfRows, Uploads, Shaped, Run,
       NextOfAccount, Is
  <1>4. FilesHaveRows'
    BY <1>i, <1>r DEF Tables, Runs, OnlyUploads, FilesHaveRows, PurgesSee, AccountSees,
       Uploads, Shaped, NextOfAccount, Is
  <1>5. PurgesSee'
    BY <1>i, <1>r DEF Tables, Runs, OnlyUploads, FilesHaveRows, PurgesSee, Uploads, Shaped,
       NextOfAccount, Is
  <1>6. AccountSees'
    BY <1>i, <1>r DEF Tables, Runs, OnlyUploads, FilesHaveRows, PurgesSee, AccountSees,
       Uploads, Shaped, NextOfAccount, Is
  <1>7. RowsHaveFiles'
    BY <1>i, <1>r DEF Tables, Runs, OnlyUploads, RowsHaveFiles, Uploads, Shaped,
       NextOfAccount, Is
  <1> QED BY <1>r, <1>1, <1>2, <1>3, <1>4, <1>5, <1>6, <1>7 DEF RetentionInv

\* What the account did not list has no file but strays.
LEMMA EraseAccountKeeps ==
  ASSUME NEW i \in Invocations, RetentionInv, EraseAccount(i)
  PROVE  RetentionInv'
  <1> USE RetentionAssumption
  <1>i. Tables /\ Runs /\ OnlyUploads /\ KeysOfRows /\ FilesHaveRows
       /\ PurgesSee /\ AccountSees /\ RowsHaveFiles
    BY DEF RetentionInv
  <1> DEFINE x == [at |-> "idle", doc |-> NoDocument, list |-> {}, read |-> {}, keys |-> {}]
  <1>x. running' = [running EXCEPT ![i] = x]
    BY <1>i, Ended DEF EraseAccount, Is
  <1>s. Shaped(x)
    BY <1>i DEF Shaped, Run, Runs, Tables, EraseAccount, Is
  <1>r. Runs' /\ \A j \in Invocations : running'[j] = IF j = i THEN x ELSE running[j]
    <2> HIDE DEF x
    <2> QED BY <1>i, <1>x, <1>s, Moved
  <1>1. Tables'
    BY <1>i, <1>r DEF Tables, Runs, Shaped, Run, EraseAccount, Erase, Is
  <1>2. OnlyUploads'
    BY <1>i, <1>r DEF Tables, Runs, OnlyUploads, KeysOfRows, PurgesSee, AccountSees, Uploads,
       Shaped, EraseAccount, Erase, Is
  <1>3. KeysOfRows'
    BY <1>i, <1>r DEF Tables, Runs, OnlyUploads, KeysOfRows, Uploads, Shaped, Run,
       EraseAccount, Erase, Is
  <1>4. FilesHaveRows'
    BY <1>i, <1>r DEF Tables, Runs, OnlyUploads, FilesHaveRows, PurgesSee, AccountSees,
       Uploads, Shaped, EraseAccount, Erase, Is
  <1>5. PurgesSee'
    BY <1>i, <1>r DEF Tables, Runs, OnlyUploads, FilesHaveRows, PurgesSee, Uploads, Shaped,
       EraseAccount, Erase, Is
  <1>6. AccountSees'
    BY <1>i, <1>r DEF Tables, Runs, OnlyUploads, FilesHaveRows, PurgesSee, AccountSees,
       Uploads, Shaped, EraseAccount, Erase, Is
  <1>7. RowsHaveFiles'
    BY <1>i, <1>r DEF Tables, Runs, OnlyUploads, RowsHaveFiles, Uploads, Shaped, EraseAccount,
       Erase, Is
  <1> QED BY <1>r, <1>1, <1>2, <1>3, <1>4, <1>5, <1>6, <1>7 DEF RetentionInv

\* What the invocation leaves half-done is marked.
LEMMA FaultKeeps ==
  ASSUME NEW i \in Invocations, RetentionInv, Fault(i)
  PROVE  RetentionInv'
  <1> USE RetentionAssumption
  <1>i. Tables /\ Runs /\ OnlyUploads /\ KeysOfRows /\ FilesHaveRows
       /\ PurgesSee /\ AccountSees /\ RowsHaveFiles
    BY DEF RetentionInv
  <1> DEFINE x == [at |-> "idle", doc |-> NoDocument, list |-> {}, read |-> {}, keys |-> {}]
  <1>x. running' = [running EXCEPT ![i] = x]
    BY <1>i, Ended DEF Fault, Is
  <1>s. Shaped(x)
    BY <1>i DEF Shaped, Run, Runs, Tables, Fault, Is
  <1>r. Runs' /\ \A j \in Invocations : running'[j] = IF j = i THEN x ELSE running[j]
    <2> HIDE DEF x
    <2> QED BY <1>i, <1>x, <1>s, Moved
  <1>1. Tables'
    BY <1>i, <1>r DEF Tables, Runs, Shaped, Run, Fault, Is, Rests
  <1>2. OnlyUploads'
    BY <1>i, <1>r DEF Tables, Runs, OnlyUploads, KeysOfRows, PurgesSee, AccountSees, Uploads,
       Shaped, Fault, Is, Rests
  <1>3. KeysOfRows'
    BY <1>i, <1>r DEF Tables, Runs, OnlyUploads, KeysOfRows, Uploads, Shaped, Run, Fault, Is,
       Rests
  <1>4. FilesHaveRows'
    BY <1>i, <1>r DEF Tables, Runs, OnlyUploads, FilesHaveRows, PurgesSee, AccountSees,
       Uploads, Shaped, Fault, Is, Rests
  <1>5. PurgesSee'
    BY <1>i, <1>r DEF Tables, Runs, OnlyUploads, FilesHaveRows, PurgesSee, Uploads, Shaped,
       Fault, Is, Rests
  <1>6. AccountSees'
    BY <1>i, <1>r DEF Tables, Runs, OnlyUploads, FilesHaveRows, PurgesSee, AccountSees,
       Uploads, Shaped, Fault, Is, Rests
  <1>7. RowsHaveFiles'
    BY <1>i, <1>r DEF Tables, Runs, OnlyUploads, RowsHaveFiles, Uploads, Shaped, Fault, Is,
       Rests
  <1> QED BY <1>r, <1>1, <1>2, <1>3, <1>4, <1>5, <1>6, <1>7 DEF RetentionInv

-----------------------------------------------------------------------------
LEMMA RetentionStarts == RetentionInit => RetentionInv
  <1> USE RetentionAssumption
  <1> SUFFICES ASSUME RetentionInit PROVE RetentionInv
    OBVIOUS
  <1>1. \A i \in Invocations : running[i] =
          [at |-> "idle", doc |-> NoDocument, list |-> {}, read |-> {}, keys |-> {}]
    BY DEF RetentionInit, Nothing, Doing
  <1>2. Runs
    BY <1>1 DEF RetentionInit, Runs, Shaped, Run
  <1>3. Tables /\ OnlyUploads /\ KeysOfRows /\ FilesHaveRows
    BY <1>1 DEF RetentionInit, Tables, OnlyUploads, KeysOfRows, FilesHaveRows, Uploads
  <1>4. PurgesSee /\ AccountSees /\ RowsHaveFiles
    BY <1>1 DEF RetentionInit, PurgesSee, AccountSees, RowsHaveFiles
  <1> QED BY <1>2, <1>3, <1>4 DEF RetentionInv

LEMMA RetentionKeeps == RetentionInv /\ [RetentionNext]_retentionVars => RetentionInv'
  <1> SUFFICES ASSUME RetentionInv, [RetentionNext]_retentionVars PROVE RetentionInv'
    OBVIOUS
  <1>1. ASSUME UNCHANGED retentionVars PROVE RetentionInv'
    BY <1>1 DEF retentionVars, RetentionInv, Tables, Runs, Shaped, OnlyUploads, KeysOfRows,
      FilesHaveRows, PurgesSee, AccountSees, RowsHaveFiles, Uploads
  <1>2. ASSUME NEW c \in Cases, CreateCase(c) \/ DeleteCase(c) \/ Expire(c)
        PROVE  RetentionInv'
    BY <1>2, CreateCaseKeeps, DeleteCaseKeeps, ExpireKeeps
  <1>3. ASSUME NEW i \in Invocations, DocumentSteps(i) PROVE RetentionInv'
    BY <1>3, AskUploadKeeps, AskDeleteDocumentKeeps, PutFileKeeps, InsertRowKeeps, UnstoreKeeps,
      UnlistKeeps DEF DocumentSteps
  <1>4. ASSUME NEW i \in Invocations, PurgeSteps(i) PROVE RetentionInv'
    BY <1>4, ReadKeysKeeps, DeleteFileKeeps, EraseCaseKeeps DEF PurgeSteps
  <1>5. ASSUME NEW i \in Invocations, AccountSteps(i) PROVE RetentionInv'
    BY <1>5, AskDeleteAccountKeeps, NextOfAccountKeeps, EraseAccountKeeps DEF AccountSteps
  <1>6. ASSUME NEW i \in Invocations, AskPurgeExpired(i) \/ Fault(i) PROVE RetentionInv'
    BY <1>6, AskPurgeExpiredKeeps, FaultKeeps
  <1>7. ASSUME NEW i \in Invocations, NEW c \in Cases, AskPurgeNow(i, c) PROVE RetentionInv'
    BY <1>7, AskPurgeNowKeeps
  <1> QED BY <1>1, <1>2, <1>3, <1>4, <1>5, <1>6, <1>7 DEF RetentionNext

LEMMA Consequences == RetentionInv => RetentionTypeOK /\ FilesFollowRows
  <1> SUFFICES ASSUME RetentionInv PROVE RetentionTypeOK /\ FilesFollowRows
    OBVIOUS
  <1>1. RetentionTypeOK
    BY DEF RetentionInv, Tables, Runs, Run, RetentionTypeOK
  <1>2. PurgeLeavesNoFile
    BY DEF RetentionInv, Tables, FilesHaveRows, PurgeLeavesNoFile
  <1>3. ListedHasFile
    BY DEF RetentionInv, RowsHaveFiles, ListedHasFile
  <1> QED BY <1>1, <1>2, <1>3 DEF FilesFollowRows

LEMMA RetentionInvariant == RetentionSpec => []RetentionInv
  <1> QED BY RetentionStarts, RetentionKeeps, PTL DEF RetentionSpec

\* Rows and invocations keep the shape the schema and the code give them
\* (schema.ts, retention.ts, documents/service.ts).
THEOREM RetentionTyped == RetentionSpec => []RetentionTypeOK
  BY RetentionInvariant, Consequences, PTL

\* No file outlives its case, and no listed row its file, but where an upload
\* overlapped the purge or a handler died between its two writes
\* (retention.ts purgeCaseFiles, documents/service.ts uploadDocument and
\* deleteDocument).
THEOREM FilesAndRowsEndTogether == RetentionSpec => []FilesFollowRows
  BY RetentionInvariant, Consequences, PTL

-----------------------------------------------------------------------------
(* Extraction: the shape of the tables, and who has which job in hand.     *)

RunRow == [at : RunPoints, job : JobIds \cup {NoJob}, type : Types,
           seen : Nat, item : 0..Found, verdict : Verdicts]
DocRow == [life : {"absent", "live", "deleted"}, status : Statuses,
           text : {"none", "kept"}, type : Types, kind : Kinds]
AskRow == [at : RequestPoints, doc : Docs \cup {NoDoc}]
Phases == {"absent", "queued", "processing", "completed", "requires_review", "failed"}

\* A job is for a document from the moment it is queued.
QueueTyped ==
  /\ phase \in [JobIds -> Phases] /\ taken \in [JobIds -> Nat]
  /\ inHand \subseteq Workers \X JobIds
  /\ payload \in [JobIds -> Docs \cup {NoDoc}]
  /\ \A j \in JobIds : phase[j] # "absent" => payload[j] \in Docs

TablesTyped ==
  /\ doc \in [Docs -> DocRow]
  /\ confirmed \subseteq Docs /\ bytes \subseteq Docs /\ links \subseteq Docs
  /\ proposals \subseteq JobIds \X Nat \X Nat
  /\ usage \in Nat /\ admitted \in Nat /\ raced \in Nat
  /\ crossed \subseteq Docs \X {"choice", "deletion"} /\ torn \subseteq JobIds \X Nat

\* A request is of a document while it is under way.
RequestsTyped ==
  /\ request \in [Requests -> AskRow]
  /\ \A r \in Requests : request[r].at # "idle" <=> request[r].doc \in Docs

\* A run has in hand the one job it is of, which nobody else has.
RunsTyped ==
  /\ run \in [Workers -> RunRow]
  /\ \A w \in Workers : run[w].at # "idle" => <<w, run[w].job>> \in inHand
  /\ \A w \in Workers : \A j \in JobIds : <<w, j>> \in inHand =>
       phase[j] = "processing" /\ run[w].at # "idle" /\ run[w].job = j
  /\ \A v, w \in Workers : \A j \in JobIds : <<v, j>> \in inHand /\ <<w, j>> \in inHand => v = w

ExtractionTyped == QueueTyped /\ TablesTyped /\ RequestsTyped /\ RunsTyped

LEMMA TypedIsOK == ExtractionTyped => TypeOK
  BY DEF ExtractionTyped, QueueTyped, TablesTyped, RequestsTyped, RunsTyped, TypeOK,
     RunRow, DocRow, AskRow

LEMMA NoRunFits == NoRun \in RunRow /\ NoRun.at = "idle" /\ NoRequest \in AskRow
  BY ExtractionAssumption
  DEF NoRun, NoRequest, RunRow, AskRow, RunPoints, RequestPoints, Types, Verdicts

\* The job of a run under way, and its document.
LEMMA RunHasJob ==
  ASSUME ExtractionTyped, NEW w \in Workers, run[w].at # "idle"
  PROVE  /\ run[w] \in RunRow /\ run[w].job \in JobIds /\ Doc(w) \in Docs
         /\ <<w, run[w].job>> \in inHand /\ phase[run[w].job] = "processing"
         /\ Attempt(w) \in Nat
  <1>1. run[w] \in RunRow /\ <<w, run[w].job>> \in inHand
    BY DEF ExtractionTyped, RunsTyped
  <1>2. run[w].job \in JobIds
    BY <1>1 DEF ExtractionTyped, QueueTyped
  <1>3. phase[run[w].job] = "processing"
    BY <1>1, <1>2 DEF ExtractionTyped, RunsTyped
  <1> QED BY <1>1, <1>2, <1>3 DEF ExtractionTyped, QueueTyped, Doc, Attempt

-----------------------------------------------------------------------------
(* What a step of a run does to its own row of run and to its document.    *)

RunMoves(w) ==
  /\ run' \in [Workers -> RunRow] /\ run'[w].job = run[w].job
  /\ \A v \in Workers : v # w => run'[v] = run[v]

RowMoves(d) ==
  /\ doc' \in [Docs -> DocRow] /\ doc'[d].life = doc[d].life /\ doc'[d].kind = doc[d].kind
  /\ \A e \in Docs : e # d => doc'[e] = doc[e]

\* The queue, the requests, what was confirmed and the files are not a run's.
RunsLeave == UNCHANGED <<queue, payload, confirmed, bytes, request, crossed>>

LEMMA GotoMoves ==
  ASSUME ExtractionTyped, NEW w \in Workers, NEW p \in RunPoints, Goto(w, p)
  PROVE  /\ RunMoves(w) /\ run'[w].at = p /\ run'[w].type = run[w].type
         /\ run'[w].seen = run[w].seen /\ run'[w].item = run[w].item
  <1> DEFINE x == [run[w] EXCEPT !.at = p]
  <1>1. run \in [Workers -> RunRow]
    BY DEF ExtractionTyped, RunsTyped
  <1>2. /\ x \in RunRow /\ x.at = p /\ x.type = run[w].type /\ x.job = run[w].job
        /\ x.seen = run[w].seen /\ x.item = run[w].item
    BY <1>1 DEF RunRow
  <1>3. run' = [run EXCEPT ![w] = x]
    BY DEF Goto
  <1> HIDE DEF x
  <1> QED BY <1>1, <1>2, <1>3 DEF RunMoves

LEMMA DoneMovesRun ==
  ASSUME ExtractionTyped, NEW w \in Workers, NEW v \in Verdicts, Done(w, v)
  PROVE  RunMoves(w) /\ run'[w].at = "finish" /\ run'[w].verdict = v
  <1> DEFINE x == [run[w] EXCEPT !.at = "finish", !.verdict = v]
  <1>1. run \in [Workers -> RunRow] /\ "finish" \in RunPoints
    BY DEF ExtractionTyped, RunsTyped, RunPoints
  <1>2. x \in RunRow /\ x.at = "finish" /\ x.verdict = v /\ x.job = run[w].job
    BY <1>1 DEF RunRow
  <1>3. run' = [run EXCEPT ![w] = x]
    BY <1>1 DEF Done, RunRow
  <1> HIDE DEF x
  <1> QED BY <1>1, <1>2, <1>3 DEF RunMoves

LEMMA RowStays ==
  ASSUME ExtractionTyped, NEW d \in Docs, UNCHANGED doc
  PROVE  RowMoves(d)
  BY DEF ExtractionTyped, TablesTyped, RowMoves

LEMMA StatusMoves ==
  ASSUME ExtractionTyped, NEW w \in Workers, run[w].at # "idle", NEW s \in Statuses, Status(w, s)
  PROVE  /\ RowMoves(Doc(w)) /\ doc'[Doc(w)].status = s
         /\ doc'[Doc(w)].text = doc[Doc(w)].text /\ doc'[Doc(w)].type = doc[Doc(w)].type
  <1> DEFINE d == Doc(w)
             y == [doc[d] EXCEPT !.status = s]
  <1>1. doc \in [Docs -> DocRow] /\ d \in Docs
    BY RunHasJob DEF ExtractionTyped, TablesTyped
  <1>2. /\ y \in DocRow /\ y.status = s /\ y.life = doc[d].life /\ y.kind = doc[d].kind
        /\ y.text = doc[d].text /\ y.type = doc[d].type
    BY <1>1 DEF DocRow
  <1>3. doc' = [doc EXCEPT ![d] = y]
    BY DEF Status
  <1> HIDE DEF y, d
  <1>4. /\ RowMoves(d) /\ doc'[d].status = s
        /\ doc'[d].text = doc[d].text /\ doc'[d].type = doc[d].type
    BY <1>1, <1>2, <1>3 DEF RowMoves
  <1> QED BY <1>4 DEF d

LEMMA ReadDocumentDoes ==
  ASSUME ExtractionTyped, NEW w \in Workers, ReadDocument(w)
  PROVE  /\ run[w].at = "read" /\ RunMoves(w) /\ RowMoves(Doc(w)) /\ RunsLeave
         /\ UNCHANGED <<links, proposals, usage, admitted, torn, raced>> /\ UNCHANGED doc
         /\ \/ run'[w].at = "finish" /\ run'[w].verdict = "completed" /\ ~Live(Doc(w))
            \/ run'[w].at = "mark" /\ run'[w].type = TypeAfter(Doc(w)) /\ Live(Doc(w))
  <1>1. run[w].at = "read" /\ Doc(w) \in Docs
    BY RunHasJob DEF ReadDocument
  <1>2. UNCHANGED doc /\ RunsLeave /\ UNCHANGED <<links, proposals, usage, admitted, torn, raced>>
    BY DEF ReadDocument, OnlyRun, RunsLeave, queue, noted
  <1>3. CASE Missing(Doc(w))
    <2>1. Done(w, "completed") /\ "completed" \in Verdicts
      BY <1>3 DEF ReadDocument, Verdicts
    <2> QED BY <1>1, <1>2, <1>3, <2>1, DoneMovesRun, RowStays DEF Missing
  <1>4. CASE ~Missing(Doc(w))
    <2> DEFINE x == [run[w] EXCEPT !.at = "mark", !.type = TypeAfter(Doc(w))]
    <2>1. run \in [Workers -> RunRow] /\ doc[Doc(w)] \in DocRow
      BY <1>1 DEF ExtractionTyped, RunsTyped, TablesTyped
    <2>2. TypeAfter(Doc(w)) \in Types
      BY <2>1 DEF TypeAfter, DocRow, Types
    <2>3. x \in RunRow /\ x.at = "mark" /\ x.type = TypeAfter(Doc(w)) /\ x.job = run[w].job
      BY <2>1, <2>2 DEF RunRow, RunPoints
    <2>4. run' = [run EXCEPT ![w] = x]
      BY <1>4, <2>1 DEF ReadDocument, RunRow
    <2> HIDE DEF x
    <2>5. RunMoves(w) /\ run'[w].at = "mark" /\ run'[w].type = TypeAfter(Doc(w))
      BY <2>1, <2>3, <2>4 DEF RunMoves
    <2> QED BY <1>1, <1>2, <1>4, <2>5, RowStays DEF Missing
  <1> QED BY <1>3, <1>4

LEMMA MarkProcessingDoes ==
  ASSUME ExtractionTyped, NEW w \in Workers, MarkProcessing(w)
  PROVE  /\ run[w].at = "mark" /\ RunMoves(w) /\ RowMoves(Doc(w)) /\ RunsLeave
         /\ UNCHANGED <<links, proposals, usage, admitted, torn, raced>>
         /\ run'[w].at = "bytes" /\ run'[w].type = run[w].type
         /\ doc'[Doc(w)].status = "processing" /\ doc'[Doc(w)].text = doc[Doc(w)].text
         /\ doc'[Doc(w)].type = doc[Doc(w)].type
  <1>1. run[w].at = "mark" /\ Doc(w) \in Docs
    BY RunHasJob DEF MarkProcessing
  <1>2. /\ Goto(w, "bytes") /\ Status(w, "processing") /\ RunsLeave
        /\ UNCHANGED <<links, proposals, usage, admitted, torn, raced>>
    BY DEF MarkProcessing, OnlyDocRun, RunsLeave, queue, noted
  <1>3. "bytes" \in RunPoints /\ "processing" \in Statuses
    BY DEF RunPoints, Statuses, Busy
  <1> QED BY <1>1, <1>2, <1>3, GotoMoves, StatusMoves

LEMMA ReadBytesDoes ==
  ASSUME ExtractionTyped, NEW w \in Workers, ReadBytes(w)
  PROVE  /\ run[w].at = "bytes" /\ RunMoves(w) /\ RowMoves(Doc(w)) /\ RunsLeave
         /\ UNCHANGED <<links, proposals, usage, admitted, torn, raced>> /\ UNCHANGED doc
         /\ run'[w].at \in Results(doc[Doc(w)].kind) \cup {"unreadable"} /\ run'[w].type = run[w].type
  <1>1. run[w].at = "bytes" /\ Doc(w) \in Docs
    BY RunHasJob DEF ReadBytes
  <1>2. RunsLeave /\ UNCHANGED <<links, proposals, usage, admitted, torn, raced>> /\ UNCHANGED doc
    BY DEF ReadBytes, OnlyRun, RunsLeave, queue, noted
  <1>3. PICK x \in Results(doc[Doc(w)].kind) \cup {"unreadable"} : Goto(w, x)
    BY DEF ReadBytes
  <1>4. x \in RunPoints
    BY DEF Results, RunPoints
  <1> QED BY <1>1, <1>2, <1>3, <1>4, GotoMoves, RowStays

LEMMA UnreadableDoes ==
  ASSUME ExtractionTyped, NEW w \in Workers, Unreadable(w)
  PROVE  /\ run[w].at = "unreadable" /\ RunMoves(w) /\ RowMoves(Doc(w)) /\ RunsLeave
         /\ UNCHANGED <<links, proposals, usage, admitted, torn, raced>>
         /\ run'[w].at = "finish" /\ run'[w].verdict = "throw"
         /\ doc'[Doc(w)].status = "failed" /\ doc'[Doc(w)].text = doc[Doc(w)].text
         /\ doc'[Doc(w)].type = doc[Doc(w)].type
  <1>1. run[w].at = "unreadable" /\ Doc(w) \in Docs
    BY RunHasJob DEF Unreadable
  <1>2. /\ Done(w, "throw") /\ Status(w, "failed") /\ RunsLeave
        /\ UNCHANGED <<links, proposals, usage, admitted, torn, raced>>
    BY DEF Unreadable, OnlyDocRun, RunsLeave, queue, noted
  <1>3. "throw" \in Verdicts /\ "failed" \in Statuses
    BY DEF Verdicts, Statuses, Busy
  <1> QED BY <1>1, <1>2, <1>3, DoneMovesRun, StatusMoves

LEMMA UnsupportedDoes ==
  ASSUME ExtractionTyped, NEW w \in Workers, Unsupported(w)
  PROVE  /\ run[w].at = "unsupported" /\ RunMoves(w) /\ RowMoves(Doc(w)) /\ RunsLeave
         /\ UNCHANGED <<links, proposals, usage, admitted, torn, raced>>
         /\ run'[w].at = "finish" /\ run'[w].verdict = "requires_review"
         /\ doc'[Doc(w)].status = "unsupported"
         /\ doc'[Doc(w)].type = "fallback"
         /\ doc'[Doc(w)].text = doc[Doc(w)].text
  <1>1. run[w].at = "unsupported" /\ Doc(w) \in Docs
    BY RunHasJob DEF Unsupported
  <1> DEFINE d == Doc(w)
             y == [doc[d] EXCEPT !.status = "unsupported", !.type = "fallback"]
  <1>2. /\ Done(w, "requires_review") /\ RunsLeave
        /\ UNCHANGED <<links, proposals, usage, admitted, torn, raced>>
    BY DEF Unsupported, OnlyDocRun, RunsLeave, queue, noted
  <1>3. RunMoves(w) /\ run'[w].at = "finish" /\ run'[w].verdict = "requires_review"
    BY <1>2, DoneMovesRun DEF Verdicts, RunPoints
  <1>4. doc \in [Docs -> DocRow] /\ run[w] \in RunRow
    BY DEF ExtractionTyped, TablesTyped, RunsTyped
  <1>5. /\ y \in DocRow /\ y.life = doc[d].life /\ y.kind = doc[d].kind
        /\ y.status = "unsupported" /\ y.type = "fallback" /\ y.text = doc[d].text
    BY <1>1, <1>4 DEF DocRow, RunRow, Statuses, Busy, Types
  <1>6. doc' = [doc EXCEPT ![d] = y]
    BY <1>1, <1>4 DEF Unsupported, DocRow
  <1> HIDE DEF y, d
  <1>7. RowMoves(d) /\ doc'[d].status = "unsupported" /\ doc'[d].type = "fallback" /\ doc'[d].text = doc[d].text
    BY <1>1, <1>4, <1>5, <1>6 DEF RowMoves, d
  <1> QED BY <1>1, <1>2, <1>3, <1>7 DEF d

LEMMA NoTextDoes ==
  ASSUME ExtractionTyped, NEW w \in Workers, NoText(w)
  PROVE  /\ run[w].at = "review" /\ RunMoves(w) /\ RowMoves(Doc(w)) /\ RunsLeave
         /\ UNCHANGED <<links, proposals, usage, admitted, torn, raced>>
         /\ run'[w].at = "finish" /\ run'[w].verdict = "requires_review"
         /\ doc'[Doc(w)].status = "requires_review"
         /\ doc'[Doc(w)].text = "none"
         /\ doc'[Doc(w)].type = doc[Doc(w)].type
  <1>1. run[w].at = "review" /\ Doc(w) \in Docs
    BY RunHasJob DEF NoText
  <1> DEFINE d == Doc(w)
             y == [doc[d] EXCEPT !.status = "requires_review", !.text = "none"]
  <1>2. /\ Done(w, "requires_review") /\ RunsLeave
        /\ UNCHANGED <<links, proposals, usage, admitted, torn, raced>>
    BY DEF NoText, OnlyDocRun, RunsLeave, queue, noted
  <1>3. RunMoves(w) /\ run'[w].at = "finish" /\ run'[w].verdict = "requires_review"
    BY <1>2, DoneMovesRun DEF Verdicts, RunPoints
  <1>4. doc \in [Docs -> DocRow] /\ run[w] \in RunRow
    BY DEF ExtractionTyped, TablesTyped, RunsTyped
  <1>5. /\ y \in DocRow /\ y.life = doc[d].life /\ y.kind = doc[d].kind
        /\ y.status = "requires_review" /\ y.text = "none" /\ y.type = doc[d].type
    BY <1>1, <1>4 DEF DocRow, RunRow, Statuses, Busy, Types
  <1>6. doc' = [doc EXCEPT ![d] = y]
    BY <1>1, <1>4 DEF NoText, DocRow
  <1> HIDE DEF y, d
  <1>7. RowMoves(d) /\ doc'[d].status = "requires_review" /\ doc'[d].text = "none" /\ doc'[d].type = doc[d].type
    BY <1>1, <1>4, <1>5, <1>6 DEF RowMoves, d
  <1> QED BY <1>1, <1>2, <1>3, <1>7 DEF d

LEMMA KeepTextDoes ==
  ASSUME ExtractionTyped, NEW w \in Workers, KeepText(w)
  PROVE  /\ run[w].at = "text" /\ RunMoves(w) /\ RowMoves(Doc(w)) /\ RunsLeave
         /\ UNCHANGED <<links, proposals, usage, admitted, torn, raced>>
         /\ run'[w].at = "usage" /\ run'[w].type = run[w].type
         /\ doc'[Doc(w)].status = "processing"
         /\ doc'[Doc(w)].text = "kept"
         /\ doc'[Doc(w)].type = doc[Doc(w)].type
  <1>1. run[w].at = "text" /\ Doc(w) \in Docs
    BY RunHasJob DEF KeepText
  <1> DEFINE d == Doc(w)
             y == [doc[d] EXCEPT !.status = "processing", !.text = "kept"]
  <1>2. /\ Goto(w, "usage") /\ RunsLeave
        /\ UNCHANGED <<links, proposals, usage, admitted, torn, raced>>
    BY DEF KeepText, OnlyDocRun, RunsLeave, queue, noted
  <1>3. RunMoves(w) /\ run'[w].at = "usage" /\ run'[w].type = run[w].type
    BY <1>2, GotoMoves DEF Verdicts, RunPoints
  <1>4. doc \in [Docs -> DocRow] /\ run[w] \in RunRow
    BY DEF ExtractionTyped, TablesTyped, RunsTyped
  <1>5. /\ y \in DocRow /\ y.life = doc[d].life /\ y.kind = doc[d].kind
        /\ y.status = "processing" /\ y.text = "kept" /\ y.type = doc[d].type
    BY <1>1, <1>4 DEF DocRow, RunRow, Statuses, Busy, Types
  <1>6. doc' = [doc EXCEPT ![d] = y]
    BY <1>1, <1>4 DEF KeepText, DocRow
  <1> HIDE DEF y, d
  <1>7. RowMoves(d) /\ doc'[d].status = "processing" /\ doc'[d].text = "kept" /\ doc'[d].type = doc[d].type
    BY <1>1, <1>4, <1>5, <1>6 DEF RowMoves, d
  <1> QED BY <1>1, <1>2, <1>3, <1>7 DEF d

LEMMA ReadUsageDoes ==
  ASSUME ExtractionTyped, NEW w \in Workers, ReadUsage(w)
  PROVE  /\ run[w].at = "usage" /\ RunMoves(w) /\ RowMoves(Doc(w)) /\ RunsLeave
         /\ UNCHANGED <<links, proposals, usage, admitted, torn, raced>> /\ UNCHANGED doc
         /\ run'[w].type = run[w].type
         /\ run'[w].at = "park" \/ (run'[w].at = "count" /\ run'[w].seen = usage /\ usage < Allowance)
  <1>1. run[w].at = "usage" /\ Doc(w) \in Docs
    BY RunHasJob DEF ReadUsage
  <1>2. RunsLeave /\ UNCHANGED <<links, proposals, usage, admitted, torn, raced>> /\ UNCHANGED doc
    BY DEF ReadUsage, OnlyRun, RunsLeave, queue, noted
  <1>3. CASE ~WithinUsage(usage)
    <2>1. Goto(w, "park") /\ "park" \in RunPoints
      BY <1>3 DEF ReadUsage, RunPoints
    <2> QED BY <1>1, <1>2, <2>1, GotoMoves, RowStays
  <1>4. CASE WithinUsage(usage)
    <2> DEFINE x == [run[w] EXCEPT !.at = "count", !.seen = usage]
    <2>1. run \in [Workers -> RunRow] /\ usage \in Nat
      BY DEF ExtractionTyped, RunsTyped, TablesTyped
    <2>2. x \in RunRow /\ x.at = "count" /\ x.seen = usage /\ x.type = run[w].type /\ x.job = run[w].job
      BY <2>1 DEF RunRow, RunPoints
    <2>3. run' = [run EXCEPT ![w] = x]
      BY <1>4, <2>1 DEF ReadUsage, RunRow
    <2> HIDE DEF x
    <2>4. RunMoves(w) /\ run'[w].at = "count" /\ run'[w].seen = usage /\ run'[w].type = run[w].type
      BY <2>1, <2>2, <2>3 DEF RunMoves
    <2> QED BY <1>1, <1>2, <1>4, <2>4, RowStays DEF WithinUsage
  <1> QED BY <1>3, <1>4

LEMMA CountUsageDoes ==
  ASSUME ExtractionTyped, NEW w \in Workers, CountUsage(w)
  PROVE  /\ run[w].at = "count" /\ RunMoves(w) /\ RowMoves(Doc(w)) /\ RunsLeave
         /\ UNCHANGED <<links, proposals, torn>> /\ UNCHANGED doc
         /\ run'[w].at = "model" /\ run'[w].type = run[w].type
         /\ usage' = run[w].seen + 1 /\ admitted' = admitted + 1
         /\ raced' = raced + IF \E v \in Workers \ {w} : run[v].at = "count" THEN 1 ELSE 0
  <1>1. run[w].at = "count" /\ Doc(w) \in Docs
    BY RunHasJob DEF CountUsage
  <1>2. /\ Goto(w, "model") /\ RunsLeave /\ UNCHANGED <<links, proposals, torn>> /\ UNCHANGED doc
        /\ usage' = run[w].seen + 1 /\ admitted' = admitted + 1 /\ "model" \in RunPoints
        /\ raced' = raced + IF \E v \in Workers \ {w} : run[v].at = "count" THEN 1 ELSE 0
    BY DEF CountUsage, RunsLeave, queue, noted, RunPoints
  <1> QED BY <1>1, <1>2, GotoMoves, RowStays

LEMMA UsageConflictDoes ==
  ASSUME ExtractionTyped, NEW w \in Workers, UsageConflict(w)
  PROVE  /\ run[w].at = "count" /\ RunMoves(w) /\ RowMoves(Doc(w)) /\ RunsLeave
         /\ UNCHANGED <<links, proposals, usage, admitted, torn, raced>> /\ UNCHANGED doc
         /\ run'[w].at = "finish" /\ run'[w].verdict = "throw"
  <1>1. run[w].at = "count" /\ Doc(w) \in Docs
    BY RunHasJob DEF UsageConflict
  <1>2. /\ Done(w, "throw") /\ RunsLeave /\ UNCHANGED <<links, proposals, usage, admitted, torn, raced>>
        /\ UNCHANGED doc /\ "throw" \in Verdicts
    BY DEF UsageConflict, OnlyRun, RunsLeave, queue, noted, Verdicts
  <1> QED BY <1>1, <1>2, DoneMovesRun, RowStays

LEMMA AskModelDoes ==
  ASSUME ExtractionTyped, NEW w \in Workers, AskModel(w)
  PROVE  /\ run[w].at = "model" /\ RunMoves(w) /\ RowMoves(Doc(w)) /\ RunsLeave
         /\ UNCHANGED <<links, proposals, usage, admitted, torn, raced>> /\ UNCHANGED doc
         /\ run'[w].at \in {"propose", "park"} /\ run'[w].type = run[w].type
  <1>1. run[w].at = "model" /\ Doc(w) \in Docs
    BY RunHasJob DEF AskModel
  <1>2. RunsLeave /\ UNCHANGED <<links, proposals, usage, admitted, torn, raced>> /\ UNCHANGED doc
    BY DEF AskModel, OnlyRun, RunsLeave, queue, noted
  <1>3. PICK p \in {"propose", "park"} : Goto(w, p)
    BY DEF AskModel
  <1>4. p \in RunPoints
    BY DEF RunPoints
  <1> QED BY <1>1, <1>2, <1>3, <1>4, GotoMoves, RowStays

LEMMA ParkDoes ==
  ASSUME ExtractionTyped, NEW w \in Workers, Park(w)
  PROVE  /\ run[w].at = "park" /\ RunMoves(w) /\ RowMoves(Doc(w)) /\ RunsLeave
         /\ UNCHANGED <<links, proposals, usage, admitted, torn, raced>>
         /\ run'[w].at = "finish" /\ run'[w].verdict = "requires_review"
         /\ doc'[Doc(w)].status = "requires_review" /\ doc'[Doc(w)].text = doc[Doc(w)].text
         /\ doc'[Doc(w)].type = doc[Doc(w)].type
  <1>1. run[w].at = "park" /\ Doc(w) \in Docs
    BY RunHasJob DEF Park
  <1>2. /\ Done(w, "requires_review") /\ Status(w, "requires_review") /\ RunsLeave
        /\ UNCHANGED <<links, proposals, usage, admitted, torn, raced>>
    BY DEF Park, ParkStatus, OnlyDocRun, RunsLeave, queue, noted
  <1>3. "requires_review" \in Verdicts /\ "requires_review" \in Statuses
    BY DEF Verdicts, Statuses, Busy
  <1> QED BY <1>1, <1>2, <1>3, DoneMovesRun, StatusMoves

LEMMA ProposeDoes ==
  ASSUME ExtractionTyped, NEW w \in Workers, Propose(w)
  PROVE  /\ run[w].at = "propose" /\ RunMoves(w) /\ RowMoves(Doc(w)) /\ RunsLeave
         /\ UNCHANGED <<usage, admitted, torn, raced>> /\ UNCHANGED doc
         /\ run'[w].at = "propose" /\ run'[w].type = run[w].type
         /\ links' = links \cup {Doc(w)}
         /\ proposals' = proposals \cup {<<run[w].job, Attempt(w), run[w].item>>}
  <1>1. run[w].at = "propose" /\ Doc(w) \in Docs
    BY RunHasJob DEF Propose
  <1> DEFINE x == [run[w] EXCEPT !.item = run[w].item + 1]
  <1>2. /\ RunsLeave /\ UNCHANGED <<usage, admitted, torn, raced>> /\ UNCHANGED doc
        /\ links' = links \cup {Doc(w)}
        /\ proposals' = proposals \cup {<<run[w].job, Attempt(w), run[w].item>>}
    BY DEF Propose, RunsLeave, queue, noted
  <1>3. run \in [Workers -> RunRow] /\ run[w].item < Found
    BY DEF ExtractionTyped, RunsTyped, Propose
  <1>4. x \in RunRow /\ x.at = run[w].at /\ x.type = run[w].type /\ x.job = run[w].job
    BY <1>3, ExtractionAssumption DEF RunRow
  <1>5. run' = [run EXCEPT ![w] = x]
    BY DEF Propose
  <1> HIDE DEF x
  <1>6. RunMoves(w) /\ run'[w].at = "propose" /\ run'[w].type = run[w].type
    BY <1>1, <1>3, <1>4, <1>5 DEF RunMoves
  <1> QED BY <1>1, <1>2, <1>6, RowStays

LEMMA ProposalThrowsDoes ==
  ASSUME ExtractionTyped, NEW w \in Workers, ProposalThrows(w)
  PROVE  /\ run[w].at = "propose" /\ RunMoves(w) /\ RowMoves(Doc(w)) /\ RunsLeave
         /\ UNCHANGED <<links, proposals, usage, admitted, raced>> /\ UNCHANGED doc
         /\ run'[w].at = "finish" /\ run'[w].verdict = "throw" /\ torn' = torn \cup {<<run[w].job, Attempt(w)>>}
  <1>1. run[w].at = "propose" /\ Doc(w) \in Docs
    BY RunHasJob DEF ProposalThrows
  <1>2. /\ Done(w, "throw") /\ RunsLeave /\ UNCHANGED <<links, proposals, usage, admitted, raced>>
        /\ UNCHANGED doc /\ "throw" \in Verdicts /\ torn' = torn \cup {<<run[w].job, Attempt(w)>>}
    BY DEF ProposalThrows, RunsLeave, queue, Verdicts
  <1> QED BY <1>1, <1>2, DoneMovesRun, RowStays

LEMMA CompleteDoes ==
  ASSUME ExtractionTyped, NEW w \in Workers, Complete(w)
  PROVE  /\ run[w].at = "propose" /\ RunMoves(w) /\ RowMoves(Doc(w)) /\ RunsLeave
         /\ UNCHANGED <<links, proposals, usage, admitted, torn, raced>>
         /\ run'[w].at = "finish" /\ run'[w].verdict = "completed"
         /\ doc'[Doc(w)].status = "completed"
         /\ doc'[Doc(w)].type = run[w].type
         /\ doc'[Doc(w)].text = doc[Doc(w)].text
  <1>1. run[w].at = "propose" /\ Doc(w) \in Docs
    BY RunHasJob DEF Complete
  <1> DEFINE d == Doc(w)
             y == [doc[d] EXCEPT !.status = "completed", !.type = run[w].type]
  <1>2. /\ Done(w, "completed") /\ RunsLeave
        /\ UNCHANGED <<links, proposals, usage, admitted, torn, raced>>
    BY DEF Complete, OnlyDocRun, RunsLeave, queue, noted
  <1>3. RunMoves(w) /\ run'[w].at = "finish" /\ run'[w].verdict = "completed"
    BY <1>2, DoneMovesRun DEF Verdicts, RunPoints
  <1>4. doc \in [Docs -> DocRow] /\ run[w] \in RunRow
    BY DEF ExtractionTyped, TablesTyped, RunsTyped
  <1>5. /\ y \in DocRow /\ y.life = doc[d].life /\ y.kind = doc[d].kind
        /\ y.status = "completed" /\ y.type = run[w].type /\ y.text = doc[d].text
    BY <1>1, <1>4 DEF DocRow, RunRow, Statuses, Busy, Types
  <1>6. doc' = [doc EXCEPT ![d] = y]
    BY <1>1, <1>4 DEF Complete, DocRow
  <1> HIDE DEF y, d
  <1>7. RowMoves(d) /\ doc'[d].status = "completed" /\ doc'[d].type = run[w].type /\ doc'[d].text = doc[d].text
    BY <1>1, <1>4, <1>5, <1>6 DEF RowMoves, d
  <1> QED BY <1>1, <1>2, <1>3, <1>7 DEF d

-----------------------------------------------------------------------------
(* Who owes a document its answer.                                         *)

\* A run that will still set the status, one that has kept the text, and one
\* that will not, or not any more, be tried again with proposals made.
Early == {"read", "mark", "bytes", "unreadable", "unsupported", "review", "text"}
Late  == {"usage", "count", "model", "park", "propose"}

Told(x)  == x.at \in Late \/ (x.at = "finish" /\ x.verdict = "throw")
Whole(x) == x.at = "propose" \/ (x.at = "finish" /\ x.verdict # "throw")

\* A request that is about to enqueue, a job that will be taken or that was
\* abandoned, a run before its answer; or the text is kept, and a run has what
\* follows to do or has failed in it.
Owed(d) ==
  \/ \E r \in Requests : request[r].doc = d /\ request[r].at = "enqueue"
  \/ \E j \in JobIds : payload[j] = d /\ phase[j] = "queued"
  \/ \E j \in JobIds : payload[j] = d /\ phase[j] = "processing" /\ \A w \in Workers : <<w, j>> \notin inHand
  \/ \E w \in Workers : run[w].at \in Early /\ Doc(w) = d
  \/ doc[d].text = "kept" /\ \E w \in Workers : Told(run[w]) /\ Doc(w) = d
  \/ Stranded(d)

EachIsOwed == \A d \in Docs : Live(d) /\ doc[d].status \in Busy => Owed(d)

\* Proposals of an attempt that did not throw among them are of the last one: its
\* job is in the hands of the run that makes them, or has ended with them.
ProposedWhole ==
  \A p \in proposals :
    /\ phase[p[1]] # "absent"
    /\ \/ <<p[1], p[2]>> \in torn
       \/ /\ phase[p[1]] \notin {"queued", "failed"} /\ p[2] = taken[p[1]]
          /\ \A w \in Workers : run[w].at # "idle" /\ run[w].job = p[1] => Whole(run[w])

ExtractionInv == ExtractionTyped /\ EachIsOwed /\ ProposedWhole

LEMMA InvIsHonest == ExtractionInv => TypeOK /\ WaitingIsHonest
  <1> SUFFICES ASSUME ExtractionInv PROVE TypeOK /\ WaitingIsHonest
    OBVIOUS
  <1>1. TypeOK
    BY TypedIsOK DEF ExtractionInv
  <1>2. FailureKeepsCase
    BY DEF ExtractionInv, ProposedWhole, FailureKeepsCase
  <1>3. ASSUME NEW d \in Docs, Owed(d)
        PROVE  \/ \E j \in JobIds : payload[j] = d /\ phase[j] \in Busy
               \/ \E r \in RequestsOn(d) : request[r].at = "enqueue"
               \/ Stranded(d)
    <2>1. ASSUME NEW w \in Workers, run[w].at # "idle", Doc(w) = d
          PROVE  \E j \in JobIds : payload[j] = d /\ phase[j] \in Busy
      BY <2>1, RunHasJob DEF ExtractionInv, Doc, Busy
    <2>2. \A w \in Workers : run[w].at \in Early \/ Told(run[w]) => run[w].at # "idle"
      BY DEF Early, Told, Late
    <2> QED BY <1>3, <2>1, <2>2 DEF Owed, RequestsOn, Busy
  <1>4. BusyHasJob
    BY <1>3 DEF ExtractionInv, EachIsOwed, BusyHasJob
  <1> QED BY <1>1, <1>2, <1>4 DEF WaitingIsHonest

LEMMA RunTypes ==
  ASSUME ExtractionTyped, NEW w \in Workers, run[w].at # "idle", RunMoves(w), RowMoves(Doc(w)),
         RunsLeave, run'[w].at # "idle",
         links' \subseteq Docs, usage' \in Nat, admitted' \in Nat, raced' \in Nat,
         proposals' \subseteq JobIds \X Nat \X Nat, torn' \subseteq JobIds \X Nat
  PROVE  ExtractionTyped'
  <1>1. UNCHANGED <<phase, taken, inHand, payload, confirmed, bytes, request, crossed>>
    BY DEF RunsLeave, queue
  <1>2. QueueTyped' /\ RequestsTyped'
    BY <1>1 DEF ExtractionTyped, QueueTyped, RequestsTyped
  <1>3. TablesTyped'
    BY <1>1 DEF ExtractionTyped, TablesTyped, RowMoves
  <1>4. RunsTyped'
    <2>1. /\ run' \in [Workers -> RunRow]
          /\ \A v \in Workers : run'[v].job = run[v].job /\ (v # w => run'[v] = run[v])
      BY DEF RunMoves
    <2>2. \A v \in Workers : run'[v].at # "idle" <=> run[v].at # "idle"
      BY <2>1
    <2> QED BY <1>1, <2>1, <2>2 DEF ExtractionTyped, RunsTyped
  <1> QED BY <1>2, <1>3, <1>4 DEF ExtractionTyped

\* A run that answers its document, or still owes it.
LEMMA RunKeeps ==
  ASSUME ExtractionInv, NEW w \in Workers, run[w].at # "idle", RunMoves(w), RowMoves(Doc(w)),
         RunsLeave, run'[w].at # "idle",
         links' \subseteq Docs, usage' \in Nat, admitted' \in Nat, raced' \in Nat,
         proposals' \subseteq JobIds \X Nat \X Nat, torn' \subseteq JobIds \X Nat,
         \/ ~Live(Doc(w)) \/ doc'[Doc(w)].status \notin Busy \/ run'[w].at \in Early
         \/ Told(run'[w]) /\ (doc'[Doc(w)].text = "kept" \/ (UNCHANGED doc /\ Told(run[w]))),
         \A p \in proposals' : p \in proposals \/ (p[1] = run[w].job /\ p[2] = Attempt(w) /\ Whole(run'[w])),
         torn \subseteq torn',
         Whole(run[w]) => Whole(run'[w]) \/ <<run[w].job, Attempt(w)>> \in torn'
  PROVE  ExtractionInv'
  <1>1. ExtractionTyped'
    BY RunTypes DEF ExtractionInv
  <1>2. UNCHANGED <<phase, taken, inHand, payload, confirmed, bytes, request, crossed>>
    BY DEF RunsLeave, queue
  <1>3. /\ \A v \in Workers : run'[v].job = run[v].job /\ Doc(v)' = Doc(v)
        /\ \A v \in Workers : v # w => run'[v] = run[v]
    BY <1>2 DEF RunMoves, Doc
  <1>4. ASSUME NEW d \in Docs, Live(d)', doc'[d].status \in Busy PROVE Owed(d)'
    <2>1. CASE d # Doc(w)
      <3>1. doc'[d] = doc[d] /\ Owed(d)
        BY <1>4, <2>1 DEF RowMoves, Live, ExtractionInv, EachIsOwed
      <3>2. ASSUME NEW v \in Workers, Doc(v) = d PROVE run'[v] = run[v] /\ Doc(v)' = d
        BY <1>3, <2>1, <3>2
      <3>3. CASE \E v \in Workers : run[v].at \in Early /\ Doc(v) = d
        BY <3>2, <3>3 DEF Owed
      <3>4. CASE doc[d].text = "kept" /\ \E v \in Workers : Told(run[v]) /\ Doc(v) = d
        <4>1. PICK v \in Workers : Told(run[v]) /\ Doc(v) = d
          BY <3>4
        <4>2. Told(run[v])' /\ Doc(v)' = d
          BY <3>2, <4>1 DEF Told
        <4> QED BY <3>1, <3>4, <4>2 DEF Owed
      <3> QED BY <1>2, <3>1, <3>3, <3>4 DEF Owed, Stranded
    <2>2. CASE d = Doc(w)
      <3>1. Live(d) /\ Doc(w)' = d
        BY <1>3, <1>4, <2>2 DEF RowMoves, Live
      <3>2. CASE run'[w].at \in Early
        BY <3>1, <3>2 DEF Owed
      <3>3. CASE Told(run'[w]) /\ doc'[d].text = "kept"
        <4>1. Told(run[w])'
          BY <3>3 DEF Told
        <4> QED BY <3>1, <3>3, <4>1 DEF Owed
      <3>4. CASE Told(run'[w]) /\ UNCHANGED doc /\ Told(run[w]) /\ doc[d].text # "kept"
        <4>1. Owed(d) /\ ~Stranded(d)
          BY <1>4, <3>1, <3>4 DEF ExtractionInv, EachIsOwed, Live, Stranded
        <4>2. ASSUME NEW v \in Workers, run[v].at \in Early, Doc(v) = d
              PROVE  run'[v].at \in Early /\ Doc(v)' = d
          BY <1>3, <3>4, <4>2 DEF Told, Early, Late
        <4>3. CASE \E v \in Workers : run[v].at \in Early /\ Doc(v) = d
          BY <4>2, <4>3 DEF Owed
        <4> QED BY <1>2, <3>4, <4>1, <4>3 DEF Owed
      <3> QED BY <1>4, <2>2, <3>1, <3>2, <3>3, <3>4
    <2> QED BY <2>1, <2>2
  <1>5. EachIsOwed'
    BY <1>4 DEF EachIsOwed
  <1>6. ProposedWhole'
    <2>1. SUFFICES ASSUME NEW p \in proposals', <<p[1], p[2]>> \notin torn'
                   PROVE  /\ phase[p[1]] \notin {"absent", "queued", "failed"} /\ p[2] = taken[p[1]]
                          /\ \A v \in Workers : run'[v].at # "idle" /\ run'[v].job = p[1] => Whole(run'[v])
      <3>1. \A p \in proposals' : p \in proposals => phase[p[1]] # "absent"
        BY DEF ExtractionInv, ProposedWhole
      <3>2. phase[run[w].job] # "absent"
        BY RunHasJob DEF ExtractionInv
      <3> QED BY <1>2, <3>1, <3>2 DEF ProposedWhole, Whole
    <2>2. phase[run[w].job] = "processing" /\ Attempt(w) = taken[run[w].job]
      BY RunHasJob DEF ExtractionInv, Attempt
    <2>3. CASE p \in proposals
      <3>1. /\ phase[p[1]] \notin {"absent", "queued", "failed"} /\ p[2] = taken[p[1]]
            /\ \A v \in Workers : run[v].at # "idle" /\ run[v].job = p[1] => Whole(run[v])
        BY <2>1, <2>3 DEF ExtractionInv, ProposedWhole
      <3>2. ASSUME NEW v \in Workers, run'[v].at # "idle", run'[v].job = p[1] PROVE Whole(run'[v])
        <4>1. CASE v = w
          BY <1>3, <2>1, <2>2, <3>1, <3>2, <4>1
        <4>2. CASE v # w
          BY <1>3, <3>1, <3>2, <4>2
        <4> QED BY <4>1, <4>2
      <3> QED BY <3>1, <3>2
    <2>4. CASE p[1] = run[w].job /\ p[2] = Attempt(w) /\ Whole(run'[w])
      <3>1. ASSUME NEW v \in Workers, run'[v].at # "idle", run'[v].job = p[1] PROVE v = w
        <4>1. CASE v # w
          <5>1. <<v, run[v].job>> \in inHand /\ <<w, run[w].job>> \in inHand /\ run[v].job = run[w].job
            BY <1>3, <2>4, <3>1, <4>1, RunHasJob DEF ExtractionInv
          <5>2. run[w].job \in JobIds
            BY RunHasJob DEF ExtractionInv
          <5> QED BY <5>1, <5>2 DEF ExtractionInv, ExtractionTyped, RunsTyped
        <4> QED BY <4>1
      <3> QED BY <2>2, <2>4, <3>1
    <2> QED BY <2>3, <2>4
  <1> QED BY <1>1, <1>5, <1>6 DEF ExtractionInv

\* Each statement of the handler answers its document or leaves it owed.
LEMMA ReadDocumentKeeps ==
  ASSUME ExtractionInv, NEW w \in Workers, ReadDocument(w)
  PROVE  ExtractionInv'
  <1>1. ExtractionTyped /\ links \subseteq Docs /\ usage \in Nat /\ admitted \in Nat /\ raced \in Nat
        /\ proposals \subseteq JobIds \X Nat \X Nat /\ torn \subseteq JobIds \X Nat /\ run[w] \in RunRow
    BY DEF ExtractionInv, ExtractionTyped, TablesTyped, RunsTyped
  <1>2. run[w].at # "idle"
    BY ReadDocumentDoes, <1>1
  <1> QED
    BY <1>1, <1>2, ReadDocumentDoes, RunKeeps, RunHasJob
    DEF RunRow, Busy, Early, Late, Told, Whole

LEMMA MarkProcessingKeeps ==
  ASSUME ExtractionInv, NEW w \in Workers, MarkProcessing(w)
  PROVE  ExtractionInv'
  <1>1. ExtractionTyped /\ links \subseteq Docs /\ usage \in Nat /\ admitted \in Nat /\ raced \in Nat
        /\ proposals \subseteq JobIds \X Nat \X Nat /\ torn \subseteq JobIds \X Nat /\ run[w] \in RunRow
    BY DEF ExtractionInv, ExtractionTyped, TablesTyped, RunsTyped
  <1>2. run[w].at # "idle"
    BY MarkProcessingDoes, <1>1
  <1> QED
    BY <1>1, <1>2, MarkProcessingDoes, RunKeeps, RunHasJob
    DEF RunRow, Busy, Early, Late, Told, Whole

LEMMA ReadBytesKeeps ==
  ASSUME ExtractionInv, NEW w \in Workers, ReadBytes(w)
  PROVE  ExtractionInv'
  <1>1. ExtractionTyped /\ links \subseteq Docs /\ usage \in Nat /\ admitted \in Nat /\ raced \in Nat
        /\ proposals \subseteq JobIds \X Nat \X Nat /\ torn \subseteq JobIds \X Nat /\ run[w] \in RunRow
    BY DEF ExtractionInv, ExtractionTyped, TablesTyped, RunsTyped
  <1>2. run[w].at # "idle"
    BY ReadBytesDoes, <1>1
  <1> QED
    BY <1>1, <1>2, ReadBytesDoes, RunKeeps, RunHasJob
    DEF Results, RunRow, Busy, Early, Late, Told, Whole

LEMMA UnreadableKeeps ==
  ASSUME ExtractionInv, NEW w \in Workers, Unreadable(w)
  PROVE  ExtractionInv'
  <1>1. ExtractionTyped /\ links \subseteq Docs /\ usage \in Nat /\ admitted \in Nat /\ raced \in Nat
        /\ proposals \subseteq JobIds \X Nat \X Nat /\ torn \subseteq JobIds \X Nat /\ run[w] \in RunRow
    BY DEF ExtractionInv, ExtractionTyped, TablesTyped, RunsTyped
  <1>2. run[w].at # "idle"
    BY UnreadableDoes, <1>1
  <1> QED
    BY <1>1, <1>2, UnreadableDoes, RunKeeps, RunHasJob
    DEF RunRow, Busy, Early, Late, Told, Whole

LEMMA UnsupportedKeeps ==
  ASSUME ExtractionInv, NEW w \in Workers, Unsupported(w)
  PROVE  ExtractionInv'
  <1>1. ExtractionTyped /\ links \subseteq Docs /\ usage \in Nat /\ admitted \in Nat /\ raced \in Nat
        /\ proposals \subseteq JobIds \X Nat \X Nat /\ torn \subseteq JobIds \X Nat /\ run[w] \in RunRow
    BY DEF ExtractionInv, ExtractionTyped, TablesTyped, RunsTyped
  <1>2. run[w].at # "idle"
    BY UnsupportedDoes, <1>1
  <1> QED
    BY <1>1, <1>2, UnsupportedDoes, RunKeeps, RunHasJob
    DEF RunRow, Busy, Early, Late, Told, Whole

LEMMA NoTextKeeps ==
  ASSUME ExtractionInv, NEW w \in Workers, NoText(w)
  PROVE  ExtractionInv'
  <1>1. ExtractionTyped /\ links \subseteq Docs /\ usage \in Nat /\ admitted \in Nat /\ raced \in Nat
        /\ proposals \subseteq JobIds \X Nat \X Nat /\ torn \subseteq JobIds \X Nat /\ run[w] \in RunRow
    BY DEF ExtractionInv, ExtractionTyped, TablesTyped, RunsTyped
  <1>2. run[w].at # "idle"
    BY NoTextDoes, <1>1
  <1> QED
    BY <1>1, <1>2, NoTextDoes, RunKeeps, RunHasJob
    DEF RunRow, Busy, Early, Late, Told, Whole

LEMMA KeepTextKeeps ==
  ASSUME ExtractionInv, NEW w \in Workers, KeepText(w)
  PROVE  ExtractionInv'
  <1>1. ExtractionTyped /\ links \subseteq Docs /\ usage \in Nat /\ admitted \in Nat /\ raced \in Nat
        /\ proposals \subseteq JobIds \X Nat \X Nat /\ torn \subseteq JobIds \X Nat /\ run[w] \in RunRow
    BY DEF ExtractionInv, ExtractionTyped, TablesTyped, RunsTyped
  <1>2. run[w].at # "idle"
    BY KeepTextDoes, <1>1
  <1> QED
    BY <1>1, <1>2, KeepTextDoes, RunKeeps, RunHasJob
    DEF RunRow, Busy, Early, Late, Told, Whole

LEMMA ReadUsageKeeps ==
  ASSUME ExtractionInv, NEW w \in Workers, ReadUsage(w)
  PROVE  ExtractionInv'
  <1>1. ExtractionTyped /\ links \subseteq Docs /\ usage \in Nat /\ admitted \in Nat /\ raced \in Nat
        /\ proposals \subseteq JobIds \X Nat \X Nat /\ torn \subseteq JobIds \X Nat /\ run[w] \in RunRow
    BY DEF ExtractionInv, ExtractionTyped, TablesTyped, RunsTyped
  <1>2. run[w].at # "idle"
    BY ReadUsageDoes, <1>1
  <1> QED
    BY <1>1, <1>2, ReadUsageDoes, RunKeeps, RunHasJob
    DEF RunRow, Busy, Early, Late, Told, Whole

LEMMA CountUsageKeeps ==
  ASSUME ExtractionInv, NEW w \in Workers, CountUsage(w)
  PROVE  ExtractionInv'
  <1>1. ExtractionTyped /\ links \subseteq Docs /\ usage \in Nat /\ admitted \in Nat /\ raced \in Nat
        /\ proposals \subseteq JobIds \X Nat \X Nat /\ torn \subseteq JobIds \X Nat /\ run[w] \in RunRow
    BY DEF ExtractionInv, ExtractionTyped, TablesTyped, RunsTyped
  <1>2. run[w].at # "idle"
    BY CountUsageDoes, <1>1
  <1>3. usage' \in Nat /\ admitted' \in Nat /\ raced' \in Nat
    BY <1>1, CountUsageDoes DEF RunRow
  <1> QED
    BY <1>1, <1>2, <1>3, CountUsageDoes, RunKeeps, RunHasJob
    DEF RunRow, Busy, Early, Late, Told, Whole

LEMMA UsageConflictKeeps ==
  ASSUME ExtractionInv, NEW w \in Workers, UsageConflict(w)
  PROVE  ExtractionInv'
  <1>1. ExtractionTyped /\ links \subseteq Docs /\ usage \in Nat /\ admitted \in Nat /\ raced \in Nat
        /\ proposals \subseteq JobIds \X Nat \X Nat /\ torn \subseteq JobIds \X Nat /\ run[w] \in RunRow
    BY DEF ExtractionInv, ExtractionTyped, TablesTyped, RunsTyped
  <1>2. run[w].at # "idle"
    BY UsageConflictDoes, <1>1
  <1> QED
    BY <1>1, <1>2, UsageConflictDoes, RunKeeps, RunHasJob
    DEF RunRow, Busy, Early, Late, Told, Whole

LEMMA AskModelKeeps ==
  ASSUME ExtractionInv, NEW w \in Workers, AskModel(w)
  PROVE  ExtractionInv'
  <1>1. ExtractionTyped /\ links \subseteq Docs /\ usage \in Nat /\ admitted \in Nat /\ raced \in Nat
        /\ proposals \subseteq JobIds \X Nat \X Nat /\ torn \subseteq JobIds \X Nat /\ run[w] \in RunRow
    BY DEF ExtractionInv, ExtractionTyped, TablesTyped, RunsTyped
  <1>2. run[w].at # "idle"
    BY AskModelDoes, <1>1
  <1> QED
    BY <1>1, <1>2, AskModelDoes, RunKeeps, RunHasJob
    DEF RunRow, Busy, Early, Late, Told, Whole

LEMMA ParkKeeps ==
  ASSUME ExtractionInv, NEW w \in Workers, Park(w)
  PROVE  ExtractionInv'
  <1>1. ExtractionTyped /\ links \subseteq Docs /\ usage \in Nat /\ admitted \in Nat /\ raced \in Nat
        /\ proposals \subseteq JobIds \X Nat \X Nat /\ torn \subseteq JobIds \X Nat /\ run[w] \in RunRow
    BY DEF ExtractionInv, ExtractionTyped, TablesTyped, RunsTyped
  <1>2. run[w].at # "idle"
    BY ParkDoes, <1>1
  <1> QED
    BY <1>1, <1>2, ParkDoes, RunKeeps, RunHasJob
    DEF RunRow, Busy, Early, Late, Told, Whole

LEMMA ProposeKeeps ==
  ASSUME ExtractionInv, NEW w \in Workers, Propose(w)
  PROVE  ExtractionInv'
  <1>1. ExtractionTyped /\ links \subseteq Docs /\ usage \in Nat /\ admitted \in Nat /\ raced \in Nat
        /\ proposals \subseteq JobIds \X Nat \X Nat /\ torn \subseteq JobIds \X Nat /\ run[w] \in RunRow
    BY DEF ExtractionInv, ExtractionTyped, TablesTyped, RunsTyped
  <1>2. run[w].at # "idle"
    BY ProposeDoes, <1>1
  <1> DEFINE p == <<run[w].job, Attempt(w), run[w].item>>
  <1>3. p \in JobIds \X Nat \X Nat /\ p[1] = run[w].job /\ p[2] = Attempt(w)
    <2>1. run[w].job \in JobIds /\ Attempt(w) \in Nat
      BY <1>1, <1>2, RunHasJob
    <2>2. run[w].item \in Nat
      <3>1. run[w].item \in 0..Found /\ Found \in Nat
        BY <1>1, ExtractionAssumption DEF RunRow
      <3> QED BY <3>1
    <2> HIDE DEF Attempt
    <2> QED BY <2>1, <2>2
  <1>4. proposals' = proposals \cup {p}
    BY <1>1, ProposeDoes
  <1> HIDE DEF p
  <1>5. /\ proposals' \subseteq JobIds \X Nat \X Nat /\ Whole(run'[w])
        /\ \A q \in proposals' : q \in proposals \/ (q[1] = run[w].job /\ q[2] = Attempt(w) /\ Whole(run'[w]))
    BY <1>1, <1>3, <1>4, ProposeDoes DEF Whole
  <1> QED
    BY <1>1, <1>2, <1>5, ProposeDoes, RunKeeps, RunHasJob
    DEF RunRow, Busy, Early, Late, Told

LEMMA ProposalThrowsKeeps ==
  ASSUME ExtractionInv, NEW w \in Workers, ProposalThrows(w)
  PROVE  ExtractionInv'
  <1>1. ExtractionTyped /\ links \subseteq Docs /\ usage \in Nat /\ admitted \in Nat /\ raced \in Nat
        /\ proposals \subseteq JobIds \X Nat \X Nat /\ torn \subseteq JobIds \X Nat /\ run[w] \in RunRow
    BY DEF ExtractionInv, ExtractionTyped, TablesTyped, RunsTyped
  <1>2. run[w].at # "idle"
    BY ProposalThrowsDoes, <1>1
  <1>3. torn' \subseteq JobIds \X Nat /\ torn \subseteq torn' /\ <<run[w].job, Attempt(w)>> \in torn'
    <2>1. run[w].job \in JobIds /\ Attempt(w) \in Nat
      BY <1>1, <1>2, RunHasJob
    <2>2. torn' = torn \cup {<<run[w].job, Attempt(w)>>}
      BY <1>1, ProposalThrowsDoes
    <2> QED BY <1>1, <2>1, <2>2
  <1>4. /\ RunMoves(w) /\ RowMoves(Doc(w)) /\ RunsLeave /\ run'[w].at # "idle"
        /\ UNCHANGED <<links, proposals, usage, admitted, raced>> /\ UNCHANGED doc
        /\ Told(run'[w]) /\ Told(run[w])
    BY <1>1, ProposalThrowsDoes DEF Told, Late
  <1> QED BY <1>1, <1>2, <1>3, <1>4, RunKeeps

LEMMA CompleteKeeps ==
  ASSUME ExtractionInv, NEW w \in Workers, Complete(w)
  PROVE  ExtractionInv'
  <1>1. ExtractionTyped /\ links \subseteq Docs /\ usage \in Nat /\ admitted \in Nat /\ raced \in Nat
        /\ proposals \subseteq JobIds \X Nat \X Nat /\ torn \subseteq JobIds \X Nat /\ run[w] \in RunRow
    BY DEF ExtractionInv, ExtractionTyped, TablesTyped, RunsTyped
  <1>2. run[w].at # "idle"
    BY CompleteDoes, <1>1
  <1> QED
    BY <1>1, <1>2, CompleteDoes, RunKeeps, RunHasJob
    DEF RunRow, Busy, Early, Late, Told, Whole

-----------------------------------------------------------------------------
(* The queue's side of a run.                                              *)

\* A job is taken by a worker that has none, and its run has all to do.
LEMMA TakeDoes ==
  ASSUME ExtractionTyped, NEW w \in Workers, NEW j \in JobIds, Take(w, j)
  PROVE  /\ phase[j] = "queued" /\ run[w].at = "idle"
         /\ phase' \in [JobIds -> Phases] /\ phase'[j] = "processing"
         /\ \A k \in JobIds : k # j => phase'[k] = phase[k]
         /\ taken' \in [JobIds -> Nat] /\ inHand' = inHand \cup {<<w, j>>}
         /\ \A k \in JobIds : k # j => taken'[k] = taken[k]
         /\ \A v \in Workers : <<v, j>> \notin inHand
         /\ run' \in [Workers -> RunRow] /\ run'[w].at = "read" /\ run'[w].job = j
         /\ \A v \in Workers : v # w => run'[v] = run[v]
         /\ UNCHANGED <<payload, doc, confirmed, bytes, links, proposals, usage, admitted, request, crossed, torn, raced>>
  <1> DEFINE x == [NoRun EXCEPT !.at = "read", !.job = j]
  <1>1. Queue!Take(w, j) /\ run' = [run EXCEPT ![w] = x]
    BY DEF Take
  <1>2. /\ phase[j] = "queued" /\ phase' = [phase EXCEPT ![j] = "processing"]
        /\ taken' = [taken EXCEPT ![j] = @ + 1] /\ inHand' = inHand \cup {<<w, j>>}
        /\ \A p \in inHand : p[1] # w /\ p[2] # j
    BY <1>1 DEF Queue!Take
  <1>3. x \in RunRow /\ x.at = "read" /\ x.job = j
    BY NoRunFits DEF RunRow, RunPoints
  <1> HIDE DEF x
  <1>4. /\ phase \in [JobIds -> Phases] /\ taken \in [JobIds -> Nat] /\ run \in [Workers -> RunRow]
    BY DEF ExtractionTyped, QueueTyped, RunsTyped
  <1>5. /\ phase' \in [JobIds -> Phases] /\ phase'[j] = "processing"
        /\ \A k \in JobIds : k # j => phase'[k] = phase[k]
    BY <1>2, <1>4 DEF Phases
  <1>6. taken' \in [JobIds -> Nat] /\ \A k \in JobIds : k # j => taken'[k] = taken[k]
    BY <1>2, <1>4
  <1>7. /\ run' \in [Workers -> RunRow] /\ run'[w].at = "read" /\ run'[w].job = j
        /\ \A v \in Workers : v # w => run'[v] = run[v]
    BY <1>1, <1>3, <1>4
  <1>8. run[w].at = "idle"
    <2>1. CASE run[w].at # "idle"
      <3>1. <<w, run[w].job>> \in inHand
        BY <2>1 DEF ExtractionTyped, RunsTyped
      <3> QED BY <1>2, <3>1
    <2> QED BY <2>1
  <1>9. \A v \in Workers : <<v, j>> \notin inHand
    BY <1>2
  <1> QED BY <1>2, <1>5, <1>6, <1>7, <1>8, <1>9 DEF Take, noted

LEMMA TakeKeeps ==
  ASSUME ExtractionInv, NEW w \in Workers, NEW j \in JobIds, Take(w, j)
  PROVE  ExtractionInv'
  <1>1. /\ phase[j] = "queued" /\ run[w].at = "idle"
        /\ phase' \in [JobIds -> Phases] /\ phase'[j] = "processing"
        /\ \A k \in JobIds : k # j => phase'[k] = phase[k]
        /\ taken' \in [JobIds -> Nat] /\ inHand' = inHand \cup {<<w, j>>}
        /\ \A k \in JobIds : k # j => taken'[k] = taken[k]
        /\ \A v \in Workers : <<v, j>> \notin inHand
        /\ run' \in [Workers -> RunRow] /\ run'[w].at = "read" /\ run'[w].job = j
        /\ \A v \in Workers : v # w => run'[v] = run[v]
        /\ UNCHANGED <<payload, doc, confirmed, bytes, links, proposals, usage, admitted, request, crossed, torn, raced>>
    BY TakeDoes DEF ExtractionInv
  <1>2. QueueTyped' /\ TablesTyped' /\ RequestsTyped'
    BY <1>1 DEF ExtractionInv, ExtractionTyped, QueueTyped, TablesTyped, RequestsTyped
  <1>3. RunsTyped'
    <2>1. \A v \in Workers : run'[v].at # "idle" => <<v, run'[v].job>> \in inHand'
      BY <1>1 DEF ExtractionInv, ExtractionTyped, RunsTyped
    <2>2. ASSUME NEW v \in Workers, NEW k \in JobIds, <<v, k>> \in inHand'
          PROVE  phase'[k] = "processing" /\ run'[v].at # "idle" /\ run'[v].job = k
      <3>1. CASE v = w /\ k = j
        BY <1>1, <3>1
      <3>2. CASE <<v, k>> \in inHand
        <4>1. phase[k] = "processing" /\ run[v].at # "idle" /\ run[v].job = k
          BY <3>2 DEF ExtractionInv, ExtractionTyped, RunsTyped
        <4> QED BY <1>1, <4>1
      <3> QED BY <1>1, <2>2, <3>1, <3>2
    <2>3. \A u, v \in Workers : \A k \in JobIds : <<u, k>> \in inHand' /\ <<v, k>> \in inHand' => u = v
      BY <1>1 DEF ExtractionInv, ExtractionTyped, RunsTyped
    <2> QED BY <1>1, <2>1, <2>2, <2>3 DEF RunsTyped
  <1>4. ASSUME NEW d \in Docs, Live(d)', doc'[d].status \in Busy PROVE Owed(d)'
    <2>1. Owed(d)
      BY <1>1, <1>4 DEF ExtractionInv, EachIsOwed, Live
    <2>2. ASSUME NEW v \in Workers, run[v].at # "idle", Doc(v) = d
          PROVE  run'[v] = run[v] /\ Doc(v)' = d
      BY <1>1, <2>2 DEF Doc
    <2>3. CASE payload[j] = d
      <3>1. run'[w].at \in Early /\ Doc(w)' = d
        BY <1>1, <2>3 DEF Early, Doc
      <3> QED BY <3>1 DEF Owed
    <2>4. CASE \E k \in JobIds : k # j /\ payload[k] = d /\ phase[k] \in {"queued", "processing"}
                                 /\ \A v \in Workers : <<v, k>> \notin inHand
      BY <1>1, <2>4 DEF Owed
    <2>5. CASE \E k \in JobIds : k # j /\ payload[k] = d /\ phase[k] = "queued"
      BY <1>1, <2>5 DEF Owed
    <2>6. CASE \E v \in Workers : run[v].at \in Early /\ Doc(v) = d
      BY <2>2, <2>6 DEF Owed, Early
    <2>7. CASE doc[d].text = "kept" /\ \E v \in Workers : Told(run[v]) /\ Doc(v) = d
      <3>1. PICK v \in Workers : Told(run[v]) /\ Doc(v) = d
        BY <2>7
      <3>2. Told(run[v])' /\ Doc(v)' = d
        BY <2>2, <3>1 DEF Told, Late
      <3> QED BY <1>1, <2>7, <3>2 DEF Owed
    <2>8. CASE Stranded(d)
      <3>1. Stranded(d)'
        BY <1>1, <2>8 DEF Stranded
      <3> QED BY <3>1 DEF Owed
    <2> QED BY <1>1, <2>1, <2>3, <2>4, <2>5, <2>6, <2>7, <2>8 DEF Owed
  <1>5. EachIsOwed'
    BY <1>4 DEF EachIsOwed
  <1>6. ProposedWhole'
    <2>1. ASSUME NEW p \in proposals, <<p[1], p[2]>> \notin torn
          PROVE  /\ phase'[p[1]] \notin {"queued", "failed"} /\ p[2] = taken'[p[1]]
                 /\ \A v \in Workers : run'[v].at # "idle" /\ run'[v].job = p[1] => Whole(run'[v])
      <3>1. /\ phase[p[1]] \notin {"queued", "failed"} /\ p[2] = taken[p[1]] /\ p[1] \in JobIds
            /\ \A v \in Workers : run[v].at # "idle" /\ run[v].job = p[1] => Whole(run[v])
        BY <2>1 DEF ExtractionInv, ProposedWhole, ExtractionTyped, TablesTyped
      <3> QED BY <1>1, <3>1
    <2>2. \A p \in proposals : phase'[p[1]] # "absent"
      BY <1>1 DEF ExtractionInv, ProposedWhole, ExtractionTyped, TablesTyped
    <2> QED BY <1>1, <2>1, <2>2 DEF ProposedWhole, Whole
  <1> QED BY <1>2, <1>3, <1>5, <1>6 DEF ExtractionInv, ExtractionTyped

\* What becomes of the job when a run ends: settled, or left where it is.
LEMMA EndKeeps ==
  ASSUME ExtractionInv, NEW w \in Workers, run[w].at # "idle",
         NEW s \in {"completed", "requires_review", "queued", "failed", "processing"},
         phase' = [phase EXCEPT ![run[w].job] = s],
         inHand' = inHand \ {<<w, run[w].job>>}, run' = [run EXCEPT ![w] = NoRun],
         UNCHANGED <<taken, payload, doc, confirmed, bytes, links, proposals, usage, admitted, request, crossed, torn, raced>>,
         s = "processing" \/ run[w].at = "finish",
         Told(run[w]) => s \in {"queued", "failed", "processing"},
         s \in {"queued", "failed"} => ~Whole(run[w])
  PROVE  ExtractionInv'
  <1> DEFINE j == run[w].job
  <1>1. /\ j \in JobIds /\ phase[j] = "processing" /\ <<w, j>> \in inHand
        /\ run \in [Workers -> RunRow] /\ phase \in [JobIds -> Phases]
        /\ \A v \in Workers : <<v, j>> \in inHand => v = w
    BY RunHasJob DEF ExtractionInv, ExtractionTyped, RunsTyped, QueueTyped
  <1>2. /\ phase' \in [JobIds -> Phases] /\ phase'[j] = s
        /\ \A k \in JobIds : k # j => phase'[k] = phase[k]
    BY <1>1 DEF Phases
  <1>3. /\ run' \in [Workers -> RunRow] /\ run'[w] = NoRun /\ NoRun.at = "idle"
        /\ \A v \in Workers : v # w => run'[v] = run[v]
    BY <1>1, NoRunFits
  <1>4. /\ inHand' = inHand \ {<<w, j>>} /\ \A v \in Workers : <<v, j>> \notin inHand'
        /\ \A v \in Workers : \A k \in JobIds : v # w /\ <<v, k>> \in inHand => <<v, k>> \in inHand' /\ k # j
    BY <1>1
  <1>5. QueueTyped' /\ TablesTyped' /\ RequestsTyped'
    BY <1>1, <1>2, <1>4 DEF ExtractionInv, ExtractionTyped, QueueTyped, TablesTyped, RequestsTyped
  <1> HIDE DEF j
  <1>6. RunsTyped'
    <2>1. \A v \in Workers : run'[v].at # "idle" => <<v, run'[v].job>> \in inHand'
      <3>1. SUFFICES ASSUME NEW v \in Workers, run'[v].at # "idle" PROVE <<v, run'[v].job>> \in inHand'
        OBVIOUS
      <3>2. v # w /\ run'[v] = run[v] /\ run[v].job \in JobIds /\ <<v, run[v].job>> \in inHand
        BY <1>3, <3>1, RunHasJob DEF ExtractionInv
      <3> QED BY <1>4, <3>2
    <2>2. ASSUME NEW v \in Workers, NEW k \in JobIds, <<v, k>> \in inHand'
          PROVE  phase'[k] = "processing" /\ run'[v].at # "idle" /\ run'[v].job = k
      <3>1. <<v, k>> \in inHand /\ phase[k] = "processing" /\ run[v].at # "idle" /\ run[v].job = k
        BY <1>4, <2>2 DEF ExtractionInv, ExtractionTyped, RunsTyped
      <3>2. v # w
        BY <1>4, <2>2, <3>1 DEF j
      <3> QED BY <1>2, <1>3, <1>4, <3>1, <3>2
    <2>3. \A u, v \in Workers : \A k \in JobIds : <<u, k>> \in inHand' /\ <<v, k>> \in inHand' => u = v
      BY <1>4 DEF ExtractionInv, ExtractionTyped, RunsTyped
    <2> QED BY <1>3, <2>1, <2>2, <2>3 DEF RunsTyped
  <1>7. ASSUME NEW d \in Docs, Live(d)', doc'[d].status \in Busy PROVE Owed(d)'
    <2>1. Owed(d)
      BY <1>7 DEF ExtractionInv, EachIsOwed, Live
    <2>2. ASSUME NEW v \in Workers, v # w, Doc(v) = d PROVE run'[v] = run[v] /\ Doc(v)' = d
      BY <1>3, <2>2 DEF Doc
    <2>3. CASE \E k \in JobIds : payload[k] = d /\ phase[k] = "queued"
      BY <1>1, <1>2, <2>3 DEF Owed
    <2>4. CASE \E k \in JobIds : payload[k] = d /\ phase[k] = "processing" /\ \A v \in Workers : <<v, k>> \notin inHand
      <3>1. PICK k \in JobIds : payload[k] = d /\ phase[k] = "processing" /\ \A v \in Workers : <<v, k>> \notin inHand
        BY <2>4
      <3>2. k # j
        BY <1>1, <3>1
      <3>3. payload'[k] = d /\ phase'[k] = "processing" /\ \A v \in Workers : <<v, k>> \notin inHand'
        BY <1>2, <1>4, <3>1, <3>2
      <3> QED BY <3>3 DEF Owed
    <2>5. CASE \E v \in Workers : v # w /\ run[v].at \in Early /\ Doc(v) = d
      BY <2>2, <2>5 DEF Owed
    <2>6. CASE doc[d].text = "kept" /\ \E v \in Workers : v # w /\ Told(run[v]) /\ Doc(v) = d
      <3>1. PICK v \in Workers : v # w /\ Told(run[v]) /\ Doc(v) = d
        BY <2>6
      <3>2. Told(run[v])' /\ Doc(v)' = d
        BY <2>2, <3>1 DEF Told
      <3> QED BY <2>6, <3>2 DEF Owed
    <2>7. CASE Stranded(d)
      <3>1. Stranded(d)'
        BY <1>1, <1>2, <2>7 DEF Stranded
      <3> QED BY <3>1 DEF Owed
    <2>8. CASE Doc(w) = d /\ (run[w].at \in Early \/ (Told(run[w]) /\ doc[d].text = "kept"))
      <3>1. payload'[j] = d /\ phase'[j] = s
        BY <1>2, <2>8 DEF Doc, j
      <3>2. CASE s = "queued"
        BY <1>1, <3>1, <3>2 DEF Owed
      <3>3. CASE s = "processing"
        BY <1>1, <1>4, <3>1, <3>3 DEF Owed
      <3>4. CASE s \notin {"queued", "processing"}
        <4>1. run[w].at \notin Early
          BY <3>4 DEF Early
        <4>2. s = "failed" /\ doc[d].text = "kept"
          BY <2>8, <3>4, <4>1
        <4>3. Stranded(d)'
          BY <1>1, <3>1, <4>2 DEF Stranded
        <4> QED BY <4>3 DEF Owed
      <3> QED BY <3>2, <3>3, <3>4
    <2>9. CASE \E r \in Requests : request[r].doc = d /\ request[r].at = "enqueue"
      BY <2>9 DEF Owed
    <2> QED BY <2>1, <2>3, <2>4, <2>5, <2>6, <2>7, <2>8, <2>9 DEF Owed
  <1>8. EachIsOwed'
    BY <1>7 DEF EachIsOwed
  <1>9. ProposedWhole'
    <2>1. ASSUME NEW p \in proposals, <<p[1], p[2]>> \notin torn
          PROVE  /\ phase'[p[1]] \notin {"queued", "failed"} /\ p[2] = taken[p[1]]
                 /\ \A v \in Workers : run'[v].at # "idle" /\ run'[v].job = p[1] => Whole(run'[v])
      <3>1. /\ phase[p[1]] \notin {"queued", "failed"} /\ p[2] = taken[p[1]] /\ p[1] \in JobIds
            /\ \A v \in Workers : run[v].at # "idle" /\ run[v].job = p[1] => Whole(run[v])
        BY <2>1 DEF ExtractionInv, ProposedWhole, ExtractionTyped, TablesTyped
      <3>2. p[1] = j => s \notin {"queued", "failed"}
        BY <3>1 DEF j
      <3>3. phase'[p[1]] \notin {"queued", "failed"}
        BY <1>2, <3>1, <3>2
      <3>4. ASSUME NEW v \in Workers, run'[v].at # "idle", run'[v].job = p[1] PROVE Whole(run'[v])
        BY <1>3, <3>1, <3>4
      <3> QED BY <3>1, <3>3, <3>4
    <2>2. \A p \in proposals : phase'[p[1]] # "absent"
      BY <1>2 DEF ExtractionInv, ProposedWhole, ExtractionTyped, TablesTyped
    <2> QED BY <2>1, <2>2 DEF ProposedWhole, Whole
  <1> QED BY <1>5, <1>6, <1>8, <1>9 DEF ExtractionInv, ExtractionTyped

LEMMA FinishKeeps ==
  ASSUME ExtractionInv, NEW w \in Workers, Finish(w)
  PROVE  ExtractionInv'
  <1> DEFINE s == SettledAs(w)
  <1>1. /\ run[w].at = "finish" /\ Queue!Settle(w, run[w].job, s) /\ run' = [run EXCEPT ![w] = NoRun]
        /\ UNCHANGED <<payload, doc, confirmed, bytes, links, proposals, usage, admitted, request, crossed, torn, raced>>
    BY DEF Finish, noted
  <1>2. run[w].verdict \in {"completed", "requires_review", "throw"}
    BY DEF ExtractionInv, ExtractionTyped, RunsTyped, RunRow, Verdicts
  <1>3. /\ s \in {"completed", "requires_review", "queued", "failed"}
        /\ run[w].verdict = "throw" => s \in {"queued", "failed"}
        /\ run[w].verdict # "throw" => s = run[w].verdict
    BY <1>2 DEF SettledAs
  <1> HIDE DEF s
  <1>4. phase' = [phase EXCEPT ![run[w].job] = s] /\ inHand' = inHand \ {<<w, run[w].job>>} /\ taken' = taken
    BY <1>1 DEF Queue!Settle
  <1>5. Told(run[w]) => s \in {"queued", "failed"}
    BY <1>1, <1>3 DEF Told, Late
  <1>6. s \in {"queued", "failed"} => ~Whole(run[w])
    BY <1>1, <1>2, <1>3 DEF Whole
  <1> QED BY <1>1, <1>3, <1>4, <1>5, <1>6, EndKeeps

LEMMA CrashKeeps ==
  ASSUME ExtractionInv, NEW w \in Workers, Crash(w)
  PROVE  ExtractionInv'
  <1>1. /\ run[w].at # "idle" /\ Queue!Abandon(w, run[w].job) /\ run' = [run EXCEPT ![w] = NoRun]
        /\ UNCHANGED <<payload, doc, confirmed, bytes, links, proposals, usage, admitted, request, crossed, torn, raced>>
    BY DEF Crash, noted
  <1>2. UNCHANGED <<phase, taken>> /\ inHand' = inHand \ {<<w, run[w].job>>}
    BY <1>1 DEF Queue!Abandon
  <1>3. phase[run[w].job] = "processing" /\ run[w].job \in JobIds /\ phase \in [JobIds -> Phases]
    BY <1>1, RunHasJob DEF ExtractionInv, ExtractionTyped, QueueTyped
  <1>4. phase' = [phase EXCEPT ![run[w].job] = "processing"]
    BY <1>2, <1>3
  <1> QED BY <1>1, <1>2, <1>4, EndKeeps

-----------------------------------------------------------------------------
(* What a user's request does: to its own row, and to its document's.      *)

AskMoves(r, d) ==
  /\ request' \in [Requests -> AskRow]
  /\ \/ request'[r].at = "idle" /\ request'[r].doc = NoDoc
     \/ request'[r].at # "idle" /\ request'[r].doc = d
  /\ \A q \in Requests : q # r => request'[q] = request[q]

RowChanges(d) ==
  /\ doc' \in [Docs -> DocRow] /\ doc'[d].kind = doc[d].kind
  /\ \A e \in Docs : e # d => doc'[e] = doc[e]

\* The queue, the runs and what they have made are not a request's.
AsksLeave == UNCHANGED <<queue, payload, run, proposals, usage, admitted, torn, raced>>

LEMMA AskHasDoc ==
  ASSUME ExtractionTyped, NEW r \in Requests, request[r].at # "idle"
  PROVE  request[r].doc \in Docs
  BY DEF ExtractionTyped, RequestsTyped

LEMMA EnterMoves ==
  ASSUME ExtractionTyped, NEW r \in Requests, NEW d \in Docs,
         NEW p \in RequestPoints \ {"idle"}, Enter(r, d, p)
  PROVE  AskMoves(r, d) /\ request[r].at = "idle" /\ request'[r].at = p /\ request'[r].doc = d
  <1> DEFINE x == [at |-> p, doc |-> d]
  <1>1. /\ request' = [request EXCEPT ![r] = x] /\ request[r].at = "idle"
        /\ request \in [Requests -> AskRow]
    BY DEF Enter, ExtractionTyped, RequestsTyped
  <1>2. x \in AskRow /\ x.at = p /\ x.doc = d
    BY DEF AskRow
  <1> HIDE DEF x
  <1> QED BY <1>1, <1>2 DEF AskMoves

LEMMA ThenMoves ==
  ASSUME ExtractionTyped, NEW r \in Requests, request[r].at # "idle",
         NEW p \in RequestPoints \ {"idle"}, Then(r, p)
  PROVE  AskMoves(r, request[r].doc) /\ request'[r].at = p /\ request'[r].doc = request[r].doc
  <1> DEFINE x == [request[r] EXCEPT !.at = p]
  <1>1. request' = [request EXCEPT ![r] = x] /\ request \in [Requests -> AskRow]
    BY DEF Then, ExtractionTyped, RequestsTyped
  <1>2. x \in AskRow /\ x.at = p /\ x.doc = request[r].doc
    BY <1>1 DEF AskRow
  <1> HIDE DEF x
  <1> QED BY <1>1, <1>2 DEF AskMoves

LEMMA LeaveMoves ==
  ASSUME ExtractionTyped, NEW r \in Requests, Leave(r)
  PROVE  /\ AskMoves(r, request[r].doc) /\ request'[r].at = "idle" /\ request'[r].doc = NoDoc
  <1>1. request' = [request EXCEPT ![r] = NoRequest] /\ request \in [Requests -> AskRow]
    BY DEF Leave, ExtractionTyped, RequestsTyped
  <1>2. NoRequest \in AskRow /\ NoRequest.at = "idle" /\ NoRequest.doc = NoDoc
    BY NoRunFits DEF NoRequest
  <1> HIDE DEF NoRequest
  <1> QED BY <1>1, <1>2 DEF AskMoves

LEMMA StoreBytesDoes ==
  ASSUME ExtractionTyped, NEW r \in Requests, NEW d \in Docs, StoreBytes(r, d)
  PROVE  /\ request[r].at = "idle" /\ AskMoves(r, d) /\ RowChanges(d) /\ AsksLeave
         /\ UNCHANGED <<doc, confirmed, links, crossed>> /\ bytes' = bytes \cup {d}
         /\ request'[r].at = "insert" /\ request'[r].doc = d /\ doc[d].life = "absent" /\ RequestsOn(d) = {}
  <1>1. Enter(r, d, "insert") /\ "insert" \in RequestPoints
    BY DEF StoreBytes, RequestPoints
  <1> QED BY <1>1, EnterMoves DEF StoreBytes, noted, AsksLeave, RowChanges, ExtractionTyped, TablesTyped

LEMMA AskDoes ==
  ASSUME ExtractionTyped, NEW r \in Requests, NEW d \in Docs,
         NEW p \in {"retype", "link", "requeue", "erase"}, Ask(r, d, p)
  PROVE  /\ request[r].at = "idle" /\ AskMoves(r, d) /\ RowChanges(d) /\ AsksLeave
         /\ UNCHANGED <<doc, confirmed, bytes, links, crossed>>
         /\ request'[r].at = p /\ request'[r].doc = d /\ Live(d)
  <1>1. Enter(r, d, p) /\ p \in RequestPoints \ {"idle"}
    BY DEF Ask, RequestPoints
  <1> QED BY <1>1, EnterMoves DEF Ask, noted, AsksLeave, RowChanges, ExtractionTyped, TablesTyped

LEMMA InsertDocumentDoes ==
  ASSUME ExtractionTyped, NEW r \in Requests, InsertDocument(r)
  PROVE  LET d == request[r].doc IN
         /\ request[r].at = "insert" /\ d \in Docs /\ AskMoves(r, d) /\ RowChanges(d) /\ AsksLeave
         /\ UNCHANGED <<confirmed, bytes, links, crossed>>
         /\ request'[r].at = "enqueue" /\ doc'[d].life = "live" /\ doc'[d].status = "queued"
         /\ doc'[d].text = "none" /\ doc'[d].type = "unknown"
  <1> DEFINE d == request[r].doc
             y == Row("live", doc[d].kind)
  <1>1. /\ request[r].at = "insert" /\ Then(r, "enqueue") /\ "enqueue" \in RequestPoints
        /\ doc' = [doc EXCEPT ![d] = y] /\ AsksLeave /\ UNCHANGED <<confirmed, bytes, links, crossed>>
    BY DEF InsertDocument, At, RequestPoints, AsksLeave, noted
  <1>2. d \in Docs /\ doc \in [Docs -> DocRow]
    BY <1>1, AskHasDoc DEF ExtractionTyped, TablesTyped
  <1>3. /\ y \in DocRow /\ y.life = "live" /\ y.status = "queued" /\ y.text = "none" /\ y.type = "unknown"
        /\ y.kind = doc[d].kind
    BY <1>2 DEF Row, DocRow, Statuses, Busy, Types
  <1> HIDE DEF y
  <1>4. AskMoves(r, d) /\ request'[r].at = "enqueue"
    BY <1>1, ThenMoves
  <1> QED BY <1>1, <1>2, <1>3, <1>4 DEF RowChanges

LEMMA RetypeDoes ==
  ASSUME ExtractionTyped, NEW r \in Requests, Retype(r)
  PROVE  LET d == request[r].doc IN
         /\ request[r].at = "retype" /\ d \in Docs /\ AskMoves(r, d) /\ RowChanges(d) /\ AsksLeave
         /\ UNCHANGED <<bytes, links>> /\ confirmed' = confirmed \cup {d}
         /\ request'[r].at = "idle"
         /\ crossed' = IF \E w \in RunsOn(d) : PastRead(w) /\ run[w].type # "chosen"
                       THEN crossed \cup {<<d, "choice">>} ELSE crossed \ {<<d, "choice">>}
         /\ doc'[d].type = "chosen"
         /\ doc'[d].life = doc[d].life /\ doc'[d].status = doc[d].status /\ doc'[d].text = doc[d].text
  <1> DEFINE d == request[r].doc
             y == [doc[d] EXCEPT !.type = "chosen"]
  <1>1. /\ request[r].at = "retype" /\ Leave(r) /\ "idle" \in RequestPoints
        /\ doc' = [doc EXCEPT ![d] = y]
        /\ AsksLeave /\ UNCHANGED <<bytes, links>> /\ confirmed' = confirmed \cup {d}
        /\ crossed' = IF \E w \in RunsOn(d) : PastRead(w) /\ run[w].type # "chosen"
                      THEN crossed \cup {<<d, "choice">>} ELSE crossed \ {<<d, "choice">>}
    BY DEF Retype, At, RequestPoints, AsksLeave
  <1>2. d \in Docs /\ doc \in [Docs -> DocRow]
    BY <1>1, AskHasDoc DEF ExtractionTyped, TablesTyped
  <1>3. AskMoves(r, d) /\ request'[r].at = "idle"
    BY <1>1, LeaveMoves
  <1>4. /\ y \in DocRow /\ y.type = "chosen"
        /\ y.life = doc[d].life /\ y.kind = doc[d].kind /\ y.status = doc[d].status /\ y.text = doc[d].text
    BY <1>2 DEF DocRow, Statuses, Busy, Types
  <1> HIDE DEF y
  <1> QED BY <1>1, <1>2, <1>3, <1>4 DEF RowChanges

LEMMA LinkDocumentDoes ==
  ASSUME ExtractionTyped, NEW r \in Requests, LinkDocument(r)
  PROVE  LET d == request[r].doc IN
         /\ request[r].at = "link" /\ d \in Docs /\ AskMoves(r, d) /\ RowChanges(d) /\ AsksLeave
         /\ UNCHANGED <<doc, confirmed, bytes, crossed>> /\ links' = links \cup {d}
         /\ request'[r].at = "idle"
  <1> DEFINE d == request[r].doc
  <1>1. /\ request[r].at = "link" /\ Leave(r) /\ "idle" \in RequestPoints
        /\ AsksLeave /\ UNCHANGED <<doc, confirmed, bytes, crossed>> /\ links' = links \cup {d}
    BY DEF LinkDocument, At, RequestPoints, AsksLeave, noted
  <1>2. d \in Docs /\ doc \in [Docs -> DocRow]
    BY <1>1, AskHasDoc DEF ExtractionTyped, TablesTyped
  <1>3. AskMoves(r, d) /\ request'[r].at = "idle"
    BY <1>1, LeaveMoves
  <1> QED BY <1>1, <1>2, <1>3 DEF RowChanges

LEMMA RequeueDoes ==
  ASSUME ExtractionTyped, NEW r \in Requests, Requeue(r)
  PROVE  LET d == request[r].doc IN
         /\ request[r].at = "requeue" /\ d \in Docs /\ AskMoves(r, d) /\ RowChanges(d) /\ AsksLeave
         /\ UNCHANGED <<confirmed, bytes, links, crossed>>
         /\ request'[r].at = "enqueue"
         /\ doc'[d].status = "queued"
         /\ doc'[d].life = doc[d].life /\ doc'[d].text = doc[d].text /\ doc'[d].type = doc[d].type
  <1> DEFINE d == request[r].doc
             y == [doc[d] EXCEPT !.status = "queued"]
  <1>1. /\ request[r].at = "requeue" /\ Then(r, "enqueue") /\ "enqueue" \in RequestPoints
        /\ doc' = [doc EXCEPT ![d] = y]
        /\ AsksLeave /\ UNCHANGED <<confirmed, bytes, links, crossed>>
    BY DEF Requeue, At, RequestPoints, AsksLeave, noted
  <1>2. d \in Docs /\ doc \in [Docs -> DocRow]
    BY <1>1, AskHasDoc DEF ExtractionTyped, TablesTyped
  <1>3. AskMoves(r, d) /\ request'[r].at = "enqueue"
    BY <1>1, ThenMoves
  <1>4. /\ y \in DocRow /\ y.status = "queued"
        /\ y.life = doc[d].life /\ y.kind = doc[d].kind /\ y.text = doc[d].text /\ y.type = doc[d].type
    BY <1>2 DEF DocRow, Statuses, Busy, Types
  <1> HIDE DEF y
  <1> QED BY <1>1, <1>2, <1>3, <1>4 DEF RowChanges

LEMMA EraseBytesDoes ==
  ASSUME ExtractionTyped, NEW r \in Requests, EraseBytes(r)
  PROVE  LET d == request[r].doc IN
         /\ request[r].at = "erase" /\ d \in Docs /\ AskMoves(r, d) /\ RowChanges(d) /\ AsksLeave
         /\ UNCHANGED <<doc, confirmed, links, crossed>> /\ bytes' = bytes \ {d}
         /\ request'[r].at = "delete"
  <1> DEFINE d == request[r].doc
  <1>1. /\ request[r].at = "erase" /\ Then(r, "delete") /\ "delete" \in RequestPoints
        /\ AsksLeave /\ UNCHANGED <<doc, confirmed, links, crossed>> /\ bytes' = bytes \ {d}
    BY DEF EraseBytes, At, RequestPoints, AsksLeave, noted
  <1>2. d \in Docs /\ doc \in [Docs -> DocRow]
    BY <1>1, AskHasDoc DEF ExtractionTyped, TablesTyped
  <1>3. AskMoves(r, d) /\ request'[r].at = "delete"
    BY <1>1, ThenMoves
  <1> QED BY <1>1, <1>2, <1>3 DEF RowChanges

LEMMA MarkDeletedDoes ==
  ASSUME ExtractionTyped, NEW r \in Requests, MarkDeleted(r)
  PROVE  LET d == request[r].doc IN
         /\ request[r].at = "delete" /\ d \in Docs /\ AskMoves(r, d) /\ RowChanges(d) /\ AsksLeave
         /\ UNCHANGED <<confirmed, bytes, links>>
         /\ request'[r].at = "unlink"
         /\ crossed' = IF (\E w \in RunsOn(d) : PastRead(w)) \/ (\E q \in RequestsOn(d) : At(q, "link"))
                       THEN crossed \cup {<<d, "deletion">>} ELSE crossed
         /\ doc'[d].life = "deleted"
         /\ doc'[d].text = "none"
         /\ doc'[d].status = doc[d].status /\ doc'[d].type = doc[d].type
  <1> DEFINE d == request[r].doc
             y == [doc[d] EXCEPT !.life = "deleted", !.text = "none"]
  <1>1. /\ request[r].at = "delete" /\ Then(r, "unlink") /\ "unlink" \in RequestPoints
        /\ doc' = [doc EXCEPT ![d] = y]
        /\ AsksLeave /\ UNCHANGED <<confirmed, bytes, links>>
        /\ crossed' = IF (\E w \in RunsOn(d) : PastRead(w)) \/ (\E q \in RequestsOn(d) : At(q, "link"))
                      THEN crossed \cup {<<d, "deletion">>} ELSE crossed
    BY DEF MarkDeleted, At, RequestPoints, AsksLeave, DeletedRow
  <1>2. d \in Docs /\ doc \in [Docs -> DocRow]
    BY <1>1, AskHasDoc DEF ExtractionTyped, TablesTyped
  <1>3. AskMoves(r, d) /\ request'[r].at = "unlink"
    BY <1>1, ThenMoves
  <1>4. /\ y \in DocRow /\ y.life = "deleted" /\ y.text = "none" /\ y.kind = doc[d].kind
        /\ y.status = doc[d].status /\ y.type = doc[d].type
    BY <1>2 DEF DocRow, Statuses, Busy, Types
  <1> HIDE DEF y
  <1> QED BY <1>1, <1>2, <1>3, <1>4 DEF RowChanges

LEMMA UnlinkDoes ==
  ASSUME ExtractionTyped, NEW r \in Requests, Unlink(r)
  PROVE  LET d == request[r].doc IN
         /\ request[r].at = "unlink" /\ d \in Docs /\ AskMoves(r, d) /\ RowChanges(d) /\ AsksLeave
         /\ UNCHANGED <<doc, confirmed, bytes, crossed>> /\ links' = links \ {d}
         /\ request'[r].at = "idle"
  <1> DEFINE d == request[r].doc
  <1>1. /\ request[r].at = "unlink" /\ Leave(r) /\ "idle" \in RequestPoints
        /\ AsksLeave /\ UNCHANGED <<doc, confirmed, bytes, crossed>> /\ links' = links \ {d}
    BY DEF Unlink, At, RequestPoints, AsksLeave, noted
  <1>2. d \in Docs /\ doc \in [Docs -> DocRow]
    BY <1>1, AskHasDoc DEF ExtractionTyped, TablesTyped
  <1>3. AskMoves(r, d) /\ request'[r].at = "idle"
    BY <1>1, LeaveMoves
  <1> QED BY <1>1, <1>2, <1>3 DEF RowChanges

\* A job is queued for the request's document.
LEMMA EnqueueDoes ==
  ASSUME ExtractionTyped, NEW r \in Requests, NEW j \in JobIds, Enqueue(r, j)
  PROVE  LET d == request[r].doc IN
         /\ request[r].at = "enqueue" /\ d \in Docs /\ AskMoves(r, d) /\ request'[r].at = "idle"
         /\ phase[j] = "absent" /\ phase' \in [JobIds -> Phases] /\ phase'[j] = "queued"
         /\ \A k \in JobIds : k # j => phase'[k] = phase[k]
         /\ taken' \in [JobIds -> Nat] /\ inHand' = inHand
         /\ \A k \in JobIds : k # j => taken'[k] = taken[k]
         /\ payload' \in [JobIds -> Docs \cup {NoDoc}] /\ payload'[j] = d
         /\ \A k \in JobIds : k # j => payload'[k] = payload[k]
         /\ UNCHANGED <<doc, confirmed, bytes, links, proposals, usage, admitted, run, crossed, torn, raced>>
  <1> DEFINE d == request[r].doc
  <1>1. /\ request[r].at = "enqueue" /\ Leave(r) /\ Queue!Submit(j)
        /\ payload' = [payload EXCEPT ![j] = d]
        /\ UNCHANGED <<doc, confirmed, bytes, links, proposals, usage, admitted, run, crossed, torn, raced>>
    BY DEF Enqueue, At, noted
  <1>2. /\ phase[j] = "absent" /\ phase' = [phase EXCEPT ![j] = "queued"]
        /\ taken' = [taken EXCEPT ![j] = 0] /\ inHand' = inHand
    BY <1>1 DEF Queue!Submit
  <1>3. d \in Docs
    BY <1>1, AskHasDoc
  <1>4. AskMoves(r, d) /\ request'[r].at = "idle"
    BY <1>1, LeaveMoves
  <1>5. /\ phase \in [JobIds -> Phases] /\ taken \in [JobIds -> Nat]
        /\ payload \in [JobIds -> Docs \cup {NoDoc}]
    BY DEF ExtractionTyped, QueueTyped
  <1> HIDE DEF d
  <1>6. /\ phase' \in [JobIds -> Phases] /\ phase'[j] = "queued"
        /\ \A k \in JobIds : k # j => phase'[k] = phase[k]
    BY <1>2, <1>5 DEF Phases
  <1>7. /\ payload' \in [JobIds -> Docs \cup {NoDoc}] /\ payload'[j] = d
        /\ \A k \in JobIds : k # j => payload'[k] = payload[k]
    BY <1>1, <1>3, <1>5
  <1>8. taken' \in [JobIds -> Nat] /\ \A k \in JobIds : k # j => taken'[k] = taken[k]
    BY <1>2, <1>5
  <1>9. request[r].at = "enqueue" /\ phase[j] = "absent" /\ inHand' = inHand
        /\ UNCHANGED <<doc, confirmed, bytes, links, proposals, usage, admitted, run, crossed, torn, raced>>
    BY <1>1, <1>2
  <1> QED BY <1>3, <1>4, <1>6, <1>7, <1>8, <1>9 DEF d

\* The rows of a request that has a document.
LEMMA AskTypes ==
  ASSUME ExtractionTyped, NEW r \in Requests, NEW d \in Docs, AskMoves(r, d)
  PROVE  RequestsTyped'
  <1>1. \A q \in Requests : request'[q].at # "idle" <=> request'[q].doc \in Docs
    BY ExtractionAssumption DEF AskMoves, ExtractionTyped, RequestsTyped
  <1> QED BY <1>1 DEF AskMoves, RequestsTyped

\* A request that leaves its document as it was, or with something owed to it.
LEMMA RequestKeeps ==
  ASSUME ExtractionInv, NEW r \in Requests, NEW d \in Docs, AskMoves(r, d), RowChanges(d), AsksLeave,
         request[r].at # "idle" => request[r].doc = d,
         confirmed' \subseteq Docs, bytes' \subseteq Docs, links' \subseteq Docs,
         crossed' \subseteq Docs \X {"choice", "deletion"},
         \/ doc'[d].life # "live" \/ request'[r].at = "enqueue"
         \/ /\ request[r].at # "enqueue"
            /\ doc'[d].life = doc[d].life /\ doc'[d].status = doc[d].status /\ doc'[d].text = doc[d].text
  PROVE  ExtractionInv'
  <1>1. UNCHANGED <<phase, taken, inHand, payload, run, proposals, usage, admitted, torn, raced>>
    BY DEF AsksLeave, queue
  <1>2. ExtractionTyped'
    <2>1. QueueTyped' /\ RunsTyped'
      BY <1>1 DEF ExtractionInv, ExtractionTyped, QueueTyped, RunsTyped
    <2>2. TablesTyped'
      BY <1>1 DEF ExtractionInv, ExtractionTyped, TablesTyped, RowChanges
    <2>3. RequestsTyped'
      BY AskTypes DEF ExtractionInv
    <2> QED BY <2>1, <2>2, <2>3 DEF ExtractionTyped
  <1>3. ASSUME NEW e \in Docs, Live(e)', doc'[e].status \in Busy PROVE Owed(e)'
    <2>1. CASE e = d /\ request'[r].at = "enqueue"
      <3>1. request'[r].doc = e
        BY <2>1 DEF AskMoves
      <3> QED BY <2>1, <3>1 DEF Owed
    <2>2. CASE ~(e = d /\ request'[r].at = "enqueue")
      <3>1. /\ doc'[e].life = doc[e].life /\ doc'[e].status = doc[e].status /\ doc'[e].text = doc[e].text
            /\ ~(request[r].doc = e /\ request[r].at = "enqueue")
        BY <1>3, <2>2 DEF RowChanges, Live
      <3>2. Owed(e)
        BY <1>3, <3>1 DEF Live, ExtractionInv, EachIsOwed
      <3>3. CASE \E q \in Requests : request[q].doc = e /\ request[q].at = "enqueue"
        BY <3>1, <3>3 DEF AskMoves, Owed
      <3>4. CASE \E w \in Workers : run[w].at \in Early /\ Doc(w) = e
        BY <1>1, <3>4 DEF Owed, Doc
      <3>5. CASE doc[e].text = "kept" /\ \E w \in Workers : Told(run[w]) /\ Doc(w) = e
        <4>1. PICK w \in Workers : Told(run[w]) /\ Doc(w) = e
          BY <3>5
        <4>2. Told(run[w])' /\ Doc(w)' = e
          BY <1>1, <4>1 DEF Told, Doc
        <4> QED BY <3>1, <3>5, <4>2 DEF Owed
      <3>6. CASE Stranded(e)
        <4>1. Stranded(e)'
          BY <1>1, <3>1, <3>6 DEF Stranded
        <4> QED BY <4>1 DEF Owed
      <3> QED BY <1>1, <3>2, <3>3, <3>4, <3>5, <3>6 DEF Owed
    <2> QED BY <2>1, <2>2
  <1>4. EachIsOwed'
    BY <1>3 DEF EachIsOwed
  <1>5. ProposedWhole'
    BY <1>1 DEF ExtractionInv, ProposedWhole, Whole
  <1> QED BY <1>2, <1>4, <1>5 DEF ExtractionInv

\* The job it queues owes the answer the request did.
LEMMA EnqueueKeeps ==
  ASSUME ExtractionInv, NEW r \in Requests, NEW j \in JobIds, Enqueue(r, j)
  PROVE  ExtractionInv'
  <1> DEFINE d == request[r].doc
  <1>1. /\ request[r].at = "enqueue" /\ d \in Docs /\ AskMoves(r, d) /\ request'[r].at = "idle"
        /\ phase[j] = "absent" /\ phase' \in [JobIds -> Phases] /\ phase'[j] = "queued"
        /\ \A k \in JobIds : k # j => phase'[k] = phase[k]
        /\ taken' \in [JobIds -> Nat] /\ inHand' = inHand
        /\ \A k \in JobIds : k # j => taken'[k] = taken[k]
        /\ payload' \in [JobIds -> Docs \cup {NoDoc}] /\ payload'[j] = d
        /\ \A k \in JobIds : k # j => payload'[k] = payload[k]
        /\ UNCHANGED <<doc, confirmed, bytes, links, proposals, usage, admitted, run, crossed, torn, raced>>
    BY EnqueueDoes DEF ExtractionInv
  <1> HIDE DEF d
  <1>2. QueueTyped' /\ TablesTyped'
    BY <1>1 DEF ExtractionInv, ExtractionTyped, QueueTyped, TablesTyped
  <1>3. RequestsTyped'
    BY <1>1, AskTypes DEF ExtractionInv
  <1>4. RunsTyped'
    BY <1>1 DEF ExtractionInv, ExtractionTyped, RunsTyped
  <1>5. ASSUME NEW w \in Workers, run[w].at # "idle"
        PROVE  run'[w] = run[w] /\ Doc(w)' = Doc(w) /\ run[w].job # j
    BY <1>1, <1>5, RunHasJob DEF Doc, ExtractionInv
  <1>6. ASSUME NEW e \in Docs, Live(e)', doc'[e].status \in Busy PROVE Owed(e)'
    <2>1. Owed(e)
      BY <1>1, <1>6 DEF ExtractionInv, EachIsOwed, Live
    <2>2. CASE e = d
      BY <1>1, <2>2 DEF Owed
    <2>3. CASE e # d /\ \E q \in Requests : request[q].doc = e /\ request[q].at = "enqueue"
      BY <1>1, <2>3 DEF Owed, AskMoves, d
    <2>4. CASE \E k \in JobIds : payload[k] = e /\ phase[k] = "queued"
      BY <1>1, <2>4 DEF Owed
    <2>5. CASE \E k \in JobIds : payload[k] = e /\ phase[k] = "processing" /\ \A w \in Workers : <<w, k>> \notin inHand
      BY <1>1, <2>5 DEF Owed
    <2>6. CASE \E w \in Workers : run[w].at \in Early /\ Doc(w) = e
      BY <1>5, <2>6 DEF Owed, Early
    <2>7. CASE doc[e].text = "kept" /\ \E w \in Workers : Told(run[w]) /\ Doc(w) = e
      <3>1. PICK w \in Workers : Told(run[w]) /\ Doc(w) = e
        BY <2>7
      <3>2. Told(run[w])' /\ Doc(w)' = e
        BY <1>5, <3>1 DEF Told, Late
      <3> QED BY <1>1, <2>7, <3>2 DEF Owed
    <2>8. CASE Stranded(e)
      <3>1. Stranded(e)'
        BY <1>1, <2>8 DEF Stranded
      <3> QED BY <3>1 DEF Owed
    <2> QED BY <2>1, <2>2, <2>3, <2>4, <2>5, <2>6, <2>7, <2>8 DEF Owed
  <1>7. EachIsOwed'
    BY <1>6 DEF EachIsOwed
  <1>8. ProposedWhole'
    <2>1. ASSUME NEW p \in proposals, <<p[1], p[2]>> \notin torn
          PROVE  /\ phase'[p[1]] \notin {"queued", "failed"} /\ p[2] = taken'[p[1]]
                 /\ \A v \in Workers : run'[v].at # "idle" /\ run'[v].job = p[1] => Whole(run'[v])
      <3>1. /\ phase[p[1]] \notin {"absent", "queued", "failed"} /\ p[2] = taken[p[1]] /\ p[1] \in JobIds
            /\ \A v \in Workers : run[v].at # "idle" /\ run[v].job = p[1] => Whole(run[v])
        BY <2>1 DEF ExtractionInv, ProposedWhole, ExtractionTyped, TablesTyped
      <3> QED BY <1>1, <3>1
    <2>2. \A p \in proposals : phase'[p[1]] # "absent"
      BY <1>1 DEF ExtractionInv, ProposedWhole, ExtractionTyped, TablesTyped
    <2> QED BY <1>1, <2>1, <2>2 DEF ProposedWhole, Whole
  <1> QED BY <1>2, <1>3, <1>4, <1>7, <1>8 DEF ExtractionInv, ExtractionTyped

LEMMA AskKeeps ==
  ASSUME ExtractionInv, NEW r \in Requests, NEW d \in Docs
  PROVE  /\ StoreBytes(r, d) => ExtractionInv'
         /\ \A p \in {"retype", "link", "requeue", "erase"} : Ask(r, d, p) => ExtractionInv'
  <1>1. ExtractionTyped /\ confirmed \subseteq Docs /\ bytes \subseteq Docs /\ links \subseteq Docs
        /\ crossed \subseteq Docs \X {"choice", "deletion"}
    BY DEF ExtractionInv, ExtractionTyped, TablesTyped
  <1>2. ASSUME StoreBytes(r, d) PROVE ExtractionInv'
    BY <1>1, <1>2, StoreBytesDoes, RequestKeeps
  <1>3. ASSUME NEW p \in {"retype", "link", "requeue", "erase"}, Ask(r, d, p) PROVE ExtractionInv'
    BY <1>1, <1>3, AskDoes, RequestKeeps
  <1> QED BY <1>2, <1>3

LEMMA RequestStepKeeps ==
  ASSUME ExtractionInv, NEW r \in Requests, RequestStep(r)
  PROVE  ExtractionInv'
  <1>1. ExtractionTyped /\ confirmed \subseteq Docs /\ bytes \subseteq Docs /\ links \subseteq Docs
        /\ crossed \subseteq Docs \X {"choice", "deletion"}
    BY DEF ExtractionInv, ExtractionTyped, TablesTyped
  <1>2. CASE InsertDocument(r)
    BY <1>1, <1>2, InsertDocumentDoes, RequestKeeps
  <1>3. CASE Retype(r)
    BY <1>1, <1>3, RetypeDoes, RequestKeeps
  <1>4. CASE LinkDocument(r)
    BY <1>1, <1>4, LinkDocumentDoes, RequestKeeps
  <1>5. CASE Requeue(r)
    BY <1>1, <1>5, RequeueDoes, RequestKeeps
  <1>6. CASE EraseBytes(r)
    BY <1>1, <1>6, EraseBytesDoes, RequestKeeps
  <1>7. CASE MarkDeleted(r)
    BY <1>1, <1>7, MarkDeletedDoes, RequestKeeps
  <1>8. CASE Unlink(r)
    BY <1>1, <1>8, UnlinkDoes, RequestKeeps
  <1>9. CASE \E j \in JobIds : Enqueue(r, j)
    BY <1>9, EnqueueKeeps
  <1> QED BY <1>2, <1>3, <1>4, <1>5, <1>6, <1>7, <1>8, <1>9 DEF RequestStep

LEMMA RunStepKeeps ==
  ASSUME ExtractionInv, NEW w \in Workers, RunStep(w)
  PROVE  ExtractionInv'
  BY ReadDocumentKeeps, MarkProcessingKeeps, ReadBytesKeeps, UnreadableKeeps, UnsupportedKeeps, NoTextKeeps, KeepTextKeeps,
     ReadUsageKeeps, CountUsageKeeps, UsageConflictKeeps, AskModelKeeps, ParkKeeps, ProposeKeeps, CompleteKeeps, FinishKeeps DEF RunStep

LEMMA ExtractionStarts == Init => ExtractionInv
  <1> SUFFICES ASSUME Init PROVE ExtractionInv
    OBVIOUS
  <1>1. /\ phase = [j \in JobIds |-> "absent"] /\ taken = [j \in JobIds |-> 0] /\ inHand = {}
    BY DEF Init, Queue!Init
  <1>2. QueueTyped
    BY <1>1 DEF Init, QueueTyped, Phases
  <1>3. TablesTyped
    BY DEF Init, TablesTyped, Row, DocRow, Statuses, Busy, Types
  <1>4. RequestsTyped
    <2>1. \A r \in Requests : request[r] = NoRequest
      BY DEF Init
    <2>2. request \in [Requests -> AskRow]
      BY NoRunFits DEF Init
    <2> QED BY <2>1, <2>2, ExtractionAssumption DEF RequestsTyped, NoRequest
  <1>5. RunsTyped
    <2>1. \A w \in Workers : run[w] = NoRun
      BY DEF Init
    <2>2. run \in [Workers -> RunRow]
      BY NoRunFits DEF Init
    <2> QED BY <1>1, <2>1, <2>2, NoRunFits DEF RunsTyped
  <1>6. EachIsOwed /\ ProposedWhole
    BY DEF Init, Row, EachIsOwed, ProposedWhole, Live
  <1> QED BY <1>2, <1>3, <1>4, <1>5, <1>6 DEF ExtractionInv, ExtractionTyped

LEMMA ExtractionStep == ExtractionInv /\ [Next]_vars => ExtractionInv'
  <1> SUFFICES ASSUME ExtractionInv, [Next]_vars PROVE ExtractionInv'
    OBVIOUS
  <1>1. CASE UNCHANGED vars
    <2>1. /\ UNCHANGED <<phase, taken, inHand, payload, doc, confirmed, bytes, links, proposals>>
          /\ UNCHANGED <<usage, admitted, run, request, crossed, torn, raced>>
      BY <1>1 DEF vars, queue, noted
    <2>2. ExtractionTyped'
      BY <2>1 DEF ExtractionInv, ExtractionTyped, QueueTyped, TablesTyped, RequestsTyped, RunsTyped
    <2>3. EachIsOwed'
      BY <2>1 DEF ExtractionInv, EachIsOwed, Live, Owed, Stranded, Doc, Told
    <2>4. ProposedWhole'
      BY <2>1 DEF ExtractionInv, ProposedWhole, Whole
    <2> QED BY <2>2, <2>3, <2>4 DEF ExtractionInv
  <1>2. CASE \E r \in Requests :
               \/ RequestStep(r)
               \/ \E d \in Docs : StoreBytes(r, d) \/ \E p \in {"retype", "link", "requeue", "erase"} : Ask(r, d, p)
    BY <1>2, RequestStepKeeps, AskKeeps
  <1>3. CASE \E w \in Workers :
               RunStep(w) \/ ProposalThrows(w) \/ Crash(w) \/ \E j \in JobIds : Take(w, j)
    BY <1>3, RunStepKeeps, ProposalThrowsKeeps, CrashKeeps, TakeKeeps
  <1> QED BY <1>1, <1>2, <1>3 DEF Next

LEMMA ExtractionAlways == Spec => []ExtractionInv
  BY ExtractionStarts, ExtractionStep, PTL DEF Spec

\* documents/service.ts: the rows, the runs and the requests have the shape
\* the schema and the code give them, whatever overlaps and whatever fails.
THEOREM ExtractionIsTyped == Spec => []TypeOK
  <1>1. ExtractionInv => TypeOK
    BY InvIsHonest
  <1> QED BY <1>1, ExtractionAlways, PTL

\* documents/service.ts: for any documents, workers and requests, overlapping
\* as they like, a document shown as waiting has a job that will answer, or one
\* that failed for good after its text was kept; and no failed job, and no job
\* that will be tried again, has put proposals into the case, but for those of an
\* attempt that threw among them.
THEOREM WaitingStaysHonest == Spec => []WaitingIsHonest
  <1>1. ExtractionInv => WaitingIsHonest
    BY InvIsHonest
  <1> QED BY <1>1, ExtractionAlways, PTL

-----------------------------------------------------------------------------
(* What the user decided, whatever requests and runs meet on a document.   *)

\* A request has what its next statement needs of its document.
HandsFit(d) ==
  \A r \in Requests : request[r].doc = d =>
    /\ request[r].at = "insert" => doc[d].life = "absent" /\ \A q \in Requests : request[q].doc = d => q = r
    /\ request[r].at # "insert" => doc[d].life # "absent"
    /\ request[r].at \in {"delete", "unlink"} => d \notin bytes
    /\ request[r].at = "link" /\ doc[d].life = "deleted" => <<d, "deletion">> \in crossed

\* A run past its look at the document is of a file that can be what it found,
\* will write the type the user chose, and of a document not deleted since.
PastFits(w, d) ==
  /\ run[w].at = "unsupported" => doc[d].kind = "image"
  /\ run[w].at \in {"review", "text"} \cup Late => doc[d].kind = "readable"
  /\ d \in confirmed => run[w].type = "chosen" \/ doc[d].kind = "image" \/ <<d, "choice">> \in crossed
  /\ doc[d].life = "deleted" => <<d, "deletion">> \in crossed

RunsFit(d) == \A w \in Workers : PastRead(w) /\ Doc(w) = d => PastFits(w, d)

ChoiceFits(d) ==
  d \in confirmed => /\ doc[d].life # "absent"
                     /\ \/ doc[d].type = "chosen"
                        \/ doc[d].kind = "image" /\ doc[d].type = "fallback"
                        \/ <<d, "choice">> \in crossed

\* A deleted document keeps its links only until a request has gone on.
DeletionFits(d) ==
  doc[d].life = "deleted" =>
    /\ d \notin bytes
    /\ \/ <<d, "deletion">> \in crossed
       \/ /\ doc[d].text = "none"
          /\ d \in links => \E r \in Requests : request[r].doc = d /\ request[r].at = "unlink"

Decided(d) == HandsFit(d) /\ RunsFit(d) /\ ChoiceFits(d) /\ DeletionFits(d)

DecisionInv == \A d \in Docs : Decided(d)

LEMMA DecidedHolds == ExtractionTyped /\ DecisionInv => DecisionsHold
  <1> SUFFICES ASSUME ExtractionTyped, DecisionInv PROVE DecisionsHold
    OBVIOUS
  <1>1. ChosenTypeStays
    BY DEF DecisionInv, Decided, ChoiceFits, ChosenTypeStays, ExtractionTyped, TablesTyped
  <1>2. DeletedLeavesNothing
    BY DEF DecisionInv, Decided, DeletionFits, DeletedLeavesNothing, RequestsOn
  <1> QED BY <1>1, <1>2 DEF DecisionsHold

\* What a step does to one document is nothing to another.
LEMMA OthersStayDecided ==
  ASSUME NEW e \in Docs, Decided(e),
         doc'[e] = doc[e], e \in bytes' <=> e \in bytes, e \in links' <=> e \in links,
         e \in confirmed' <=> e \in confirmed,
         \A c \in {"choice", "deletion"} : <<e, c>> \in crossed' <=> <<e, c>> \in crossed,
         \A r \in Requests : request[r].doc = e \/ request'[r].doc = e => request'[r] = request[r],
         \A w \in Workers : PastRead(w)' /\ Doc(w)' = e => run'[w] = run[w] /\ Doc(w) = e
  PROVE  Decided(e)'
  <1>1. HandsFit(e)'
    <2>1. \A r \in Requests : request'[r].doc = e => request'[r] = request[r]
      OBVIOUS
    <2> QED BY <2>1 DEF Decided, HandsFit
  <1>2. RunsFit(e)'
    <2>1. SUFFICES ASSUME NEW w \in Workers, PastRead(w)', Doc(w)' = e PROVE PastFits(w, e)'
      BY DEF RunsFit
    <2>2. run'[w] = run[w] /\ Doc(w) = e /\ PastRead(w)
      BY <2>1 DEF PastRead
    <2>3. PastFits(w, e)
      BY <2>2 DEF Decided, RunsFit
    <2> QED BY <2>2, <2>3 DEF PastFits
  <1>3. ChoiceFits(e)'
    BY DEF Decided, ChoiceFits
  <1>4. DeletionFits(e)'
    BY DEF Decided, DeletionFits
  <1> QED BY <1>1, <1>2, <1>3, <1>4 DEF Decided

\* A run that looks at its document, or writes what it may write after it has.
LEMMA RunDecides ==
  ASSUME ExtractionTyped, DecisionInv, NEW w \in Workers, run[w].at # "idle",
         RunMoves(w), RowMoves(Doc(w)), RunsLeave,
         \/ ~PastRead(w)'
         \/ PastRead(w) /\ run'[w].type = run[w].type
         \/ Live(Doc(w)) /\ (Doc(w) \in confirmed => run'[w].type = doc[Doc(w)].type),
         run'[w].at = "unsupported" => doc[Doc(w)].kind = "image",
         run'[w].at \in {"review", "text"} \cup Late => doc[Doc(w)].kind = "readable",
         PastRead(w) \/ doc'[Doc(w)].text \in {"none", doc[Doc(w)].text},
         links' = links \/ (PastRead(w) /\ links' = links \cup {Doc(w)}),
         \/ doc'[Doc(w)].type = doc[Doc(w)].type
         \/ doc[Doc(w)].kind = "image" /\ doc'[Doc(w)].type = "fallback"
         \/ PastRead(w) /\ doc[Doc(w)].kind = "readable" /\ doc'[Doc(w)].type = run[w].type
  PROVE  DecisionInv'
  <1>1. PICK d \in Docs : d = Doc(w)
    BY RunHasJob
  <1>2. /\ UNCHANGED <<payload, confirmed, bytes, request, crossed>>
        /\ \A v \in Workers : Doc(v)' = Doc(v)
        /\ \A v \in Workers : v # w => run'[v] = run[v]
        /\ doc'[d].life = doc[d].life /\ doc'[d].kind = doc[d].kind
        /\ \A e \in Docs : e # d => doc'[e] = doc[e]
    BY <1>1 DEF RunsLeave, RunMoves, RowMoves, Doc
  <1>3. ASSUME NEW e \in Docs, e # d PROVE Decided(e)'
    <2>1. Decided(e)
      BY DEF DecisionInv
    <2>2. \A v \in Workers : PastRead(v)' /\ Doc(v)' = e => run'[v] = run[v] /\ Doc(v) = e
      BY <1>1, <1>2, <1>3
    <2>3. e \in links' <=> e \in links
      BY <1>1, <1>3
    <2> QED BY <1>2, <1>3, <2>1, <2>2, <2>3, OthersStayDecided
  <1>4. Decided(d)
    BY DEF DecisionInv
  <1>5. PastRead(w) => PastFits(w, d)
    BY <1>1, <1>4 DEF Decided, RunsFit
  <1>6. HandsFit(d)'
    BY <1>2, <1>4 DEF Decided, HandsFit
  <1>7. RunsFit(d)'
    <2>1. SUFFICES ASSUME NEW v \in Workers, PastRead(v)', Doc(v)' = d PROVE PastFits(v, d)'
      BY DEF RunsFit
    <2>2. CASE v # w
      <3>1. run'[v] = run[v] /\ PastRead(v) /\ Doc(v) = d
        BY <1>2, <2>1, <2>2 DEF PastRead
      <3>2. PastFits(v, d)
        BY <1>4, <3>1 DEF Decided, RunsFit
      <3> QED BY <1>2, <3>1, <3>2 DEF PastFits
    <2>3. CASE v = w
      <3>1. /\ run'[w].at = "unsupported" => doc'[d].kind = "image"
            /\ run'[w].at \in {"review", "text"} \cup Late => doc'[d].kind = "readable"
        BY <1>1, <1>2
      <3>2. CASE PastRead(w) /\ run'[w].type = run[w].type
        BY <1>2, <1>5, <2>3, <3>1, <3>2 DEF PastFits
      <3>3. CASE Live(d) /\ (d \in confirmed => run'[w].type = doc[d].type)
        BY <1>2, <1>4, <2>3, <3>1, <3>3 DEF PastFits, Decided, ChoiceFits, Live
      <3> QED BY <1>1, <2>1, <2>3, <3>2, <3>3
    <2> QED BY <2>2, <2>3
  <1>8. ChoiceFits(d)'
    BY <1>1, <1>2, <1>4, <1>5 DEF Decided, ChoiceFits, PastFits
  <1>9. DeletionFits(d)'
    BY <1>1, <1>2, <1>4, <1>5 DEF Decided, DeletionFits, PastFits
  <1>10. Decided(d)'
    BY <1>6, <1>7, <1>8, <1>9 DEF Decided
  <1> QED BY <1>3, <1>10 DEF DecisionInv

\* A request that finds and leaves its document as its statements expect: a
\* choice it makes is written at once, a deletion marked before the links go.
LEMMA RequestDecides ==
  ASSUME ExtractionTyped, DecisionInv, NEW r \in Requests, NEW d \in Docs, AskMoves(r, d), RowChanges(d),
         UNCHANGED run, \A w \in Workers : run[w].at # "idle" => Doc(w)' = Doc(w),
         request[r].at # "idle" => request[r].doc = d,
         \A e \in Docs : e # d => /\ e \in bytes' <=> e \in bytes
                                  /\ e \in links' <=> e \in links
                                  /\ e \in confirmed' <=> e \in confirmed
                                  /\ \A c \in {"choice", "deletion"} : <<e, c>> \in crossed' <=> <<e, c>> \in crossed,
         request[r].at = "idle" => Live(d) \/ RequestsOn(d) = {},
         request'[r].at = "insert" => doc'[d].life = "absent" /\ RequestsOn(d) = {},
         request'[r].at \notin {"idle", "insert"} => doc'[d].life # "absent",
         doc[d].life # "absent" => doc'[d].life # "absent",
         d \in bytes' => d \in bytes \/ RequestsOn(d) = {},
         request'[r].at \in {"delete", "unlink"} => d \notin bytes',
         \/ d \notin confirmed'
         \/ /\ d \in confirmed /\ doc'[d].type = doc[d].type
            /\ <<d, "choice">> \in crossed => <<d, "choice">> \in crossed'
         \/ /\ doc'[d].life # "absent" /\ doc'[d].type = "chosen"
            /\ \A w \in RunsOn(d) : PastRead(w) => run[w].type = "chosen" \/ <<d, "choice">> \in crossed',
         \/ doc'[d].life # "deleted"
         \/ /\ doc[d].life = "deleted" /\ doc'[d].text = doc[d].text /\ (d \in bytes' => d \in bytes)
            /\ <<d, "deletion">> \in crossed => <<d, "deletion">> \in crossed'
            /\ request'[r].at # "link" /\ (request[r].at = "unlink" => d \notin links')
            /\ d \in links' => d \in links \/ request[r].at = "link"
         \/ /\ d \notin bytes' /\ doc'[d].text = "none" /\ request'[r].at = "unlink"
            /\ \/ <<d, "deletion">> \in crossed'
               \/ /\ \A w \in RunsOn(d) : ~PastRead(w)
                  /\ \A q \in RequestsOn(d) : request[q].at # "link"
  PROVE  DecisionInv'
  <1> DEFINE Kept == /\ doc[d].life = "deleted" /\ doc'[d].text = doc[d].text /\ (d \in bytes' => d \in bytes)
                     /\ <<d, "deletion">> \in crossed => <<d, "deletion">> \in crossed'
                     /\ request'[r].at # "link" /\ (request[r].at = "unlink" => d \notin links')
                     /\ d \in links' => d \in links \/ request[r].at = "link"
             Gone == /\ d \notin bytes' /\ doc'[d].text = "none" /\ request'[r].at = "unlink"
                     /\ \/ <<d, "deletion">> \in crossed'
                        \/ /\ \A w \in RunsOn(d) : ~PastRead(w)
                           /\ \A q \in RequestsOn(d) : request[q].at # "link"
             Chose == /\ doc'[d].life # "absent" /\ doc'[d].type = "chosen"
                      /\ \A w \in RunsOn(d) : PastRead(w) => run[w].type = "chosen" \/ <<d, "choice">> \in crossed'
             Held == /\ d \in confirmed /\ doc'[d].type = doc[d].type
                     /\ <<d, "choice">> \in crossed => <<d, "choice">> \in crossed'
  <1>1. /\ \A q \in Requests : q # r => request'[q] = request[q]
        /\ (request'[r].at = "idle" /\ request'[r].doc = NoDoc) \/ (request'[r].at # "idle" /\ request'[r].doc = d)
        /\ NoDoc \notin Docs
        /\ \A e \in Docs : e # d => doc'[e] = doc[e]
        /\ doc'[d].kind = doc[d].kind
        /\ doc[d] \in DocRow /\ doc'[d] \in DocRow
        /\ request[r].at # "idle" <=> request[r].doc \in Docs
    BY ExtractionAssumption DEF AskMoves, RowChanges, ExtractionTyped, RequestsTyped, TablesTyped
  <1>2. doc'[d].life # "deleted" \/ Kept \/ Gone
    OBVIOUS
  <1>3. d \notin confirmed' \/ Held \/ Chose
    OBVIOUS
  <1>4. ASSUME NEW e \in Docs, e # d PROVE Decided(e)'
    <2>1. Decided(e)
      BY DEF DecisionInv
    <2>2. \A q \in Requests : request[q].doc = e \/ request'[q].doc = e => request'[q] = request[q]
      BY <1>1, <1>4
    <2>3. \A w \in Workers : PastRead(w)' /\ Doc(w)' = e => run'[w] = run[w] /\ Doc(w) = e
      BY DEF PastRead
    <2> QED BY <1>1, <1>4, <2>1, <2>2, <2>3, OthersStayDecided
  <1>5. Decided(d)
    BY DEF DecisionInv
  <1> HIDE DEF Kept, Gone, Chose, Held
  <1>6. HandsFit(d)'
    <2>1. SUFFICES ASSUME NEW q \in Requests, request'[q].doc = d
                   PROVE  /\ request'[q].at = "insert" =>
                               doc'[d].life = "absent" /\ \A p \in Requests : request'[p].doc = d => p = q
                          /\ request'[q].at # "insert" => doc'[d].life # "absent"
                          /\ request'[q].at \in {"delete", "unlink"} => d \notin bytes'
                          /\ request'[q].at = "link" /\ doc'[d].life = "deleted" => <<d, "deletion">> \in crossed'
      BY DEF HandsFit
    <2>2. CASE q = r
      <3>1. request'[r].at # "idle"
        BY <1>1, <2>1, <2>2
      <3>2. request'[r].at = "insert" => \A p \in Requests : request'[p].doc = d => p = r
        BY <1>1 DEF RequestsOn
      <3>3. request'[r].at = "link" => doc'[d].life # "deleted" \/ <<d, "deletion">> \in crossed'
        BY <1>2 DEF Kept, Gone
      <3> QED BY <2>2, <3>1, <3>2, <3>3
    <2>3. CASE q # r
      <3>1. request'[q] = request[q] /\ request[q].doc = d /\ q \in RequestsOn(d)
        BY <1>1, <2>1, <2>3 DEF RequestsOn
      <3>2. /\ request[q].at = "insert" =>
                 doc[d].life = "absent" /\ \A p \in Requests : request[p].doc = d => p = q
            /\ request[q].at # "insert" => doc[d].life # "absent"
            /\ request[q].at \in {"delete", "unlink"} => d \notin bytes
            /\ request[q].at = "link" /\ doc[d].life = "deleted" => <<d, "deletion">> \in crossed
        BY <1>5, <3>1 DEF Decided, HandsFit
      <3>3. request[q].at # "insert"
        BY <1>1, <2>3, <3>1, <3>2 DEF Live
      <3>4. request[q].at = "link" /\ doc'[d].life = "deleted" => <<d, "deletion">> \in crossed'
        BY <1>2, <3>1, <3>2 DEF Kept, Gone
      <3> QED BY <3>1, <3>2, <3>3, <3>4
    <2> QED BY <2>2, <2>3
  <1>7. RunsFit(d)'
    <2>1. SUFFICES ASSUME NEW w \in Workers, PastRead(w)', Doc(w)' = d PROVE PastFits(w, d)'
      BY DEF RunsFit
    <2>2. PastRead(w) /\ Doc(w) = d /\ w \in RunsOn(d)
      BY <2>1 DEF PastRead, RunsOn, Doc
    <2>3. PastFits(w, d)
      BY <1>5, <2>2 DEF Decided, RunsFit
    <2>4. d \in confirmed' => run[w].type = "chosen" \/ doc[d].kind = "image" \/ <<d, "choice">> \in crossed'
      BY <1>3, <2>2, <2>3 DEF Held, Chose, PastFits
    <2>5. doc'[d].life = "deleted" => <<d, "deletion">> \in crossed'
      BY <1>2, <2>2, <2>3 DEF Kept, Gone, PastFits
    <2> QED BY <1>1, <2>3, <2>4, <2>5 DEF PastFits
  <1>8. ChoiceFits(d)'
    BY <1>1, <1>3, <1>5 DEF Decided, ChoiceFits, Held, Chose
  <1>9. DeletionFits(d)'
    <2>1. CASE Kept
      <3>1. /\ d \notin bytes
            /\ \/ <<d, "deletion">> \in crossed
               \/ /\ doc[d].text = "none"
                  /\ d \in links => \E q \in Requests : request[q].doc = d /\ request[q].at = "unlink"
        BY <1>5, <2>1 DEF Kept, Decided, DeletionFits
      <3>2. request[r].at = "link" => <<d, "deletion">> \in crossed
        BY <1>5, <2>1 DEF Kept, Decided, HandsFit
      <3>3. CASE request[r].at = "link" \/ <<d, "deletion">> \in crossed
        BY <2>1, <3>1, <3>2, <3>3 DEF Kept, DeletionFits
      <3>4. CASE request[r].at # "link" /\ <<d, "deletion">> \notin crossed
        <4>1. ASSUME d \in links' PROVE \E q \in Requests : request'[q].doc = d /\ request'[q].at = "unlink"
          <5>1. PICK q \in Requests : request[q].doc = d /\ request[q].at = "unlink"
            BY <2>1, <3>1, <3>4, <4>1 DEF Kept
          <5>2. q # r
            BY <2>1, <4>1, <5>1 DEF Kept
          <5> QED BY <1>1, <5>1, <5>2
        <4> QED BY <2>1, <3>1, <3>4, <4>1 DEF Kept, DeletionFits
      <3> QED BY <3>3, <3>4
    <2>2. CASE Gone
      BY <1>1, <2>2 DEF Gone, DeletionFits
    <2> QED BY <1>2, <2>1, <2>2 DEF DeletionFits
  <1>10. Decided(d)'
    BY <1>6, <1>7, <1>8, <1>9 DEF Decided
  <1> QED BY <1>4, <1>10 DEF DecisionInv

\* A job that is taken, settled or abandoned.
LEMMA QueueDecides ==
  ASSUME DecisionInv, UNCHANGED <<payload, doc, confirmed, bytes, links, request, crossed>>,
         \A w \in Workers : run'[w] = run[w] \/ run'[w].at \in {"idle", "read"}
  PROVE  DecisionInv'
  <1>1. SUFFICES ASSUME NEW e \in Docs PROVE Decided(e)'
    BY DEF DecisionInv
  <1>2. \A w \in Workers : PastRead(w)' /\ Doc(w)' = e => run'[w] = run[w] /\ Doc(w) = e
    BY DEF PastRead, Doc
  <1> QED BY <1>2, OthersStayDecided DEF DecisionInv

LEMMA RunsDecide ==
  ASSUME ExtractionTyped, DecisionInv, NEW w \in Workers, RunStep(w) \/ ProposalThrows(w) \/ Crash(w)
  PROVE  DecisionInv'
  <1>1. /\ run[w].at = "unsupported" => doc[Doc(w)].kind = "image"
        /\ run[w].at \in {"review", "text"} \cup Late => doc[Doc(w)].kind = "readable"
    <2>1. CASE run[w].at \in {"unsupported", "review", "text"} \cup Late
      <3>1. PastRead(w) /\ Doc(w) \in Docs
        BY <2>1, RunHasJob DEF PastRead, Late
      <3> QED BY <3>1 DEF DecisionInv, Decided, RunsFit, PastFits
    <2> QED BY <2>1
  <1>2. CASE ReadDocument(w)
    BY <1>2, ReadDocumentDoes, RunHasJob, RunDecides DEF TypeAfter, PastRead, Late
  <1>3. CASE MarkProcessing(w)
    BY <1>3, MarkProcessingDoes, RunHasJob, RunDecides DEF PastRead, Late
  <1>4. CASE ReadBytes(w)
    <2>1. doc[Doc(w)].kind \in Kinds
      BY <1>4, ReadBytesDoes, RunHasJob DEF ExtractionTyped, TablesTyped, DocRow
    <2> QED BY <1>4, <2>1, ReadBytesDoes, RunHasJob, RunDecides DEF Results, Kinds, PastRead, Late
  <1>5. CASE Unreadable(w)
    BY <1>5, UnreadableDoes, RunHasJob, RunDecides DEF PastRead, Late
  <1>6. CASE Unsupported(w)
    BY <1>1, <1>6, UnsupportedDoes, RunHasJob, RunDecides DEF PastRead, Late
  <1>7. CASE NoText(w)
    BY <1>7, NoTextDoes, RunHasJob, RunDecides DEF PastRead, Late
  <1>8. CASE KeepText(w)
    BY <1>1, <1>8, KeepTextDoes, RunHasJob, RunDecides DEF PastRead, Late
  <1>9. CASE ReadUsage(w)
    BY <1>1, <1>9, ReadUsageDoes, RunHasJob, RunDecides DEF PastRead, Late
  <1>10. CASE CountUsage(w)
    BY <1>1, <1>10, CountUsageDoes, RunHasJob, RunDecides DEF PastRead, Late
  <1>11. CASE UsageConflict(w)
    BY <1>11, UsageConflictDoes, RunHasJob, RunDecides DEF PastRead, Late
  <1>12. CASE AskModel(w)
    BY <1>1, <1>12, AskModelDoes, RunHasJob, RunDecides DEF PastRead, Late
  <1>13. CASE Park(w)
    BY <1>13, ParkDoes, RunHasJob, RunDecides DEF PastRead, Late
  <1>14. CASE Propose(w)
    BY <1>1, <1>14, ProposeDoes, RunHasJob, RunDecides DEF PastRead, Late
  <1>15. CASE ProposalThrows(w)
    BY <1>15, ProposalThrowsDoes, RunHasJob, RunDecides DEF PastRead, Late
  <1>16. CASE Complete(w)
    BY <1>1, <1>16, CompleteDoes, RunHasJob, RunDecides DEF PastRead, Late
  <1>17. CASE Finish(w) \/ Crash(w)
    <2>1. /\ UNCHANGED <<payload, doc, confirmed, bytes, links, request, crossed>>
          /\ run' = [run EXCEPT ![w] = NoRun]
      BY <1>17 DEF Finish, Crash, noted
    <2>2. run \in [Workers -> RunRow]
      BY DEF ExtractionTyped, RunsTyped
    <2>3. \A v \in Workers : run'[v] = run[v] \/ run'[v].at = "idle"
      BY <2>1, <2>2, NoRunFits
    <2> QED BY <2>1, <2>3, QueueDecides
  <1> QED
    BY <1>2, <1>3, <1>4, <1>5, <1>6, <1>7, <1>8, <1>9, <1>10, <1>11, <1>12, <1>13, <1>14, <1>15, <1>16, <1>17
    DEF RunStep

LEMMA RequestsDecide ==
  ASSUME ExtractionTyped, DecisionInv, NEW r \in Requests, RequestStep(r)
  PROVE  DecisionInv'
  <1> DEFINE d == request[r].doc
  <1>1. ASSUME d \in Docs, request[r].at # "idle"
        PROVE  /\ request[r].at = "insert" => doc[d].life = "absent"
               /\ request[r].at # "insert" => doc[d].life # "absent"
               /\ request[r].at \in {"delete", "unlink"} => d \notin bytes
               /\ doc[d].life = "deleted" => d \notin bytes
               /\ d \in confirmed => doc[d].life # "absent"
    BY <1>1 DEF DecisionInv, Decided, HandsFit, ChoiceFits, DeletionFits
  <1>2. AsksLeave => UNCHANGED run /\ \A w \in Workers : run[w].at # "idle" => Doc(w)' = Doc(w)
    BY DEF AsksLeave, Doc
  <1>3. ASSUME NEW c \in {"choice", "deletion"}, crossed' \in {crossed \cup {<<d, c>>}, crossed \ {<<d, c>>}, crossed}
        PROVE  \A e \in Docs : e # d => \A b \in {"choice", "deletion"} : <<e, b>> \in crossed' <=> <<e, b>> \in crossed
    BY <1>3
  <1> HIDE DEF d
  <1>4. CASE InsertDocument(r)
    BY <1>1, <1>2, <1>4, InsertDocumentDoes, RequestDecides DEF d
  <1>5. CASE Retype(r)
    <2>1. /\ request[r].at = "retype" /\ d \in Docs /\ AskMoves(r, d) /\ RowChanges(d) /\ AsksLeave
          /\ UNCHANGED <<bytes, links>> /\ confirmed' = confirmed \cup {d} /\ request'[r].at = "idle"
          /\ crossed' = IF \E w \in RunsOn(d) : PastRead(w) /\ run[w].type # "chosen"
                        THEN crossed \cup {<<d, "choice">>} ELSE crossed \ {<<d, "choice">>}
          /\ doc'[d].type = "chosen" /\ doc'[d].life = doc[d].life /\ doc'[d].text = doc[d].text
      BY <1>5, RetypeDoes DEF d
    <2>2. \A w \in RunsOn(d) : PastRead(w) => run[w].type = "chosen" \/ <<d, "choice">> \in crossed'
      BY <2>1
    <2>3. <<d, "deletion">> \in crossed => <<d, "deletion">> \in crossed'
      BY <2>1
    <2>4. \A e \in Docs : e # d => \A b \in {"choice", "deletion"} : <<e, b>> \in crossed' <=> <<e, b>> \in crossed
      BY <1>3, <2>1
    <2> QED BY <1>1, <1>2, <2>1, <2>2, <2>3, <2>4, RequestDecides DEF d
  <1>6. CASE LinkDocument(r)
    BY <1>1, <1>2, <1>6, LinkDocumentDoes, RequestDecides DEF d
  <1>7. CASE Requeue(r)
    BY <1>1, <1>2, <1>7, RequeueDoes, RequestDecides DEF d
  <1>8. CASE EraseBytes(r)
    BY <1>1, <1>2, <1>8, EraseBytesDoes, RequestDecides DEF d
  <1>9. CASE MarkDeleted(r)
    <2>1. /\ request[r].at = "delete" /\ d \in Docs /\ AskMoves(r, d) /\ RowChanges(d) /\ AsksLeave
          /\ UNCHANGED <<confirmed, bytes, links>> /\ request'[r].at = "unlink"
          /\ crossed' = IF (\E w \in RunsOn(d) : PastRead(w)) \/ (\E q \in RequestsOn(d) : At(q, "link"))
                        THEN crossed \cup {<<d, "deletion">>} ELSE crossed
          /\ doc'[d].life = "deleted" /\ doc'[d].text = "none" /\ doc'[d].type = doc[d].type
      BY <1>9, MarkDeletedDoes DEF d
    <2>2. \/ <<d, "deletion">> \in crossed'
          \/ /\ \A w \in RunsOn(d) : ~PastRead(w)
             /\ \A q \in RequestsOn(d) : request[q].at # "link"
      BY <2>1 DEF At
    <2>3. <<d, "choice">> \in crossed => <<d, "choice">> \in crossed'
      BY <2>1
    <2>4. \A e \in Docs : e # d => \A b \in {"choice", "deletion"} : <<e, b>> \in crossed' <=> <<e, b>> \in crossed
      BY <1>3, <2>1
    <2> QED BY <1>1, <1>2, <2>1, <2>2, <2>3, <2>4, RequestDecides DEF d
  <1>10. CASE Unlink(r)
    BY <1>1, <1>2, <1>10, UnlinkDoes, RequestDecides DEF d
  <1>11. CASE \E j \in JobIds : Enqueue(r, j)
    <2>1. PICK j \in JobIds : Enqueue(r, j)
      BY <1>11
    <2>2. /\ request[r].at = "enqueue" /\ d \in Docs /\ AskMoves(r, d) /\ request'[r].at = "idle"
          /\ phase[j] = "absent" /\ \A k \in JobIds : k # j => payload'[k] = payload[k]
          /\ UNCHANGED <<doc, confirmed, bytes, links, run, crossed>>
      BY <2>1, EnqueueDoes DEF d
    <2>3. \A w \in Workers : run[w].at # "idle" => Doc(w)' = Doc(w)
      BY <2>2, RunHasJob DEF Doc
    <2>4. RowChanges(d)
      BY <2>2 DEF RowChanges, ExtractionTyped, TablesTyped
    <2> QED BY <1>1, <2>2, <2>3, <2>4, RequestDecides DEF d
  <1> QED BY <1>4, <1>5, <1>6, <1>7, <1>8, <1>9, <1>10, <1>11 DEF RequestStep

LEMMA EntriesDecide ==
  ASSUME ExtractionTyped, DecisionInv, NEW r \in Requests, NEW d \in Docs
  PROVE  /\ StoreBytes(r, d) => DecisionInv'
         /\ \A p \in {"retype", "link", "requeue", "erase"} : Ask(r, d, p) => DecisionInv'
  <1>1. AsksLeave => UNCHANGED run /\ \A w \in Workers : run[w].at # "idle" => Doc(w)' = Doc(w)
    BY DEF AsksLeave, Doc
  <1>2. ASSUME StoreBytes(r, d) PROVE DecisionInv'
    <2>1. /\ request[r].at = "idle" /\ AskMoves(r, d) /\ RowChanges(d) /\ AsksLeave
          /\ UNCHANGED <<doc, confirmed, links, crossed>> /\ bytes' = bytes \cup {d}
          /\ request'[r].at = "insert" /\ doc[d].life = "absent" /\ RequestsOn(d) = {}
      BY <1>2, StoreBytesDoes
    <2>2. \A e \in Docs : e # d => (e \in bytes' <=> e \in bytes)
      BY <2>1
    <2>3. doc'[d].life = "absent" /\ doc'[d].life # "deleted" /\ doc'[d].type = doc[d].type
      BY <2>1
    <2>4. d \notin confirmed' \/ d \in confirmed
      BY <2>1
    <2> QED BY <1>1, <2>1, <2>2, <2>3, <2>4, RequestDecides
  <1>3. ASSUME NEW p \in {"retype", "link", "requeue", "erase"}, Ask(r, d, p) PROVE DecisionInv'
    <2>1. /\ request[r].at = "idle" /\ AskMoves(r, d) /\ RowChanges(d) /\ AsksLeave
          /\ UNCHANGED <<doc, confirmed, bytes, links, crossed>> /\ request'[r].at = p /\ Live(d)
      BY <1>3, AskDoes
    <2>2. doc'[d].life = "live" /\ doc'[d].life # "deleted" /\ doc'[d].type = doc[d].type
      BY <2>1 DEF Live
    <2>3. p \notin {"idle", "insert", "delete", "unlink"}
      OBVIOUS
    <2> QED BY <1>1, <2>1, <2>2, <2>3, RequestDecides
  <1> QED BY <1>2, <1>3

LEMMA DecisionStarts == Init => DecisionInv
  <1> SUFFICES ASSUME Init PROVE DecisionInv
    OBVIOUS
  <1>1. /\ \A r \in Requests : request[r].doc = NoDoc
        /\ \A w \in Workers : run[w].at = "idle"
        /\ \A d \in Docs : doc[d].life = "absent"
        /\ confirmed = {} /\ NoDoc \notin Docs
    BY ExtractionAssumption DEF Init, NoRequest, NoRun, Row
  <1> QED BY <1>1 DEF DecisionInv, Decided, HandsFit, RunsFit, PastRead, ChoiceFits, DeletionFits

LEMMA DecisionStep == ExtractionTyped /\ DecisionInv /\ [Next]_vars => DecisionInv'
  <1> SUFFICES ASSUME ExtractionTyped, DecisionInv, [Next]_vars PROVE DecisionInv'
    OBVIOUS
  <1>1. CASE UNCHANGED vars
    BY <1>1, QueueDecides DEF vars, noted
  <1>2. CASE \E r \in Requests :
               \/ RequestStep(r)
               \/ \E d \in Docs : StoreBytes(r, d) \/ \E p \in {"retype", "link", "requeue", "erase"} : Ask(r, d, p)
    BY <1>2, RequestsDecide, EntriesDecide
  <1>3. CASE \E w \in Workers : RunStep(w) \/ ProposalThrows(w) \/ Crash(w)
    BY <1>3, RunsDecide
  <1>4. CASE \E w \in Workers, j \in JobIds : Take(w, j)
    BY <1>4, TakeDoes, QueueDecides
  <1> QED BY <1>1, <1>2, <1>3, <1>4 DEF Next

\* documents/service.ts: however requests and runs overlap and wherever one
\* dies, a type the user chose is written over only for an image, or by a run
\* that was past its look at the document; a deleted document keeps no file,
\* and neither text nor links but what a run, or a link, wrote that had looked
\* before the deletion.
THEOREM DecisionsStand == Spec => []DecisionsHold
  <1>1. ExtractionInv => ExtractionTyped
    BY DEF ExtractionInv
  <1> QED BY <1>1, DecisionStarts, DecisionStep, DecidedHolds, ExtractionAlways, PTL DEF Spec

-----------------------------------------------------------------------------
(* The allowance, and the counts that crossed.                             *)

\* The counter never passes the allowance; what was let through passes the
\* counter, and what a run has read of it, by one for each count that was
\* written while another run stood between its read and its write.
MeterInv ==
  /\ usage <= Allowance /\ admitted <= usage + raced
  /\ \A w \in Workers : run[w].at = "count" => run[w].seen < Allowance /\ admitted <= run[w].seen + raced

LEMMA MeterHolds == ExtractionTyped /\ MeterInv => WithinAllowance
  <1> SUFFICES ASSUME ExtractionTyped, MeterInv PROVE WithinAllowance
    OBVIOUS
  <1>1. usage \in Nat /\ admitted \in Nat /\ raced \in Nat /\ Allowance \in Nat
    BY ExtractionAssumption DEF ExtractionTyped, TablesTyped
  <1> QED BY <1>1 DEF MeterInv, WithinAllowance

\* A step that counts nothing, and starts no count but of what is there.
LEMMA OthersMeter ==
  ASSUME MeterInv, UNCHANGED <<usage, admitted, raced>>,
         \A w \in Workers : \/ run'[w] = run[w] \/ run'[w].at # "count"
                            \/ run'[w].seen = usage /\ usage < Allowance
  PROVE  MeterInv'
  BY DEF MeterInv

LEMMA CountMeters ==
  ASSUME ExtractionTyped, MeterInv, NEW w \in Workers, CountUsage(w)
  PROVE  MeterInv'
  <1>1. /\ run[w].at = "count" /\ run'[w].at = "model" /\ \A v \in Workers : v # w => run'[v] = run[v]
        /\ usage' = run[w].seen + 1 /\ admitted' = admitted + 1
        /\ raced' = raced + IF \E v \in Workers \ {w} : run[v].at = "count" THEN 1 ELSE 0
    BY CountUsageDoes DEF RunMoves
  <1>2. /\ run \in [Workers -> RunRow] /\ admitted \in Nat /\ raced \in Nat /\ Allowance \in Nat
        /\ \A v \in Workers : run[v].seen \in Nat
    BY ExtractionAssumption DEF ExtractionTyped, TablesTyped, RunsTyped, RunRow
  <1>3. run[w].seen < Allowance /\ admitted <= run[w].seen + raced
    BY <1>1 DEF MeterInv
  <1>4. usage' <= Allowance /\ admitted' <= usage' + raced'
    BY <1>1, <1>2, <1>3
  <1>5. ASSUME NEW v \in Workers, run'[v].at = "count"
        PROVE  run'[v].seen < Allowance /\ admitted' <= run'[v].seen + raced'
    <2>1. v # w /\ run'[v] = run[v] /\ raced' = raced + 1
      BY <1>1, <1>5
    <2>2. run[v].seen < Allowance /\ admitted <= run[v].seen + raced
      BY <1>5, <2>1 DEF MeterInv
    <2> QED BY <1>1, <1>2, <2>1, <2>2
  <1> QED BY <1>4, <1>5 DEF MeterInv

LEMMA RunStepMeters ==
  ASSUME ExtractionTyped, MeterInv, NEW w \in Workers, RunStep(w) \/ ProposalThrows(w) \/ Crash(w)
  PROVE  MeterInv'
  <1>1. CASE ReadDocument(w)
    BY <1>1, ReadDocumentDoes, OthersMeter DEF RunMoves
  <1>2. CASE MarkProcessing(w)
    BY <1>2, MarkProcessingDoes, OthersMeter DEF RunMoves
  <1>3. CASE ReadBytes(w)
    <2>1. run'[w].at # "count"
      BY <1>3, ReadBytesDoes DEF Results
    <2> QED BY <1>3, <2>1, ReadBytesDoes, OthersMeter DEF RunMoves
  <1>4. CASE Unreadable(w)
    BY <1>4, UnreadableDoes, OthersMeter DEF RunMoves
  <1>5. CASE Unsupported(w)
    BY <1>5, UnsupportedDoes, OthersMeter DEF RunMoves
  <1>6. CASE NoText(w)
    BY <1>6, NoTextDoes, OthersMeter DEF RunMoves
  <1>7. CASE KeepText(w)
    BY <1>7, KeepTextDoes, OthersMeter DEF RunMoves
  <1>8. CASE ReadUsage(w)
    BY <1>8, ReadUsageDoes, OthersMeter DEF RunMoves
  <1>9. CASE CountUsage(w)
    BY <1>9, CountMeters
  <1>10. CASE UsageConflict(w)
    BY <1>10, UsageConflictDoes, OthersMeter DEF RunMoves
  <1>11. CASE AskModel(w)
    BY <1>11, AskModelDoes, OthersMeter DEF RunMoves
  <1>12. CASE Park(w)
    BY <1>12, ParkDoes, OthersMeter DEF RunMoves
  <1>13. CASE Propose(w)
    BY <1>13, ProposeDoes, OthersMeter DEF RunMoves
  <1>14. CASE ProposalThrows(w)
    BY <1>14, ProposalThrowsDoes, OthersMeter DEF RunMoves
  <1>15. CASE Complete(w)
    BY <1>15, CompleteDoes, OthersMeter DEF RunMoves
  <1>16. CASE Finish(w) \/ Crash(w)
    <2>1. UNCHANGED <<usage, admitted, raced>> /\ run' = [run EXCEPT ![w] = NoRun]
      BY <1>16 DEF Finish, Crash, noted
    <2>2. run \in [Workers -> RunRow]
      BY DEF ExtractionTyped, RunsTyped
    <2>3. \A v \in Workers : run'[v] = run[v] \/ run'[v].at = "idle"
      BY <2>1, <2>2, NoRunFits
    <2> QED BY <2>1, <2>3, OthersMeter
  <1> QED
    BY <1>1, <1>2, <1>3, <1>4, <1>5, <1>6, <1>7, <1>8, <1>9, <1>10, <1>11, <1>12, <1>13, <1>14, <1>15, <1>16
    DEF RunStep

LEMMA MeterStep == ExtractionTyped /\ MeterInv /\ [Next]_vars => MeterInv'
  <1> SUFFICES ASSUME ExtractionTyped, MeterInv, [Next]_vars PROVE MeterInv'
    OBVIOUS
  <1>1. CASE UNCHANGED vars
    BY <1>1, OthersMeter DEF vars, noted
  <1>2. CASE \E w \in Workers : RunStep(w) \/ ProposalThrows(w) \/ Crash(w)
    BY <1>2, RunStepMeters
  <1>3. CASE \E w \in Workers, j \in JobIds : Take(w, j)
    <2>1. PICK w \in Workers, j \in JobIds : Take(w, j)
      BY <1>3
    <2>2. /\ UNCHANGED <<usage, admitted, raced>> /\ run'[w].at = "read"
          /\ \A v \in Workers : v # w => run'[v] = run[v]
      BY <2>1, TakeDoes
    <2> QED BY <2>2, OthersMeter
  <1>4. CASE \E r \in Requests :
               \/ RequestStep(r)
               \/ \E d \in Docs : StoreBytes(r, d) \/ \E p \in {"retype", "link", "requeue", "erase"} : Ask(r, d, p)
    <2>1. UNCHANGED <<usage, admitted, raced, run>>
      BY <1>4 DEF RequestStep, InsertDocument, Enqueue, Retype, LinkDocument, Requeue, EraseBytes,
         MarkDeleted, Unlink, StoreBytes, Ask, noted
    <2> QED BY <2>1, OthersMeter
  <1> QED BY <1>1, <1>2, <1>3, <1>4 DEF Next

\* ai/fair-use.ts: whatever runs meet, and however often the jobs are tried
\* again, no more extractions are let through than the allowance and one for
\* each count that was written while another run stood between its own read of
\* the counter and its write; for any allowance.
THEOREM AllowanceHolds == Spec => []WithinAllowance
  <1>1. Init => MeterInv
    <2>1. ASSUME Init PROVE MeterInv
      <3>1. usage = 0 /\ admitted = 0 /\ raced = 0 /\ \A w \in Workers : run[w].at = "idle"
        BY <2>1 DEF Init, NoRun
      <3> QED BY <3>1, ExtractionAssumption DEF MeterInv
    <2> QED BY <2>1
  <1>2. ExtractionInv => ExtractionTyped
    BY DEF ExtractionInv
  <1> QED BY <1>1, <1>2, MeterStep, MeterHolds, ExtractionAlways, PTL DEF Spec

-----------------------------------------------------------------------------
(* The two together.                                                       *)

\* A behaviour of the composition is one of each of its parts.
LEMMA PartsBehave == MCSpec => Spec /\ RetentionSpec
  <1>1. MCInit => Init /\ RetentionInit
    BY DEF MCInit
  <1>2. [MCNext]_<<part, vars, retentionVars>> => [Next]_vars /\ [RetentionNext]_retentionVars
    BY DEF MCNext
  <1> QED BY <1>1, <1>2, PTL DEF MCSpec, Spec, RetentionSpec

\* documents/service.ts and cases/retention.ts: extraction's and retention's
\* rows and actors keep the shape the code gives them.
THEOREM DocumentsAreTyped == MCSpec => []DocumentsTypeOK
  <1>1. ExtractionInv => TypeOK
    BY InvIsHonest
  <1>2. RetentionInv => RetentionTypeOK
    BY Consequences
  <1>3. TypeOK /\ RetentionTypeOK => DocumentsTypeOK
    BY DEF DocumentsTypeOK
  <1> QED BY <1>1, <1>2, <1>3, PartsBehave, ExtractionAlways, RetentionInvariant, PTL

=============================================================================
