--------------------------- MODULE JobRepository ---------------------------
(***************************************************************************)
(* The indexing_jobs table and the JobRepository class                     *)
(* (src/doccontext/repositories/job.py).  Every method opens a session of  *)
(* its own.  A status change is a SELECT by primary key followed, in a     *)
(* later statement, by an UPDATE: the two are separate steps here, and     *)
(* other sessions may commit in between (PostgreSQL READ COMMITTED).       *)
(***************************************************************************)
EXTENDS Identifiers

CONSTANT Files  \* values of storage_path

VARIABLES
    rows,    \* job_id -> the columns of its row that change, or Absent
    request  \* job_id -> the columns that do not, None when there is no row

Index  == "INDEX_DOCUMENT"
Delete == "DELETE_DOCUMENT"

\* A job's parameters, as its row and its envelope carry them.
JobRequest ==
    [type : {Index}, client : Clients, corpus : Corpora, doc : DocIds, file : Files]
    \cup [type : {Delete}, client : Clients, corpus : {None}, doc : Docs, file : {None}]

Statuses == {"QUEUED", "RUNNING", "SUCCEEDED", "FAILED"}

\* The text of str(exc), one token per cause; "" is the NULL error_message.
Errors == {"extract", "conflict", "missing", "backend", "database"}

Absent == [status |-> "ABSENT", error |-> ""]
Row    == [status : Statuses \cup {"ABSENT"}, error : Errors \cup {""}]

RepoTypeOK == rows \in [Jobs -> Row]
RepoInit   == rows = [j \in Jobs |-> Absent]

\* create: INSERT of a QUEUED row, committed.
Create(j) ==
    /\ rows[j] = Absent
    /\ rows' = [rows EXCEPT ![j] = [status |-> "QUEUED", error |-> ""]]

\* The values mark_running, mark_succeeded and mark_failed give to the loaded
\* row object.  mark_running passes no error_message, so it keeps the old one.
Running(loaded)   == [loaded EXCEPT !.status = "RUNNING"]
Succeeded(loaded) == [status |-> "SUCCEEDED", error |-> ""]

\* Mutant: mark_failed drops its error_message.
FailedWithoutReason(loaded, e) == [loaded EXCEPT !.status = "FAILED"]

Failed(loaded, e) == [status |-> "FAILED", error |-> e]

\* A flushed UPDATE names only the columns whose value differs from the value
\* the session loaded; the others keep whatever is in the table by now.
Column(loaded, assigned, stored) == IF assigned = loaded THEN stored ELSE assigned

\* The commit of _transition, for a session that loaded `loaded` and assigned
\* `new` to it.
Transition(j, loaded, new) ==
    rows' = [rows EXCEPT ![j] =
                [status |-> Column(loaded.status, new.status, @.status),
                 error  |-> Column(loaded.error, new.error, @.error)]]

IsIndex(j)    == request[j] # None /\ request[j].type = Index
IsDelete(j)   == request[j] # None /\ request[j].type = Delete
SameDoc(j, k) == request[j] # None /\ request[k] # None /\ request[j].doc = request[k].doc

IsSucceeded(j) == rows[j].status = "SUCCEEDED"

Finished(j) == rows[j].status \in {"SUCCEEDED", "FAILED"}
Started(j)  == rows[j].status \in {"RUNNING", "SUCCEEDED", "FAILED"}

\* What GetIndexingJobStatus answers: the row verbatim, or NOT_FOUND.
StatusReply(j) ==
    IF rows[j] = Absent THEN [status |-> "NOT_FOUND", error |-> ""] ELSE rows[j]
=============================================================================
