--------------------------- MODULE DocumentClaims ---------------------------
(***************************************************************************)
(* What the documentation, the comments and the docstrings of the          *)
(* repository say of the job pipeline and the code does not do.  Each      *)
(* formula restates one such sentence; a run shows how DocumentJobs        *)
(* breaks it.                                                              *)
(***************************************************************************)
EXTENDS DocumentJobs

Quiet == \A w \in Workers : pc[w] = "idle"

\* README.md:260-261, of GetIndexingJobStatusResponse: error_message is
\* "populated only on FAILED".
ErrorOnlyOnFailed ==
    \A j \in Jobs : StatusReply(j).error # "" => StatusReply(j).status = "FAILED"

\* queue/rabbitmq.py:70-72: a message the handler raises on is dropped because
\* "the job repo records FAILED"; workers/document_worker.py:26-27: the worker
\* marks a job RUNNING and moves it to SUCCEEDED or FAILED afterwards.  So a
\* RUNNING job is still with the broker or with a worker.
DroppedIsFinished ==
    \A j \in published : rows[j].status = "RUNNING" => InBroker(j) \/ AtWork(j)

\* README.md:139: "Every record is scoped by client_id": indexing on behalf of
\* one tenant never takes over a point of another.
ScopedByClient ==
    [][\A c \in ChunkIds : points[c] # None /\ points'[c] # None
                           => points'[c].client = points[c].client]_storeVars

\* README.md:106-107 and 127-128: re-indexing overwrites a document's points,
\* and FULL_DOC reconstructs its full text from them.  So a tenant's points of a
\* document are those of one version of it.
SingleVersion ==
    \A a, b \in ChunkIds :
        a[1] = b[1] /\ points[a] # None /\ points[b] # None
        /\ points[a].client = points[b].client
        => points[a].job = points[b].job

\* The same, asked only when nothing is running: the two versions do not go away.
OneVersion == Quiet => SingleVersion

\* vector_stores/base.py:18 and workers/document_worker.py:96-97: ensure_collection
\* creates the collection "if absent" and is idempotent after the first run.  So
\* no index job fails because the collection exists.
EnsureIsIdempotent ==
    \A j \in Jobs : rows[j].error # "conflict"
=============================================================================
