---------------------------- MODULE Identifiers ----------------------------
(***************************************************************************)
(* The names that flow between the API server, the job table, the queue,   *)
(* the worker and the vector store (src/doccontext/ids.py).                *)
(***************************************************************************)
EXTENDS Integers

CONSTANTS Jobs,       \* the job_id values (uuid4) that may be drawn
          Clients,    \* tenants
          Corpora,    \* corpora of the tenants
          Docs,       \* document ids that clients choose themselves
          MaxChunks,  \* bound: the most chunks a file is cut into
          None        \* an empty field, an idle channel, a missing point

ASSUME NamesAssumption ==
    /\ MaxChunks \in Nat
    /\ Jobs \cap Docs = {}
    /\ None \notin Jobs \cup Docs \cup Clients \cup Corpora

\* A document id is the client's own, or a uuid drawn together with the job:
\* that uuid is written as the job itself.
DocIds == Docs \cup Jobs

\* chunk_id_for hashes "document_id:chunk_index" (uuid5): the pair stands for
\* the hash.  Neither the tenant nor the corpus is part of it.
chunk_id_for(document_id, chunk_index) == <<document_id, chunk_index>>
ChunkIds == DocIds \X (0 .. MaxChunks - 1)
=============================================================================
