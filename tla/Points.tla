------------------------------- MODULE Points -------------------------------
(***************************************************************************)
(* The points of the Qdrant collection.  A point's id is                   *)
(* chunk_id_for(document_id, chunk_index): here that pair itself.  Its     *)
(* payload keeps the tenant, the corpus and, standing for the text and the *)
(* vector, the job that wrote it.                                          *)
(***************************************************************************)
EXTENDS Identifiers

VARIABLE points   \* chunk id -> payload, None when there is no such point

Payload == [client : Clients, corpus : Corpora, job : Jobs]

\* upsert: chunks 0 .. n - 1 of doc overwrite the points with their ids.
Upsert(doc, n, payload) ==
    LET written == {chunk_id_for(doc, i) : i \in 0 .. n - 1}
    IN  points' = [c \in ChunkIds |-> IF c \in written THEN payload ELSE points[c]]

\* The points delete_by_document selects, by payload and not by id.
Matching(client, doc) ==
    {c \in ChunkIds : c[1] = doc /\ points[c] # None /\ points[c].client = client}

\* Mutant: only the first chunk is deleted.
DeleteFirstChunk(client, doc) ==
    points' = [c \in ChunkIds |->
                  IF c \in Matching(client, doc) /\ c[2] = 0 THEN None ELSE points[c]]

DeleteMatching(client, doc) ==
    points' = [c \in ChunkIds |-> IF c \in Matching(client, doc) THEN None ELSE points[c]]
=============================================================================
