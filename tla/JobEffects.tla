----------------------------- MODULE JobEffects -----------------------------
(***************************************************************************)
(* What the jobs leave in the vector store.                                *)
(***************************************************************************)
EXTENDS JobRepository, Points

CONSTANT ChunkCount   \* file -> number of chunks of its text

ASSUME EffectAssumption ==
    /\ ChunkCount \in [Files -> 0 .. MaxChunks]
    /\ None \notin Files \cup Payload \cup JobRequest

\* The points an index job writes.
ChunksOf(j) == {chunk_id_for(request[j].doc, i) : i \in 0 .. ChunkCount[request[j].file] - 1}
StoredBy(c, j) == points[c] # None /\ points[c].job = j

\* Right after the work of a job, this holds.
InPlace(j) ==
    IF request[j].type = Index
    THEN \A c \in ChunksOf(j) : StoredBy(c, j)
    ELSE Matching(request[j].client, request[j].doc) = {}
=============================================================================
