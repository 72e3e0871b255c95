-------------------------- MODULE MCQueryDocuments --------------------------
(* A small instance of QueryDocuments for TLC. *)
EXTENDS QueryDocuments, TLC

CONSTANTS q1, q2, q3, q4, j1, j2, c1, c2, k1, d1

Written(doc, chunks, client, job) ==
    [doc |-> doc, chunks |-> chunks,
     payload |-> [client |-> client, corpus |-> k1, job |-> job]]

\* A document of three chunks and a new version of it, one of another tenant
\* with the same id, and one with an id of its own.
MCWrites == {Written(d1, 3, c1, j1), Written(d1, 2, c1, j2),
             Written(d1, 1, c2, j1), Written(j1, 2, c1, j1)}

MCQueryRequests == {[client |-> c1, corpora |-> {k1}], [client |-> c1, corpora |-> {}]}

\* The ids of the chunks of d1 are in the order 1, 0, 2.
MCRank == [c \in ChunkIds |->
              (CASE c[2] = 0 -> 2 [] c[2] = 1 -> 1 [] c[2] = 2 -> 3)
              + (CASE c[1] = d1 -> 0 [] c[1] = j1 -> 10 [] c[1] = j2 -> 20)]

\* Every query ends.  The clients differ in nothing but their names, so TLC
\* only watches one of them.
EveryQueryEnds == QueryEnds(q1)
=============================================================================
