--------------------------- MODULE MCDocumentJobs ---------------------------
(* Small instances of DocumentJobs for TLC. *)
EXTENDS DocumentOrder, TLC

CONSTANTS j1, j2, j3, w1, w2, c1, c2, k1, k2, d1, long, short, blank, bad

IndexRequest(client, corpus, doc, file) ==
    [type |-> Index, client |-> client, corpus |-> corpus, doc |-> doc, file |-> file]
DeleteRequest(client, doc) ==
    [type |-> Delete, client |-> client, corpus |-> None, doc |-> doc, file |-> None]

MCChunkCount == (long :> 2) @@ (short :> 1) @@ (blank :> 0) @@ (bad :> 0)

\* One document of one tenant is indexed and deleted; another tenant uses the
\* same document id; a file has no text; a request lacks a field.
MCRequests ==
    {IndexRequest(c1, k1, d1, long), DeleteRequest(c1, d1), IndexRequest(c2, k2, d1, short),
     IndexRequest(c1, k1, None, blank),
     IndexRequest(c1, None, d1, long), DeleteRequest(None, d1)}

\* One document is indexed and deleted; a file cannot be read.
MCFewRequests ==
    {IndexRequest(c1, k1, d1, long), DeleteRequest(c1, d1), IndexRequest(c1, k1, None, bad)}

\* Versions of one document, their deletion and a namesake of another tenant.
MCOrderRequests ==
    {IndexRequest(c1, k1, d1, long), DeleteRequest(c1, d1), IndexRequest(c2, k2, d1, short)}

Budget(f) == [g \in Faults |-> IF g \in f THEN 1 ELSE 0]
MCCallsReturn == Budget(Faults \ {"backend", "timeout"})
MCReconnect   == Budget({"crash", "connection", "backend", "timeout"})
MCOrderFaults == Budget(Faults \ {"server", "timeout"})
MCCrash       == Budget({"crash"})

\* Of the faults a run allows, no more than three strike in one behaviour.
ThreeFaults == Cardinality({f \in Faults : Injected(f)}) <= 3

MCSymmetry == Permutations(Jobs) \cup Permutations(Workers)
=============================================================================
