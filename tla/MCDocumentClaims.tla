-------------------------- MODULE MCDocumentClaims --------------------------
(* The instances in which TLC refutes the claims of DocumentClaims. *)
EXTENDS DocumentClaims, MCDocumentJobs

MCStop           == Budget({"stop"})
MCNoFaults       == Budget({})

MCBadFile        == {IndexRequest(c1, k1, d1, bad)}
\* A document in its old version, its new one, and its new one for another corpus.
MCTwoVersions    ==
    {IndexRequest(c1, k1, d1, long), IndexRequest(c1, k1, d1, short), IndexRequest(c1, k2, d1, short)}
MCTwoClients     == {IndexRequest(c1, k1, d1, long), IndexRequest(c2, k2, d1, short)}
=============================================================================
