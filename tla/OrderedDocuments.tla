-------------------------- MODULE OrderedDocuments --------------------------
(***************************************************************************)
(* What clients are promised of their documents, without the queue, the    *)
(* workers and the round trips: a published job is pending until it is     *)
(* settled, the oldest pending job is the only one at work, it may be      *)
(* tried any number of times, each try takes effect at once or not at all, *)
(* and SUCCEEDED is only reported of work that is in place.                *)
(***************************************************************************)
EXTENDS JobEffects

VARIABLES
    published,  \* the jobs in the queue, past and present
    ahead,      \* job -> the jobs published before it
    pending     \* the published jobs that are not settled

vars == <<rows, request, points, published, ahead, pending>>

Init ==
    /\ RepoInit
    /\ request = [j \in Jobs |-> None]
    /\ points = [c \in ChunkIds |-> None]
    /\ published = {}
    /\ ahead = [j \in Jobs |-> {}]
    /\ pending = {}

Accept(j) ==
    /\ Create(j)
    /\ \E r \in JobRequest : request' = [request EXCEPT ![j] = r]
    /\ UNCHANGED <<points, published, ahead, pending>>

Publish(j) ==
    /\ j \notin published /\ request[j] # None
    /\ published' = published \cup {j}
    /\ ahead' = [ahead EXCEPT ![j] = published]
    /\ pending' = pending \cup {j}
    /\ UNCHANGED <<rows, request, points>>

Oldest(j) == j \in pending /\ ahead[j] \cap pending = {}

\* The row says RUNNING; what an earlier try left in the error column stays.
Begin(j) ==
    /\ Oldest(j)
    /\ rows' = [rows EXCEPT ![j] = Running(@)]
    /\ UNCHANGED <<request, points, published, ahead, pending>>

\* The work takes effect; a try that nobody awaits any more may be the last.
Apply(j) ==
    /\ Oldest(j) /\ Started(j)
    /\ LET r == request[j]
       IN  IF r.type = Index
           THEN Upsert(r.doc, ChunkCount[r.file],
                       [client |-> r.client, corpus |-> r.corpus, job |-> j])
           ELSE DeleteMatching(r.client, r.doc)
    /\ pending' \in {pending, pending \ {j}}
    /\ UNCHANGED <<rows, request, published, ahead>>

Succeed(j) ==
    /\ Oldest(j) /\ Started(j) /\ InPlace(j)
    /\ rows' = [rows EXCEPT ![j] = Succeeded(@)]
    /\ UNCHANGED <<request, points, published, ahead, pending>>

\* A job that fails for want of a collection had nothing to delete.
Fail(j, e) ==
    /\ Oldest(j) /\ Started(j)
    /\ e = "missing" => InPlace(j)
    /\ rows' = [rows EXCEPT ![j] = Failed(@, e)]
    /\ UNCHANGED <<request, points, published, ahead, pending>>

\* Finished, or given up.
Settle(j) ==
    /\ Oldest(j)
    /\ pending' = pending \ {j}
    /\ UNCHANGED <<rows, request, points, published, ahead>>

Next ==
    \E j \in Jobs : \/ Accept(j) \/ Publish(j) \/ Begin(j) \/ Apply(j)
                    \/ Succeed(j) \/ (\E e \in Errors : Fail(j, e)) \/ Settle(j)

Spec == Init /\ [][Next]_vars
-----------------------------------------------------------------------------
\* Jobs take effect in the order they were published, whatever crashes or
\* reconnects in between: what a SUCCEEDED index job stored is only replaced by
\* a job published after it, and once a delete has SUCCEEDED no point of a job
\* published before it is left.
AppliedInOrder ==
    \A j \in Jobs : IsSucceeded(j) =>
        /\ IsIndex(j) =>
              \/ \A c \in ChunksOf(j) : StoredBy(c, j)
              \/ \E k \in Jobs : j \in ahead[k] /\ SameDoc(j, k) /\ Started(k)
        /\ IsDelete(j) =>
              \A c \in Matching(request[j].client, request[j].doc) :
                  points[c].job \notin ahead[j]
=============================================================================
