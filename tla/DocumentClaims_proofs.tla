----------------------- MODULE DocumentClaims_proofs -----------------------
(***************************************************************************)
(* How much of DocumentClaims holds: what the points of a document are     *)
(* whatever happens, and on what conditions the sentences that the code    *)
(* breaks are true.  For any number of jobs, workers, tenants and          *)
(* documents.                                                              *)
(***************************************************************************)
EXTENDS DocumentClaims, JobOutcomes_proofs

\* Only an upsert and a delete change the points, on behalf of a job, be it late.
LEMMA PointsChange ==
    ASSUME IInv, [Next]_vars
    PROVE  \/ UNCHANGED points
           \/ UNCHANGED serverVars /\ \E k \in published : Touches(k)
<1>1. CASE UNCHANGED storeVars
  BY <1>1 DEF storeVars
<1>2. CASE (\E j \in Jobs : Server(j)) \/ (\E w \in Workers, j \in Jobs : DeliverTo(w, j)) \/ UNCHANGED vars
  BY <1>1, <1>2 DEF Server, IndexDocument, DeleteDocument, Accept, PublishEnvelope, HandlerFails, DeliverTo, vars
<1>3. ASSUME NEW w \in Workers, Work(w) \/ WorkerFault(w) \/ Restart(w)
      PROVE  \/ UNCHANGED points
             \/ /\ UNCHANGED serverVars /\ pc[w] \in Thread
                /\ \/ pc[w] = "upsert" /\ StorePoints(job[w])
                   \/ pc[w] = "delete" /\ DeleteMatching(Parameters(w).client, Parameters(w).doc)
  <2>1. CASE UpsertChunks(w) \/ DeletePoints(w)
    BY <2>1 DEF UpsertChunks, DeletePoints, Thread
  <2>2. CASE BackendFails(w)
    BY <2>2 DEF BackendFails, Effect, storeVars, Parameters
  <2>3. CASE ~UpsertChunks(w) /\ ~DeletePoints(w) /\ ~BackendFails(w)
    BY <1>3, <2>3 DEF storeVars, Work, WorkerFault, Restart, Take, TakeStale, Settle, GetRow,
       MarkRunning, MarkSucceeded, MarkFailed, Extract, GetCollections, CreateMissing, CreateConflicts,
       CreateIndexes, Count, DatabaseFails, CallTimesOut, Crash, Stop, ConnectionLost
  <2> QED BY <2>1, <2>2, <2>3
<1>4. ASSUME NEW w \in Workers, pc[w] \in Thread, pc[w] = "upsert" \/ pc[w] = "delete"
      PROVE  /\ job[w] \in published
             /\ pc[w] = "upsert" => request[job[w]].type = Index
             /\ pc[w] = "delete" => request[job[w]].type = Delete
  <2>1. pc[w] \in Busy /\ (pc[w] = "upsert" => pc[w] \in Thread \ {"count", "delete"})
    BY <1>4 DEF Busy
  <2> QED BY <1>4, <2>1 DEF IInv, WorkerInv, WorkerShape
<1>5. ASSUME NEW w \in Workers, Work(w) \/ WorkerFault(w) \/ Restart(w)
      PROVE  UNCHANGED points \/ (UNCHANGED serverVars /\ \E k \in published : Touches(k))
  BY <1>3, <1>4, <1>5 DEF Touches, Parameters
<1>6. ASSUME NEW e \in late, TakesEffect(e)
      PROVE  UNCHANGED points \/ (UNCHANGED serverVars /\ \E k \in published : Touches(k))
  BY <1>6, EffectTouches DEF TakesEffect, IInv, LateInv
<1> QED BY <1>2, <1>5, <1>6 DEF Next

\* A request is recorded once, under a fresh job id.
LEMMA RequestsStay ==
    ASSUME IInv, [Next]_vars
    PROVE  \A j \in Jobs : request[j] # None => request'[j] = request[j]
<1>1. UNCHANGED serverVars \/ \E j \in Jobs : Server(j)
  BY DEF Next, vars, DeliverTo, Work, WorkerFault, Restart, Take, TakeStale, Settle, GetRow, MarkRunning,
         MarkSucceeded, MarkFailed, Extract, GetCollections, CreateMissing, CreateConflicts,
         CreateIndexes, UpsertChunks, Count, DeletePoints, DatabaseFails, BackendFails, CallTimesOut,
         TakesEffect, Crash, Stop, ConnectionLost
<1>2. CASE UNCHANGED serverVars
  BY <1>2 DEF serverVars
<1>3. ASSUME NEW j \in Jobs, Server(j), NEW k \in Jobs, request[k] # None
      PROVE  request'[k] = request[k]
  <2>1. request \in [Jobs -> JobRequest \cup {None}]
    BY DEF IInv, TypeOK, ServerTypeOK
  <2>2. CASE UNCHANGED request
    BY <2>2
  <2>3. CASE \E r, doc : Accept(j, r, doc)
    <3>1. rows[j] = Absent
      BY <2>3 DEF Accept, Create
    <3>2. rows[j].status = "ABSENT"
      <4>1. Absent.status = "ABSENT"
        BY DEF Absent
      <4> QED BY <3>1, <4>1
    <3>3. rows[k].status # "ABSENT"
      BY <1>3 DEF IInv, ServerInv
    <3> QED BY <2>1, <2>3, <3>2, <3>3 DEF Accept
  <2> QED BY <1>3, <2>2, <2>3
          DEF Server, IndexDocument, DeleteDocument, PublishEnvelope, HandlerFails
<1> QED BY <1>1, <1>2, <1>3
-----------------------------------------------------------------------------
(* The points.                                                              *)

\* Every point names an index job and its tenant.
Owned(c) ==
    points[c] # None =>
        /\ points[c].job \in Jobs /\ IsIndex(points[c].job)
        /\ points[c].client = request[points[c].job].client
        /\ c \in ChunksOf(points[c].job)

OwnedInv == \A c \in ChunkIds : Owned(c)

\* What an upsert writes, and what it leaves.
LEMMA UpsertWrites ==
    ASSUME IInv, NEW j \in published, request[j].type = Index, StorePoints(j)
    PROVE  /\ j \in Jobs /\ IsIndex(j)
           /\ \A c \in ChunksOf(j) :
                  /\ points'[c] # None /\ points'[c].job = j
                  /\ points'[c].client = request[j].client
           /\ \A c \in ChunkIds \ ChunksOf(j) : points'[c] = points[c]
<1>2. j \in Jobs /\ request[j] \in JobRequest /\ request[j].type = Index
  BY CallOfJob
<1>3. request[j] # None
  BY <1>2, EffectAssumption
<1> DEFINE p == [client |-> request[j].client, corpus |-> request[j].corpus, job |-> j]
<1>4. \A c \in ChunkIds : points'[c] = IF c \in ChunksOf(j) THEN p ELSE points[c]
  BY DEF StorePoints, Upsert, ChunksOf
<1>5. p # None
  BY <1>2, EffectAssumption DEF JobRequest, Payload, Index, Delete
<1>6. ChunksOf(j) \subseteq ChunkIds
  BY <1>2, ChunksAreIds
<1> QED BY <1>2, <1>3, <1>4, <1>5, <1>6 DEF IsIndex

\* A point that is not written stays as it was, or goes.
LEMMA OwnedStays ==
    ASSUME IInv, [Next]_vars, NEW c \in ChunkIds, Owned(c), points'[c] \in {points[c], None}
    PROVE  Owned(c)'
<1> SUFFICES ASSUME points'[c] # None PROVE Owned(c)'
  BY DEF Owned
<1>1. points'[c] = points[c] /\ points[c].job \in Jobs /\ IsIndex(points[c].job)
      /\ points[c].client = request[points[c].job].client /\ c \in ChunksOf(points[c].job)
  BY DEF Owned
<1>2. request'[points[c].job] = request[points[c].job]
  BY <1>1, RequestsStay DEF IsIndex
<1> QED BY <1>1, <1>2 DEF Owned, IsIndex, ChunksOf

LEMMA DeleteTakes ==
    ASSUME NEW client, NEW doc, DeleteMatching(client, doc), NEW c \in ChunkIds
    PROVE  points'[c] \in {points[c], None}
BY DEF DeleteMatching

LEMMA NextOwned == IInv /\ OwnedInv /\ [Next]_vars => OwnedInv'
<1> SUFFICES ASSUME IInv, OwnedInv, [Next]_vars, NEW c \in ChunkIds PROVE Owned(c)'
  BY DEF OwnedInv
<1>1. Owned(c)
  BY DEF OwnedInv
<1>2. CASE points'[c] \in {points[c], None}
  BY <1>1, <1>2, OwnedStays
<1>3. ASSUME UNCHANGED serverVars, NEW k \in published, request[k].type = Index, StorePoints(k),
             c \in ChunksOf(k)
      PROVE  Owned(c)'
  <2>1. /\ k \in Jobs /\ IsIndex(k) /\ points'[c].job = k
        /\ points'[c].client = request[k].client
    BY <1>3, UpsertWrites
  <2>2. UNCHANGED request
    BY <1>3 DEF serverVars
  <2> QED BY <1>3, <2>1, <2>2 DEF Owned, IsIndex, ChunksOf
<1> QED BY <1>2, <1>3, PointsChange, UpsertWrites, DeleteTakes DEF Touches

LEMMA NoPoints == Init => \A c \in ChunkIds : points[c] = None
<1> SUFFICES ASSUME Init PROVE \A c \in ChunkIds : points[c] = None
  OBVIOUS
<1>1. points = [c \in ChunkIds |-> None]
  BY DEF Init, StoreInit
<1> QED BY <1>1

LEMMA AlwaysOwned == Spec => []OwnedInv
<1>1. Init => OwnedInv
  BY NoPoints DEF OwnedInv, Owned
<1> QED BY <1>1, NextOwned, AlwaysIInv, PTL DEF Spec

\* An upsert overwrites all that stands within its reach, so that of two jobs with
\* points on one document the one in front has ended.
LEMMA NextTrail == IInv /\ OwnedInv /\ LeftoversTrail /\ [Next]_vars => LeftoversTrail'
<1> SUFFICES ASSUME IInv, OwnedInv, LeftoversTrail, [Next]_vars,
                    NEW b \in ChunkIds, points'[b] # None
             PROVE  /\ b \in ChunksOf(points[b].job)'
                    /\ \A a \in ChunkIds :
                           a[1] = b[1] /\ a[2] < b[2] /\ points'[a] # None
                           /\ points'[a].job # points'[b].job
                           => b \notin ChunksOf(points[a].job)'
  BY DEF LeftoversTrail
<1>1. \A c \in ChunkIds : Owned(c) /\ Owned(c)'
  BY NextOwned DEF OwnedInv
<1>2. b \in ChunksOf(points[b].job)'
  BY <1>1 DEF Owned
<1> SUFFICES ASSUME NEW a \in ChunkIds, a[1] = b[1], a[2] < b[2], points'[a] # None,
                    points'[a].job # points'[b].job
             PROVE  b \notin ChunksOf(points[a].job)'
  BY <1>2
<1>3. ASSUME points'[a] = points[a], points'[b] = points[b]
      PROVE  b \notin ChunksOf(points[a].job)'
  <2>1. b \notin ChunksOf(points[a].job) /\ points[a].job \in Jobs /\ IsIndex(points[a].job)
    BY <1>1, <1>3 DEF LeftoversTrail, Owned
  <2>2. request'[points[a].job] = request[points[a].job]
    BY <2>1, RequestsStay DEF IsIndex
  <2> QED BY <1>3, <2>1, <2>2 DEF ChunksOf
<1>4. ASSUME UNCHANGED serverVars, NEW j \in published, request[j].type = Index, StorePoints(j)
      PROVE  b \notin ChunksOf(points[a].job)'
  <2> DEFINE W == ChunksOf(j)
  <2>1. /\ \A c \in W : points'[c].job = j
        /\ \A c \in ChunkIds \ W : points'[c] = points[c]
    BY <1>4, UpsertWrites
  <2>2. ASSUME b \in W PROVE a \in W
    <3>1. PICK i \in 0 .. ChunkCount[request[j].file] - 1 : b = <<request[j].doc, i>>
      BY <2>2 DEF ChunksOf, chunk_id_for
    <3>2. PICK d \in DocIds, k \in 0 .. MaxChunks - 1 : a = <<d, k>>
      BY DEF ChunkIds
    <3>3. d = request[j].doc /\ k < i
      BY <3>1, <3>2
    <3>4. ChunkCount[request[j].file] \in Nat
      <4>1. request[j].file \in Files
        <5>1. j \in Jobs /\ IsIndex(j)
          BY <1>4, UpsertWrites
        <5> QED BY <5>1 DEF IsIndex, IInv, TypeOK, ServerTypeOK, JobRequest, Index, Delete
      <4> QED BY <4>1, EffectAssumption, NamesAssumption
    <3>5. k \in 0 .. ChunkCount[request[j].file] - 1
      BY <3>3, <3>4, NamesAssumption
    <3> QED BY <3>2, <3>3, <3>5 DEF ChunksOf, chunk_id_for
  <2>3. b \notin W
    BY <2>1, <2>2
  <2>4. CASE a \in W
    <3>1. UNCHANGED request
      BY <1>4 DEF serverVars
    <3> QED BY <2>1, <2>3, <2>4, <3>1 DEF ChunksOf
  <2>5. CASE a \notin W
    BY <1>3, <2>1, <2>3, <2>5
  <2> QED BY <2>4, <2>5
<1>5. ASSUME NEW client, NEW doc, DeleteMatching(client, doc)
      PROVE  b \notin ChunksOf(points[a].job)'
  BY <1>3, <1>5, DeleteTakes
<1> QED BY <1>3, <1>4, <1>5, PointsChange DEF Touches

\* Versions of a document do not interleave, for any number of workers, tenants and
\* redeliveries (document_worker.py:88-116).
THEOREM LeftoversAlwaysTrail == Spec => []LeftoversTrail
<1>1. Init => LeftoversTrail
  BY NoPoints DEF LeftoversTrail
<1> QED BY <1>1, NextTrail, AlwaysOwned, AlwaysIInv, PTL DEF Spec
-----------------------------------------------------------------------------
(* The claims, on their conditions.                                         *)

\* What a job indexes or deletes is what some client asked for.
Asked(j) ==
    request[j] # None =>
        \E r \in Requests :
            /\ request[j].client = r.client
            /\ request[j].doc = IF r.doc = None THEN j ELSE r.doc
            /\ IsIndex(j) => r.type = Index /\ request[j].file = r.file

AskedInv == \A j \in Jobs : Asked(j)

LEMMA AcceptAsked ==
    ASSUME IInv, NEW j \in Jobs, NEW r \in Requests, IndexDocument(j, r) \/ DeleteDocument(j, r)
    PROVE  Asked(j)' /\ \A k \in Jobs \ {j} : request'[k] = request[k]
<1>1. request \in [Jobs -> JobRequest \cup {None}] /\ r \in Request
  BY DataAssumption DEF IInv, TypeOK, ServerTypeOK
<1>2. CASE IndexDocument(j, r)
  <2>1. request' = [request EXCEPT ![j] = [r EXCEPT !.doc = IF r.doc = None THEN j ELSE r.doc]]
        /\ r.type = Index
    BY <1>2 DEF IndexDocument, Accept
  <2>2. request'[j] = [r EXCEPT !.doc = IF r.doc = None THEN j ELSE r.doc]
    BY <1>1, <2>1
  <2>3. request'[j].client = r.client /\ request'[j].file = r.file
        /\ request'[j].doc = IF r.doc = None THEN j ELSE r.doc
    BY <1>1, <2>2 DEF Request
  <2> QED BY <1>1, <2>1, <2>3 DEF Asked
<1>3. CASE DeleteDocument(j, r)
  <2> DEFINE p == [[r EXCEPT !.corpus = None, !.file = None] EXCEPT !.doc = r.doc]
  <2>1. request' = [request EXCEPT ![j] = p] /\ r.type = Delete /\ r.doc # None
    BY <1>3 DEF DeleteDocument, Accept
  <2>2. p.client = r.client /\ p.type = r.type /\ p.doc = r.doc
    BY <1>1 DEF Request
  <2>3. request'[j].client = r.client /\ request'[j].type = Delete /\ request'[j].doc = r.doc
    BY <1>1, <2>1, <2>2
  <2>4. ~IsIndex(j)'
    BY <2>3 DEF IsIndex, Index, Delete
  <2> QED BY <1>1, <2>1, <2>3, <2>4 DEF Asked
<1> QED BY <1>2, <1>3

LEMMA AskedStays ==
    ASSUME NEW k \in Jobs, Asked(k), request'[k] = request[k]
    PROVE  Asked(k)'
BY DEF Asked, IsIndex

LEMMA NextAsked == IInv /\ AskedInv /\ [Next]_vars => AskedInv'
<1> SUFFICES ASSUME IInv, AskedInv, [Next]_vars, NEW k \in Jobs PROVE Asked(k)'
  BY DEF AskedInv
<1>1. Asked(k)
  BY DEF AskedInv
<1>2. \/ UNCHANGED request
      \/ \E j \in Jobs, r \in Requests : IndexDocument(j, r) \/ DeleteDocument(j, r)
  BY DEF Next, vars, serverVars, Server, PublishEnvelope, HandlerFails, DeliverTo, Work, WorkerFault,
         Restart, Take, TakeStale, Settle, GetRow, MarkRunning, MarkSucceeded, MarkFailed, Extract,
         GetCollections, CreateMissing, CreateConflicts, CreateIndexes, UpsertChunks, Count,
         DeletePoints, DatabaseFails, BackendFails, CallTimesOut, TakesEffect, Crash, Stop,
         ConnectionLost
<1>3. ASSUME NEW j \in Jobs, NEW r \in Requests, IndexDocument(j, r) \/ DeleteDocument(j, r)
      PROVE  Asked(k)'
  BY <1>1, <1>3, AcceptAsked, AskedStays
<1> QED BY <1>1, <1>2, <1>3, AskedStays

LEMMA AlwaysAsked == Spec => []AskedInv
<1>1. Init => AskedInv
  <2> SUFFICES ASSUME Init, NEW j \in Jobs PROVE request[j] = None
    BY DEF AskedInv, Asked
  <2>1. request = [k \in Jobs |-> None]
    BY DEF Init
  <2> QED BY <2>1
<1> QED BY <1>1, NextAsked, AlwaysIInv, PTL DEF Spec

\* Jobs on one document were asked for under its name, or are one job.
LEMMA SameDocument ==
    ASSUME IInv, AskedInv, NEW j \in Jobs, NEW k \in Jobs,
           IsIndex(j), IsIndex(k), request[j].doc = request[k].doc
    PROVE  \/ j = k
           \/ \E r, s \in Requests :
                  /\ r.type = Index /\ s.type = Index /\ r.doc # None /\ r.doc = s.doc
                  /\ request[j].client = r.client /\ request[k].client = s.client
                  /\ request[j].file = r.file /\ request[k].file = s.file
<1>1. PICK r \in Requests : /\ request[j].client = r.client
                            /\ request[j].doc = IF r.doc = None THEN j ELSE r.doc
                            /\ r.type = Index /\ request[j].file = r.file
  BY DEF AskedInv, Asked, IsIndex
<1>2. PICK s \in Requests : /\ request[k].client = s.client
                            /\ request[k].doc = IF s.doc = None THEN k ELSE s.doc
                            /\ s.type = Index /\ request[k].file = s.file
  BY DEF AskedInv, Asked, IsIndex
<1>3. r.doc \in Docs \cup {None} /\ s.doc \in Docs \cup {None}
  BY DataAssumption DEF Request
<1>4. j \notin Docs \cup {None} /\ k \notin Docs \cup {None}
  BY NamesAssumption
<1> QED BY <1>1, <1>2, <1>3, <1>4

\* "Every record is scoped by client_id" (README.md:139) holds if no two tenants
\* name a document the same: the ids the server draws never collide.
THEOREM ScopedIfNamesDiffer ==
    ASSUME \A r, s \in Requests :
               r.type = Index /\ s.type = Index /\ r.doc # None /\ r.doc = s.doc
               => r.client = s.client
    PROVE  Spec => ScopedByClient
<1>1. ASSUME IInv, OwnedInv, AskedInv, [Next]_vars, NEW c \in ChunkIds,
             points[c] # None, points'[c] # None
      PROVE  points'[c].client = points[c].client
  <2>1. CASE points'[c] \in {points[c], None}
    BY <1>1, <2>1
  <2>2. ASSUME NEW k \in published, request[k].type = Index, StorePoints(k), c \in ChunksOf(k)
        PROVE  points'[c].client = points[c].client
    <3>1. /\ k \in Jobs /\ IsIndex(k)
          /\ points'[c].client = request[k].client
      BY <1>1, <2>2, UpsertWrites
    <3>2. /\ points[c].job \in Jobs /\ IsIndex(points[c].job)
          /\ points[c].client = request[points[c].job].client
          /\ c \in ChunksOf(points[c].job)
      BY <1>1 DEF OwnedInv, Owned
    <3>3. request[k].doc = c[1] /\ request[points[c].job].doc = c[1]
      BY <2>2, <3>2 DEF ChunksOf, chunk_id_for
    <3>4. request[k].client = request[points[c].job].client
      BY <1>1, <3>1, <3>2, <3>3, SameDocument
    <3> QED BY <3>1, <3>2, <3>4
  <2> QED BY <1>1, <2>1, <2>2, PointsChange, UpsertWrites, DeleteTakes DEF Touches
<1>2. IInv /\ OwnedInv /\ AskedInv /\ [Next]_vars =>
          [\A c \in ChunkIds : points[c] # None /\ points'[c] # None
                               => points'[c].client = points[c].client]_storeVars
  BY <1>1
<1> QED BY <1>2, AlwaysIInv, AlwaysOwned, AlwaysAsked, PTL DEF Spec, ScopedByClient

\* The points of a document are of one version of it (README.md:106-107) in every
\* state, workers running or not, if all its versions have equally many chunks, also
\* of other tenants.
THEOREM OneVersionIfSizesAgree ==
    ASSUME \A r, s \in Requests :
               r.type = Index /\ s.type = Index /\ r.doc # None /\ r.doc = s.doc
               => ChunkCount[r.file] = ChunkCount[s.file]
    PROVE  Spec => []SingleVersion
<1>1. ASSUME IInv, OwnedInv, AskedInv, LeftoversTrail, NEW a \in ChunkIds, NEW b \in ChunkIds,
             a[1] = b[1], a[2] < b[2], points[a] # None, points[b] # None
      PROVE  points[a].job = points[b].job
  <2>1. /\ points[a].job \in Jobs /\ IsIndex(points[a].job) /\ a \in ChunksOf(points[a].job)
        /\ points[b].job \in Jobs /\ IsIndex(points[b].job) /\ b \in ChunksOf(points[b].job)
    BY <1>1 DEF OwnedInv, Owned
  <2>2. request[points[a].job].doc = a[1] /\ request[points[b].job].doc = a[1]
    BY <1>1, <2>1 DEF ChunksOf, chunk_id_for
  <2>3. ChunkCount[request[points[a].job].file] = ChunkCount[request[points[b].job].file]
    BY <1>1, <2>1, <2>2, SameDocument
  <2>4. ChunksOf(points[a].job) = ChunksOf(points[b].job)
    BY <2>2, <2>3 DEF ChunksOf
  <2> QED BY <1>1, <2>1, <2>4 DEF LeftoversTrail
<1>2. IInv /\ OwnedInv /\ AskedInv /\ LeftoversTrail => SingleVersion
  <2> SUFFICES ASSUME IInv, OwnedInv, AskedInv, LeftoversTrail,
                      NEW a \in ChunkIds, NEW b \in ChunkIds,
                      a[1] = b[1], points[a] # None, points[b] # None
               PROVE  points[a].job = points[b].job
    BY DEF SingleVersion
  <2>1. PICK i \in 0 .. MaxChunks - 1 : a = <<a[1], i>>
    BY DEF ChunkIds
  <2>2. PICK k \in 0 .. MaxChunks - 1 : b = <<b[1], k>>
    BY DEF ChunkIds
  <2>3. i < k \/ k < i \/ a = b
    BY <2>1, <2>2
  <2> QED BY <1>1, <2>1, <2>2, <2>3
<1> QED BY <1>2, AlwaysIInv, AlwaysOwned, AlwaysAsked, LeftoversAlwaysTrail, PTL

\* No fault strikes more often than its bound.
WithinBounds == \A f \in Faults : faults[f] <= MaxFaults[f]

LEMMA AlwaysWithinBounds == Spec => []WithinBounds
<1>1. Init => WithinBounds
  <2> SUFFICES ASSUME Init, NEW f \in Faults PROVE faults[f] <= MaxFaults[f]
    BY DEF WithinBounds
  <2>1. faults = [g \in Faults |-> 0]
    BY DEF Init
  <2> QED BY <2>1, DataAssumption
<1>2. IInv /\ WithinBounds /\ [Next]_vars => WithinBounds'
  <2> SUFFICES ASSUME IInv, WithinBounds, [Next]_vars, NEW g \in Faults
               PROVE  faults'[g] <= MaxFaults[g]
    BY DEF WithinBounds
  <2>1. faults \in [Faults -> Nat] /\ MaxFaults \in [Faults -> Nat] /\ faults[g] <= MaxFaults[g]
    BY DataAssumption DEF IInv, TypeOK, WithinBounds
  <2>2. ASSUME NEW f \in Faults, Strike(f) PROVE faults'[g] <= MaxFaults[g]
    <3>1. faults[f] < MaxFaults[f] /\ faults' = [faults EXCEPT ![f] = @ + 1]
      BY <2>2 DEF Strike
    <3>2. CASE f = g
      BY <2>1, <3>1, <3>2
    <3>3. CASE f # g
      BY <2>1, <3>1, <3>3
    <3> QED BY <3>2, <3>3
  <2> QED BY <2>1, <2>2, FaultStep
<1> QED BY <1>1, <1>2, AlwaysIInv, PTL DEF Spec

LEMMA NeverStrikes ==
    ASSUME IInv, WithinBounds, NEW f \in Faults, MaxFaults[f] = 0
    PROVE  ~Injected(f) /\ ~Strike(f)
<1>1. faults[f] \in Nat /\ faults[f] <= 0
  BY DEF IInv, TypeOK, WithinBounds
<1> QED BY <1>1 DEF Injected, Strike

\* With a single worker no index job fails because the collection exists
\* (vector_stores/base.py:18), whatever else fails, if no call takes effect after its
\* timeout.
THEOREM EnsureIsIdempotentAlone ==
    ASSUME NEW w, Workers = {w}, MaxFaults["timeout"] = 0
    PROVE  Spec => []EnsureIsIdempotent
<1>1. IsFiniteSet(Workers) /\ Workers # {} /\ Cardinality(Workers) = 1
  BY FS_Singleton
<1>2. RaceInv /\ ConflictsAreFew /\ ~Injected("timeout") => EnsureIsIdempotent
  <2> SUFFICES ASSUME RaceInv, ConflictsAreFew, ~Injected("timeout") PROVE EnsureIsIdempotent
    OBVIOUS
  <2>1. IsFiniteSet(Conflicted) /\ Cardinality(Conflicted) \in Nat
    BY FS_CardinalityType DEF RaceInv
  <2>2. Cardinality(Conflicted) = 0
    BY <1>1, <2>1 DEF ConflictsAreFew
  <2>3. Conflicted = {}
    BY <2>1, <2>2, FS_EmptySet
  <2> QED BY <2>3 DEF Conflicted, EnsureIsIdempotent
<1>3. (Spec => []RaceInv) /\ (Spec => []ConflictsAreFew)
  BY <1>1, AlwaysRace, FewLoseTheRace
<1>4. IInv /\ WithinBounds => ~Injected("timeout")
  BY NeverStrikes DEF Faults
<1> QED BY <1>2, <1>3, <1>4, AlwaysIInv, AlwaysWithinBounds, PTL

\* No job stays RUNNING that nobody is at any more (queue/rabbitmq.py:70-72: "the job
\* repo records FAILED") as long as the job table answers, no worker is stopped, and workers either
\* do not die or do not lose their connections.  Extracting, embedding and Qdrant
\* may fail as they like.
THEOREM DroppedIsFinishedMostly ==
    ASSUME MaxFaults["database"] = 0, MaxFaults["stop"] = 0,
           MaxFaults["crash"] = 0 \/ MaxFaults["connection"] = 0
    PROVE  Spec => []DroppedIsFinished
<1>1. IInv /\ WithinBounds => ~MessageGivenUp
  BY NeverStrikes DEF MessageGivenUp, Faults
<1>2. NoLostJob /\ ~MessageGivenUp => DroppedIsFinished
  BY DEF NoLostJob, DroppedIsFinished, Finished
<1> QED BY <1>1, <1>2, NoJobIsLost, AlwaysWithinBounds, AlwaysIInv, PTL

\* error_message is "populated only on FAILED" (README.md:260-261) if nothing makes
\* the broker deliver a message again.  The calls and the job table may fail.
THEOREM ErrorOnlyOnFailedAtFirst ==
    ASSUME MaxFaults["crash"] = 0, MaxFaults["stop"] = 0, MaxFaults["connection"] = 0
    PROVE  Spec => []ErrorOnlyOnFailed
<1> DEFINE Fresh == redelivered = {}
<1>1. Init => Fresh
  BY DEF Init, QueueInit
<1>2. IInv /\ WithinBounds /\ Fresh /\ [Next]_vars => Fresh'
  <2> SUFFICES ASSUME IInv, WithinBounds, Fresh, [Next]_vars PROVE UNCHANGED redelivered
    OBVIOUS
  <2>1. ~Strike("crash") /\ ~Strike("stop") /\ ~Strike("connection")
    BY NeverStrikes DEF Faults
  <2>2. ASSUME NEW w \in Workers PROVE ~Crash(w) /\ ~Stop(w) /\ ~ConnectionLost(w)
    BY <2>1 DEF Crash, Stop, ConnectionLost
  <2>3. CASE \E j \in Jobs : Server(j)
    BY <2>3 DEF Server, IndexDocument, DeleteDocument, Accept, PublishEnvelope, HandlerFails, Publish,
                queueVars
  <2>4. CASE \E w \in Workers, j \in Jobs : DeliverTo(w, j)
    BY <2>4 DEF DeliverTo, Deliver
  <2>5. ASSUME NEW w \in Workers, Work(w) \/ Restart(w) \/ DatabaseFails(w) \/ BackendFails(w)
                                \/ CallTimesOut(w)
        PROVE  UNCHANGED redelivered
    BY <2>5 DEF Work, Restart, Take, TakeStale, Settle, Discard, GetRow, MarkRunning, MarkSucceeded, MarkFailed,
                Extract, GetCollections, CreateMissing, CreateConflicts, CreateIndexes, UpsertChunks,
                Count, DeletePoints, DatabaseFails, BackendFails, CallTimesOut, queueVars
  <2>6. CASE UNCHANGED vars \/ \E e \in late : TakesEffect(e)
    BY <2>6 DEF vars, queueVars, TakesEffect
  <2> QED BY <2>2, <2>3, <2>4, <2>5, <2>6 DEF Next, WorkerFault
<1>3. FailedTellsWhy /\ Fresh => ErrorOnlyOnFailed
  <2> SUFFICES ASSUME FailedTellsWhy, Fresh, NEW j \in Jobs, StatusReply(j).error # ""
               PROVE  StatusReply(j).status = "FAILED"
    BY DEF ErrorOnlyOnFailed
  <2>1. rows[j] # Absent /\ StatusReply(j) = rows[j]
    BY DEF StatusReply
  <2> QED BY <2>1 DEF FailedTellsWhy
<1> QED BY <1>1, <1>2, <1>3, FailuresAreTold, AlwaysWithinBounds, AlwaysIInv, PTL DEF Spec
=============================================================================
