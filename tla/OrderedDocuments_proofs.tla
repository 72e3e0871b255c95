---------------------- MODULE OrderedDocuments_proofs ----------------------
(***************************************************************************)
(* The order that OrderedDocuments keeps, proved for any jobs, documents   *)
(* and files.                                                              *)
(***************************************************************************)
EXTENDS OrderedDocuments, TLAPS

TypeOK ==
    /\ RepoTypeOK
    /\ request \in [Jobs -> JobRequest \cup {None}]
    /\ published \subseteq Jobs
    /\ ahead \in [Jobs -> SUBSET Jobs]
    /\ pending \subseteq published

\* Publishing orders the jobs, and nobody starts a job before its turn.
TurnInv ==
    /\ \A j \in published : request[j] # None
    /\ \A j \in Jobs : ahead[j] \subseteq published
    /\ \A i, j \in published : i = j \/ i \in ahead[j] \/ j \in ahead[i]
    /\ \A j \in Jobs : Started(j) => j \in published /\ ahead[j] \cap pending = {}

OrderInv == TypeOK /\ TurnInv /\ AppliedInOrder
-----------------------------------------------------------------------------
LEMMA InitOrder == Init => OrderInv
<1> SUFFICES ASSUME Init PROVE OrderInv
  OBVIOUS
<1>1. \A j \in Jobs : rows[j].status = "ABSENT"
  BY DEF Init, RepoInit, Absent
<1>2. TypeOK
  BY DEF Init, TypeOK, RepoInit, RepoTypeOK, Absent, Row, Statuses
<1>3. TurnInv
  BY <1>1 DEF Init, TurnInv, Started
<1>4. AppliedInOrder
  BY <1>1 DEF AppliedInOrder, IsSucceeded
<1> QED BY <1>2, <1>3, <1>4 DEF OrderInv

\* What the actions that touch neither points nor requests leave of the order:
\* a job that is SUCCEEDED afterwards was so before, or its work is in place.
LEMMA StatusStep ==
    ASSUME OrderInv, TypeOK', UNCHANGED <<request, points, published, ahead>>, pending' \subseteq pending,
           \A j \in Jobs : Started(j) => Started(j)',
           \A j \in Jobs : Started(j)' => Started(j) \/ Oldest(j),
           \A j \in Jobs : IsSucceeded(j)' => IsSucceeded(j) \/ InPlace(j)
    PROVE  OrderInv'
<1>1. TurnInv'
  BY DEF OrderInv, TypeOK, TurnInv, Oldest
<1>2. ASSUME NEW j \in Jobs, IsSucceeded(j)', IsIndex(j)'
      PROVE  \/ \A c \in ChunksOf(j)' : StoredBy(c, j)'
             \/ \E k \in Jobs : j \in ahead'[k] /\ SameDoc(j, k)' /\ Started(k)'
  <2>1. IsIndex(j) /\ ChunksOf(j)' = ChunksOf(j) /\ \A c : StoredBy(c, j)' <=> StoredBy(c, j)
    BY <1>2 DEF IsIndex, ChunksOf, StoredBy
  <2>2. \A k \in Jobs : SameDoc(j, k)' <=> SameDoc(j, k)
    BY DEF SameDoc
  <2>3. CASE IsSucceeded(j)
    BY <2>1, <2>2, <2>3 DEF OrderInv, AppliedInOrder
  <2>4. CASE InPlace(j)
    BY <2>1, <2>4 DEF InPlace, IsIndex
  <2> QED BY <1>2, <2>3, <2>4
<1>3. ASSUME NEW j \in Jobs, IsSucceeded(j)', IsDelete(j)',
             NEW c \in Matching(request[j].client, request[j].doc)'
      PROVE  points'[c].job \notin ahead'[j]
  <2>1. IsDelete(j) /\ c \in Matching(request[j].client, request[j].doc)
    BY <1>3 DEF IsDelete, Matching
  <2>2. CASE IsSucceeded(j)
    BY <2>1, <2>2 DEF OrderInv, AppliedInOrder
  <2>3. CASE InPlace(j)
    BY <2>1, <2>3 DEF InPlace, IsDelete, Index, Delete
  <2> QED BY <1>3, <2>2, <2>3
<1>4. AppliedInOrder'
  BY <1>2, <1>3 DEF AppliedInOrder
<1> QED BY <1>1, <1>4 DEF OrderInv

\* The statuses the three marks write.
LEMMA MarkStep ==
    ASSUME OrderInv, NEW j \in Jobs, Oldest(j),
           NEW new \in Row, new.status \in {"RUNNING", "SUCCEEDED", "FAILED"},
           new.status = "SUCCEEDED" => InPlace(j),
           rows' = [rows EXCEPT ![j] = new],
           UNCHANGED <<request, points, published, ahead, pending>>
    PROVE  OrderInv'
<1>1. rows'[j] = new /\ \A k \in Jobs \ {j} : rows'[k] = rows[k]
  BY DEF OrderInv, TypeOK, RepoTypeOK
<1>2. TypeOK'
  BY DEF OrderInv, TypeOK, RepoTypeOK
<1> QED BY <1>1, <1>2, StatusStep DEF Started, IsSucceeded

LEMMA ApplyStep ==
    ASSUME OrderInv, NEW k \in Jobs, Apply(k)
    PROVE  OrderInv'
<1>1. TypeOK'
  BY DEF OrderInv, TypeOK, Apply, RepoTypeOK
<1>2. /\ UNCHANGED <<rows, request, published, ahead>> /\ pending' \subseteq pending
      /\ k \in pending /\ k \in published /\ Started(k)
  BY DEF OrderInv, TypeOK, Apply, Oldest
<1>3. \A j \in Jobs : /\ Started(j)' <=> Started(j)
                      /\ IsSucceeded(j)' <=> IsSucceeded(j)
                      /\ IsIndex(j)' <=> IsIndex(j)
                      /\ IsDelete(j)' <=> IsDelete(j)
                      /\ ChunksOf(j)' = ChunksOf(j)
  BY <1>2 DEF Started, IsSucceeded, IsIndex, IsDelete, ChunksOf
<1>4. TurnInv'
  BY <1>2, <1>3 DEF OrderInv, TypeOK, TurnInv
<1>5. PICK r \in JobRequest : r = request[k]
  BY <1>2 DEF OrderInv, TypeOK, TurnInv
<1> DEFINE payload == [client |-> r.client, corpus |-> r.corpus, job |-> k]
<1>6. \/ r.type = Index /\ Upsert(r.doc, ChunkCount[r.file], payload)
      \/ r.type = Delete /\ DeleteMatching(r.client, r.doc)
  BY <1>5 DEF Apply, JobRequest
<1>7. r.type = Index => payload # None
  <2>1. r.type = Index => payload \in Payload
    BY <1>5 DEF JobRequest, Payload, Index, Delete
  <2> QED BY <2>1, EffectAssumption
\* Whatever changes is a point of k's document, and what is new is k's.
<1>8. \A c \in ChunkIds : points'[c] = points[c]
                          \/ (c[1] = r.doc /\ (points'[c] = None \/ points'[c].job = k))
  <2>1. CASE r.type = Index /\ Upsert(r.doc, ChunkCount[r.file], payload)
    BY <2>1 DEF Upsert, chunk_id_for
  <2>2. CASE r.type = Delete /\ DeleteMatching(r.client, r.doc)
    BY <2>2 DEF DeleteMatching, Matching
  <2> QED BY <1>6, <2>1, <2>2
<1>9. ASSUME NEW j \in Jobs, IsSucceeded(j)', IsIndex(j)'
      PROVE  \/ \A c \in ChunksOf(j)' : StoredBy(c, j)'
             \/ \E i \in Jobs : j \in ahead'[i] /\ SameDoc(j, i)' /\ Started(i)'
  <2>1. IsSucceeded(j) /\ IsIndex(j) /\ Started(j) /\ request[j] \in JobRequest
    BY <1>3, <1>9 DEF IsSucceeded, Started, IsIndex, OrderInv, TypeOK
  <2>2. CASE \E i \in Jobs : j \in ahead[i] /\ SameDoc(j, i) /\ Started(i)
    BY <1>2, <1>3, <2>2 DEF SameDoc
  <2>3. CASE \A c \in ChunksOf(j) : StoredBy(c, j)
    <3>0. \A c \in ChunksOf(j) : c \in ChunkIds /\ c[1] = request[j].doc
      <4>1. ChunkCount[request[j].file] \in 0 .. MaxChunks /\ request[j].doc \in DocIds
        BY <2>1, EffectAssumption DEF IsIndex, JobRequest, Index, Delete
      <4> QED BY <4>1, NamesAssumption DEF ChunksOf, ChunkIds, chunk_id_for
    <3>1. CASE j = k
      <4>1. Upsert(r.doc, ChunkCount[r.file], payload) /\ payload # None
        BY <1>5, <1>6, <1>7, <2>1, <3>1 DEF IsIndex, Index, Delete
      <4> QED BY <1>3, <1>5, <3>0, <3>1, <4>1 DEF ChunksOf, StoredBy, Upsert
    <3>2. CASE j # k /\ request[j].doc = r.doc
      <4>1. j \in published /\ k \notin ahead[j]
        BY <1>2, <2>1 DEF OrderInv, TurnInv
      <4>2. j \in ahead[k]
        BY <1>2, <3>2, <4>1 DEF OrderInv, TurnInv
      <4>3. SameDoc(j, k)
        BY <1>5, <2>1, <3>2, EffectAssumption DEF SameDoc
      <4> QED BY <1>2, <1>3, <4>2, <4>3 DEF SameDoc
    <3>3. CASE request[j].doc # r.doc
      BY <1>3, <1>8, <2>3, <3>0, <3>3 DEF StoredBy
    <3> QED BY <3>1, <3>2, <3>3
  <2> QED BY <2>1, <2>2, <2>3 DEF OrderInv, AppliedInOrder
<1>10. ASSUME NEW j \in Jobs, IsSucceeded(j)', IsDelete(j)',
              NEW c \in Matching(request[j].client, request[j].doc)'
       PROVE  points'[c].job \notin ahead'[j]
  <2>1. IsSucceeded(j) /\ IsDelete(j) /\ Started(j)
    BY <1>3, <1>10 DEF IsSucceeded, Started
  <2>2. c \in ChunkIds /\ points'[c] # None
    BY <1>10 DEF Matching
  <2>3. CASE points'[c] = points[c]
    <3>1. c \in Matching(request[j].client, request[j].doc)
      BY <1>2, <1>10, <2>3 DEF Matching
    <3> QED BY <1>2, <2>1, <2>3, <3>1 DEF OrderInv, AppliedInOrder
  <2>4. CASE points'[c].job = k
    BY <1>2, <2>1, <2>4 DEF OrderInv, TurnInv
  <2> QED BY <1>8, <2>2, <2>3, <2>4
<1>11. AppliedInOrder'
  BY <1>9, <1>10 DEF AppliedInOrder
<1> QED BY <1>1, <1>4, <1>11 DEF OrderInv

\* A new job: nothing that has started is touched.
LEMMA NewJobStep ==
    ASSUME OrderInv, NEW j \in Jobs, Accept(j) \/ Publish(j)
    PROVE  OrderInv'
<1>1. TypeOK'
  <2>1. CASE Accept(j)
    <3>1. RepoTypeOK'
      BY <2>1 DEF OrderInv, TypeOK, Accept, Create, RepoTypeOK, Row, Statuses
    <3>2. request' \in [Jobs -> JobRequest \cup {None}]
      BY <2>1 DEF OrderInv, TypeOK, Accept
    <3> QED BY <2>1, <3>1, <3>2 DEF OrderInv, TypeOK, Accept
  <2>2. CASE Publish(j)
    BY <2>2 DEF OrderInv, TypeOK, Publish, RepoTypeOK
  <2> QED BY <2>1, <2>2
<1>2. UNCHANGED points /\ ~Started(j) /\ ~Started(j)'
      /\ \A k \in Jobs \ {j} : rows'[k] = rows[k] /\ request'[k] = request[k] /\ ahead'[k] = ahead[k]
  <2>1. CASE Accept(j)
    <3>1. rows[j].status = "ABSENT" /\ rows'[j].status = "QUEUED"
      <4> DEFINE new == [status |-> "QUEUED", error |-> ""]
      <4>1. Absent.status = "ABSENT" /\ new.status = "QUEUED"
        BY DEF Absent
      <4>2. rows[j] = Absent /\ rows'[j] = new
        BY <2>1 DEF Accept, Create, OrderInv, TypeOK, RepoTypeOK
      <4> HIDE DEF new
      <4> QED BY <4>1, <4>2
    <3>2. \A k \in Jobs \ {j} : rows'[k] = rows[k]
      BY <2>1 DEF Accept, Create, OrderInv, TypeOK, RepoTypeOK
    <3>3. \A k \in Jobs \ {j} : request'[k] = request[k]
      BY <2>1 DEF Accept, OrderInv, TypeOK
    <3> QED BY <2>1, <3>1, <3>2, <3>3 DEF Accept, Started
  <2>2. CASE Publish(j)
    BY <2>2 DEF Publish, Started, OrderInv, TypeOK, TurnInv
  <2> QED BY <2>1, <2>2
<1>3. \A k \in Jobs : /\ Started(k)' <=> Started(k)
                      /\ Started(k) => /\ k # j /\ rows'[k] = rows[k]
                                       /\ request'[k] = request[k] /\ ahead'[k] = ahead[k]
  BY <1>2 DEF Started
<1>4. TurnInv'
  <2>1. CASE Accept(j)
    <3>1. j \notin published => \A k \in published : request'[k] # None
      BY <1>2 DEF OrderInv, TypeOK, TurnInv
    <3>2. request'[j] # None
      BY <2>1, EffectAssumption DEF Accept, OrderInv, TypeOK
    <3>3. \A k \in published : request'[k] # None
      BY <1>2, <3>2 DEF OrderInv, TypeOK, TurnInv, Accept
    <3> QED BY <1>3, <2>1, <3>3 DEF OrderInv, TypeOK, TurnInv, Accept
  <2>2. CASE Publish(j)
    <3>1. \A k \in published : request'[k] # None
      BY <2>2 DEF Publish, OrderInv, TurnInv
    <3>2. \A k \in Jobs : Started(k)' => k \in published' /\ ahead'[k] \cap pending' = {}
      \* j has not started and is behind everything that has.
      <4> SUFFICES ASSUME NEW k \in Jobs, Started(k)
                   PROVE  k \in published' /\ ahead'[k] \cap pending' = {}
        BY <1>3
      <4>1. k \in published /\ ahead[k] \cap pending = {} /\ ahead'[k] = ahead[k]
        BY <1>3 DEF OrderInv, TurnInv
      <4>2. j \notin ahead[k]
        BY <2>2 DEF Publish, OrderInv, TypeOK, TurnInv
      <4> QED BY <2>2, <4>1, <4>2 DEF Publish
    <3> QED BY <2>2, <3>1, <3>2 DEF Publish, OrderInv, TypeOK, TurnInv
  <2> QED BY <2>1, <2>2
<1>5. AppliedInOrder'
  <2>1. \A k \in Jobs : IsSucceeded(k)' => IsSucceeded(k) /\ Started(k)
    BY <1>2, <1>3 DEF IsSucceeded, Started
  <2> QED BY <1>2, <1>3, <2>1 DEF OrderInv, AppliedInOrder, IsIndex, IsDelete, ChunksOf, StoredBy, SameDoc, Matching
<1> QED BY <1>1, <1>4, <1>5 DEF OrderInv

LEMMA NextOrder == OrderInv /\ [Next]_vars => OrderInv'
<1>1. ASSUME OrderInv, UNCHANGED vars PROVE OrderInv'
  BY <1>1 DEF vars, OrderInv, TypeOK, RepoTypeOK, TurnInv, AppliedInOrder, Started, IsSucceeded,
         IsIndex, IsDelete, ChunksOf, StoredBy, SameDoc, Matching
<1>2. ASSUME OrderInv, NEW j \in Jobs, Begin(j) \/ Succeed(j) \/ \E e \in Errors : Fail(j, e)
      PROVE  OrderInv'
  <2>1. rows[j] \in Row
    BY <1>2 DEF OrderInv, TypeOK, RepoTypeOK
  <2>2. CASE Begin(j)
    <3>1. Running(rows[j]) \in Row /\ Running(rows[j]).status = "RUNNING"
      BY <2>1 DEF Running, Row, Statuses
    <3> QED BY <1>2, <2>2, <3>1, MarkStep DEF Begin
  <2>3. CASE Succeed(j)
    <3>1. Succeeded(rows[j]) \in Row /\ Succeeded(rows[j]).status = "SUCCEEDED"
      BY DEF Succeeded, Row, Statuses
    <3> QED BY <1>2, <2>3, <3>1, MarkStep DEF Succeed
  <2>4. ASSUME NEW e \in Errors, Fail(j, e) PROVE OrderInv'
    <3>1. Failed(rows[j], e) \in Row /\ Failed(rows[j], e).status = "FAILED"
      BY DEF Failed, Row, Statuses
    <3> QED BY <1>2, <2>4, <3>1, MarkStep DEF Fail
  <2> QED BY <1>2, <2>2, <2>3, <2>4
<1>3. ASSUME OrderInv, NEW j \in Jobs, Settle(j) PROVE OrderInv'
  <2>1. UNCHANGED <<rows, request, points, published, ahead>> /\ pending' \subseteq pending
    BY <1>3 DEF Settle
  <2>2. TypeOK'
    BY <1>3, <2>1 DEF OrderInv, TypeOK, RepoTypeOK
  <2>3. \A k \in Jobs : (Started(k)' <=> Started(k)) /\ (IsSucceeded(k)' <=> IsSucceeded(k))
    BY <2>1 DEF Started, IsSucceeded
  <2> QED BY <1>3, <2>1, <2>2, <2>3, StatusStep
<1> QED BY <1>1, <1>2, <1>3, ApplyStep, NewJobStep DEF Next

\* In OrderedDocuments jobs take effect in the order they were published,
\* however often each is tried and however many of the tries fail.
THEOREM OrderKept == Spec => []AppliedInOrder
<1>1. OrderInv => AppliedInOrder
  BY DEF OrderInv
<1> QED BY <1>1, InitOrder, NextOrder, PTL DEF Spec
=============================================================================
