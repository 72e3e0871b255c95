------------------------ MODULE DocumentOrder_proofs ------------------------
(***************************************************************************)
(* With one worker, and any jobs, tenants and documents, and any faults    *)
(* but a call that takes effect after its timeout, DocumentJobs implements *)
(* OrderedDocuments.                                                       *)
(***************************************************************************)
EXTENDS DocumentOrder, DocumentJobs_proofs

-----------------------------------------------------------------------------
(* The inductive invariant, beyond IInv and StoredInv.                      *)

\* Whatever the broker holds was published after the job the worker is at and
\* after the message on its channel; and what the worker's iterator holds of a
\* dead channel the broker holds as well.
Turn(w) ==
    /\ \A j \in Jobs : ahead[j] \subseteq published /\ j \notin ahead[j]
    /\ channel[w] # None => ahead[channel[w]] \cap ready = {}
    /\ job[w] # None => ahead[job[w]] \cap (ready \cup {channel[w]}) = {}
    /\ \A i \in 1 .. Len(backlog[w]) :
           LET j == backlog[w][i]
           IN  j \in ready \cup {channel[w]} /\ ahead[j] \cap (ready \cup {channel[w]}) = {}

\* The worker reports success, or a missing collection, of work that is in
\* place, and no other session commits to the row it has loaded.
Progress(w) ==
    /\ pc[w] \in {"get_succeeded", "commit_succeeded"} => InPlace(job[w])
    /\ pc[w] \in {"get_failed", "commit_failed"} /\ exc[w] = "missing" => InPlace(job[w])
    /\ pc[w] \in {"upsert", "create_index"} => collection # "absent"
    /\ pc[w] \in Commit => loaded[w] = rows[job[w]]

NoPointsYet == collection = "absent" => \A c \in ChunkIds : points[c] = None

OrderInv(w) == Turn(w) /\ Progress(w) /\ NoPointsYet
-----------------------------------------------------------------------------
(* What the steps of OrderedDocuments look like from here.                  *)

Simulated == [Ordered!Next]_(Ordered!vars)

Front(j) == j \in OnItsWay /\ ahead[j] \cap OnItsWay = {}

LEMMA HiddenStep ==
    ASSUME UNCHANGED <<rows, request, points, published, ahead>>, OnItsWay' = OnItsWay
    PROVE  Simulated
BY DEF Simulated, Ordered!vars

LEMMA AcceptStep ==
    ASSUME NEW j \in Jobs, Create(j), NEW r \in JobRequest, request' = [request EXCEPT ![j] = r],
           UNCHANGED <<points, published, ahead>>, OnItsWay' = OnItsWay
    PROVE  Simulated
<1>1. Ordered!Create(j) /\ r \in Ordered!JobRequest
  BY DEF Create, Absent, JobRequest, DocIds, Index, Delete, Ordered!Create, Ordered!Absent,
         Ordered!JobRequest, Ordered!DocIds, Ordered!Index, Ordered!Delete
<1>2. Ordered!Accept(j)
  BY <1>1 DEF Ordered!Accept
<1> QED BY <1>2 DEF Simulated, Ordered!Next

LEMMA PublishStep ==
    ASSUME NEW j \in Jobs, j \notin published, request[j] # None, Publish(j),
           UNCHANGED <<rows, request, points>>, OnItsWay' = OnItsWay \cup {j}
    PROVE  Simulated
<1>1. Ordered!Publish(j)
  BY DEF Publish, Ordered!Publish
<1> QED BY <1>1 DEF Simulated, Ordered!Next

LEMMA SettleStep ==
    ASSUME NEW j \in Jobs, Front(j), UNCHANGED <<rows, request, points, published, ahead>>,
           OnItsWay' \in {OnItsWay, OnItsWay \ {j}}
    PROVE  Simulated
<1>1. CASE OnItsWay' = OnItsWay \ {j}
  <2>1. Ordered!Settle(j)
    BY <1>1 DEF Front, Ordered!Settle, Ordered!Oldest
  <2> QED BY <2>1 DEF Simulated, Ordered!Next
<1> QED BY <1>1, HiddenStep

LEMMA WorkStep ==
    ASSUME NEW j \in Jobs, Front(j), Started(j), UNCHANGED <<rows, request, published, ahead>>,
           OnItsWay' \in {OnItsWay, OnItsWay \ {j}},
           \/ /\ request[j].type = Index
              /\ Upsert(request[j].doc, ChunkCount[request[j].file],
                        [client |-> request[j].client, corpus |-> request[j].corpus, job |-> j])
           \/ /\ request[j].type = Delete
              /\ DeleteMatching(request[j].client, request[j].doc)
    PROVE  Simulated
<1>1. Ordered!Apply(j)
  BY DEF Front, Started, Upsert, DeleteMatching, Matching, ChunkIds, DocIds, chunk_id_for, Index, Delete,
         Ordered!Apply, Ordered!Oldest, Ordered!Started, Ordered!Upsert, Ordered!DeleteMatching,
         Ordered!Matching, Ordered!ChunkIds, Ordered!DocIds, Ordered!chunk_id_for, Ordered!Index
<1> QED BY <1>1 DEF Simulated, Ordered!Next

LEMMA MarkStep ==
    ASSUME NEW j \in Jobs, Front(j), UNCHANGED <<request, points, published, ahead>>, OnItsWay' = OnItsWay,
           \/ rows' = [rows EXCEPT ![j] = Running(rows[j])]
           \/ Started(j) /\ InPlace(j) /\ rows' = [rows EXCEPT ![j] = Succeeded(rows[j])]
           \/ \E e \in Errors : /\ Started(j) /\ (e = "missing" => InPlace(j))
                                /\ rows' = [rows EXCEPT ![j] = Failed(rows[j], e)]
    PROVE  Simulated
<1>1. /\ Ordered!Oldest(j)
      /\ Started(j) => Ordered!Started(j)
      /\ InPlace(j) => Ordered!InPlace(j)
  BY DEF Front, Started, InPlace, ChunksOf, StoredBy, Matching, ChunkIds, DocIds, chunk_id_for, Index,
         Ordered!Oldest, Ordered!Started, Ordered!InPlace, Ordered!ChunksOf, Ordered!StoredBy,
         Ordered!Matching, Ordered!ChunkIds, Ordered!DocIds, Ordered!chunk_id_for, Ordered!Index
<1>2. CASE rows' = [rows EXCEPT ![j] = Running(rows[j])]
  <2>1. Ordered!Begin(j)
    BY <1>1, <1>2 DEF Running, Ordered!Begin, Ordered!Running
  <2> QED BY <2>1 DEF Simulated, Ordered!Next
<1>3. CASE Started(j) /\ InPlace(j) /\ rows' = [rows EXCEPT ![j] = Succeeded(rows[j])]
  <2>1. Ordered!Succeed(j)
    BY <1>1, <1>3 DEF Succeeded, Ordered!Succeed, Ordered!Succeeded
  <2> QED BY <2>1 DEF Simulated, Ordered!Next
<1>4. ASSUME NEW e \in Errors, Started(j), e = "missing" => InPlace(j),
             rows' = [rows EXCEPT ![j] = Failed(rows[j], e)]
      PROVE  Simulated
  <2>1. Ordered!Fail(j, e) /\ e \in Ordered!Errors
    BY <1>1, <1>4 DEF Failed, Errors, Ordered!Fail, Ordered!Failed, Ordered!Errors
  <2> QED BY <2>1 DEF Simulated, Ordered!Next
<1> QED BY <1>2, <1>3, <1>4
-----------------------------------------------------------------------------
(* One worker w: what is on its way, and who is first.                      *)

LEMMA Way ==
    ASSUME NEW w, Workers = {w}
    PROVE  /\ OnItsWay = {j \in Jobs : j \in ready \/ channel[w] = j \/ job[w] = j}
           /\ OnItsWay' = {j \in Jobs : j \in ready' \/ channel'[w] = j \/ job'[w] = j}
BY DEF OnItsWay, InBroker

LEMMA JobInFront ==
    ASSUME NEW w, Workers = {w}, Turn(w), NEW j \in Jobs, job[w] = j
    PROVE  Front(j)
BY Way, NoneIsNoName DEF Turn, Front

\* The queue operations keep the turn, whether the worker keeps its job or not.
LEMMA TurnKept ==
    ASSUME NEW w, Workers = {w}, IInv, Turn(w), job'[w] \in {job[w], None},
           \/ UNCHANGED queueVars \/ (Discard(w) /\ backlog[w] = <<>>) \/ Requeue(w)
           \/ (\E taken : Reconnect(w, taken) /\ channel[w] # None)
           \/ \E j \in Jobs : Deliver(w, j) \/ (Publish(j) /\ j \notin published)
    PROVE  Turn(w)'
<1> USE NoneIsNoName
<1>1. /\ job[w] # None => job[w] \in published
      /\ channel[w] # None => channel[w] \in published
      /\ published \subseteq Jobs /\ ready \subseteq published
      /\ ahead \in [Jobs -> SUBSET Jobs] /\ channel \in [Workers -> Jobs \cup {None}]
      /\ backlog \in [Workers -> Seq(Jobs)]
  BY DEF IInv, TypeOK, QueueTypeOK, QueueInv, WorkerInv, WorkerShape
<1>0. ASSUME NEW q, q = <<>> PROVE 1 .. Len(q) = {}
  <2>1. Len(<<>>) = 0 /\ 1 .. 0 = {}
    OBVIOUS
  <2> QED BY <1>0, <2>1
<1>2. CASE UNCHANGED queueVars
  BY <1>2 DEF Turn, queueVars
<1>3. CASE Discard(w) /\ backlog[w] = <<>>
  <2>1. 1 .. Len(backlog'[w]) = {}
    BY <1>0, <1>3 DEF Discard
  <2> QED BY <1>1, <1>3, <2>1 DEF Turn, Discard
<1>4. CASE Requeue(w)
  <2>1. 1 .. Len(backlog'[w]) = {}
    BY <1>0, <1>1, <1>4 DEF Requeue
  <2> QED BY <1>1, <1>4, <2>1 DEF Turn, Requeue, PutBack
<1>7. ASSUME NEW taken, Reconnect(w, taken), channel[w] # None PROVE Turn(w)'
  <2>1. /\ ready' = ready \cup {channel[w]} /\ channel'[w] = None /\ ahead' = ahead
        /\ published' = published
    BY <1>1, <1>7 DEF Reconnect, PutBack
  <2>2. \A i \in 1 .. Len(backlog'[w]) :
            backlog'[w][i] = channel[w] \/ (i \in 1 .. Len(backlog[w]) /\ backlog'[w][i] = backlog[w][i])
    <3>1. backlog'[w] = backlog[w] \/ backlog'[w] = Append(backlog[w], channel[w])
      BY <1>1, <1>7 DEF Reconnect
    <3>2. backlog[w] \in Seq(Jobs) /\ channel[w] \in Jobs
      BY <1>1, <1>7
    <3> QED BY <3>1, <3>2
  <2>3. /\ ahead[channel[w]] \cap (ready \cup {channel[w]}) = {}
        /\ channel[w] \in Jobs
    BY <1>1, <1>7 DEF Turn
  <2> QED BY <1>1, <1>7, <2>1, <2>2, <2>3 DEF Turn
<1>5. ASSUME NEW j \in Jobs, Deliver(w, j) PROVE Turn(w)'
  <2>1. ready' \cup {channel'[w]} = ready \cup {j} /\ channel'[w] = j /\ ready' \subseteq ready
        /\ UNCHANGED <<published, ahead, backlog>> /\ channel[w] = None /\ j \in ready
    BY <1>1, <1>5 DEF Deliver
  <2>2. \A i \in 1 .. Len(backlog[w]) : backlog[w][i] \in Jobs
    BY <1>1
  <2> QED BY <1>1, <1>5, <2>1, <2>2 DEF Turn, Deliver
<1>6. ASSUME NEW j \in Jobs, Publish(j), j \notin published PROVE Turn(w)'
  <2>1. \A i \in published : ahead'[i] = ahead[i]
    BY <1>1, <1>6 DEF Publish
  <2>2. \A i \in Jobs : ahead'[i] \subseteq published' /\ i \notin ahead'[i]
    BY <1>1, <1>6 DEF Publish, Turn
  <2>3. \A i \in published : j \notin ahead[i]
    BY <1>1, <1>6 DEF Turn
  <2>4. \A i \in 1 .. Len(backlog[w]) : backlog[w][i] \in published
    BY <1>1 DEF Turn
  <2> QED BY <1>1, <1>6, <2>1, <2>2, <2>3, <2>4 DEF Publish, Turn
<1> QED BY <1>2, <1>3, <1>4, <1>5, <1>6, <1>7

\* InPlace(j) only looks at the request of j and the points.
LEMMA InPlaceKept ==
    ASSUME NEW j, UNCHANGED <<request, points>>
    PROVE  InPlace(j)' <=> InPlace(j)
BY DEF InPlace, ChunksOf, StoredBy, Matching
-----------------------------------------------------------------------------
(* The steps.                                                               *)

LEMMA OrderServer ==
    ASSUME NEW w, Workers = {w}, IInv, OrderInv(w), NEW j \in Jobs, Server(j)
    PROVE  OrderInv(w)' /\ Simulated
<1> USE NoneIsNoName
<1>1. UNCHANGED <<storeVars, workerVars>>
  BY DEF Server, IndexDocument, DeleteDocument, Accept, PublishEnvelope, HandlerFails
<1>2. NoPointsYet'
  BY <1>1 DEF OrderInv, NoPointsYet, storeVars
<1>3. CASE \E r \in Requests : IndexDocument(j, r) \/ DeleteDocument(j, r)
  <2>1. PICK p \in JobRequest :
            /\ handler[j] = "none" /\ Create(j)
            /\ request' = [request EXCEPT ![j] = p] /\ UNCHANGED queueVars
    BY <1>3, IndexParameters, DeleteParameters DEF IndexDocument, DeleteDocument, Accept
  <2>2. OnItsWay' = OnItsWay
    BY <1>1, <2>1, Way DEF queueVars, workerVars
  <2>3. Turn(w)'
    BY <1>1, <2>1, TurnKept DEF OrderInv, workerVars
  <2>4. ASSUME pc[w] \in Busy
        PROVE  /\ request'[job[w]] = request[job[w]] /\ rows'[job[w]] = rows[job[w]]
               /\ InPlace(job[w])' <=> InPlace(job[w])
    <3>1. PICK i \in Jobs : job[w] = i /\ i \in published /\ rows[i].status # "ABSENT"
      BY <2>4, BusyJob
    <3>2. i # j
      BY <2>1, <3>1 DEF IInv, ServerInv
    <3>3. request'[i] = request[i] /\ rows'[i] = rows[i]
      BY <2>1, <3>2 DEF Create, IInv, TypeOK, ServerTypeOK, RepoTypeOK
    <3>4. InPlace(i)' <=> InPlace(i)
      BY <1>1, <3>3 DEF InPlace, ChunksOf, StoredBy, Matching, storeVars
    <3>5. InPlace(job[w])' <=> InPlace(i)'
      BY <1>1, <3>1 DEF InPlace, ChunksOf, StoredBy, Matching, workerVars
    <3> QED BY <3>1, <3>3, <3>4, <3>5
  <2>5. Progress(w)'
    <3>1. /\ {"get_succeeded", "commit_succeeded", "get_failed", "commit_failed"} \subseteq Busy
          /\ Commit \subseteq Busy
      BY DEF Busy, Get, Commit
    <3> QED BY <1>1, <2>4, <3>1 DEF OrderInv, Progress, workerVars, storeVars
  <2>6. Simulated
    BY <1>1, <2>1, <2>2, AcceptStep DEF storeVars, queueVars
  <2> QED BY <1>2, <2>3, <2>5, <2>6 DEF OrderInv
<1>4. ASSUME handler[j] = "created", Publish(j) \/ UNCHANGED queueVars, UNCHANGED <<rows, request>>
      PROVE  OrderInv(w)' /\ Simulated
  <2>1. j \notin published /\ request[j] # None
    BY <1>4 DEF IInv, ServerInv
  <2>2. Turn(w)'
    BY <1>1, <1>4, <2>1, TurnKept DEF OrderInv, workerVars
  <2>3. Progress(w)'
    <3>1. InPlace(job[w])' <=> InPlace(job[w])
      BY <1>1, <1>4 DEF InPlace, ChunksOf, StoredBy, Matching, storeVars, workerVars
    <3> QED BY <1>1, <1>4, <3>1 DEF OrderInv, Progress, workerVars, storeVars
  <2>4. CASE Publish(j)
    <3>1. OnItsWay' = OnItsWay \cup {j}
      BY <1>1, <2>4, Way DEF Publish, workerVars
    <3>2. Simulated
      BY <1>1, <1>4, <2>1, <2>4, <3>1, PublishStep DEF storeVars
    <3> QED BY <1>2, <2>2, <2>3, <3>2 DEF OrderInv
  <2>5. CASE UNCHANGED queueVars
    <3>1. OnItsWay' = OnItsWay
      BY <1>1, <2>5, Way DEF queueVars, workerVars
    <3>2. Simulated
      BY <1>1, <1>4, <2>5, <3>1, HiddenStep DEF storeVars, queueVars
    <3> QED BY <1>2, <2>2, <2>3, <3>2 DEF OrderInv
  <2> QED BY <1>4, <2>4, <2>5
<1>5. CASE PublishEnvelope(j)
  BY <1>4, <1>5 DEF PublishEnvelope
<1>6. CASE HandlerFails(j)
  BY <1>4, <1>6 DEF HandlerFails
<1> QED BY <1>3, <1>5, <1>6 DEF Server

\* Whatever becomes of its message, the worker's job is all that can go.
LEMMA WayKept ==
    ASSUME NEW w, Workers = {w}, IInv, job'[w] \in {job[w], None},
           \/ UNCHANGED queueVars \/ PutBack(w) \/ \E j \in Jobs : Deliver(w, j)
           \/ Discard(w) /\ channel[w] = job[w]
    PROVE  /\ OnItsWay' \in {OnItsWay, OnItsWay \ {job[w]}}
           /\ UNCHANGED <<published, ahead>>
           /\ job[w] = None => OnItsWay' = OnItsWay
<1> USE NoneIsNoName
<1>1. channel[w] \in Jobs \cup {None} /\ channel[w] \notin ready
      /\ channel \in [Workers -> Jobs \cup {None}]
  BY DEF IInv, TypeOK, QueueTypeOK, QueueInv
<1>2. ASSUME UNCHANGED <<published, ahead>>,
             \/ \A j \in Jobs : (j \in ready' \/ channel'[w] = j) <=> (j \in ready \/ channel[w] = j)
             \/ /\ channel[w] = job[w]
                /\ \A j \in Jobs : (j \in ready' \/ channel'[w] = j) <=> j \in ready
      PROVE  /\ OnItsWay' \in {OnItsWay, OnItsWay \ {job[w]}}
             /\ UNCHANGED <<published, ahead>>
             /\ job[w] = None => OnItsWay' = OnItsWay
  <2>1. CASE \A j \in Jobs : (j \in ready' \/ channel'[w] = j) <=> (j \in ready \/ channel[w] = j)
    <3>1. OnItsWay' = {j \in Jobs : (j \in ready \/ channel[w] = j) \/ job'[w] = j}
      BY <2>1, Way
    <3>2. CASE job'[w] = job[w] \/ job[w] \in ready \/ channel[w] = job[w]
      <4>1. OnItsWay' = OnItsWay
        BY <3>1, <3>2, Way
      <4> QED BY <1>2, <4>1
    <3>3. CASE job'[w] = None /\ job[w] \notin ready /\ channel[w] # job[w]
      <4>1. OnItsWay' = OnItsWay \ {job[w]}
        BY <3>1, <3>3, Way
      <4>2. job[w] = None => OnItsWay' = OnItsWay
        BY <3>1, <3>3, Way
      <4> QED BY <1>2, <4>1, <4>2
    <3> QED BY <3>2, <3>3
  <2>2. CASE channel[w] = job[w] /\ \A j \in Jobs : (j \in ready' \/ channel'[w] = j) <=> j \in ready
    <3>1. OnItsWay' = {j \in Jobs : j \in ready \/ job'[w] = j}
      BY <2>2, Way
    <3>2. job'[w] = job[w] => OnItsWay' = OnItsWay
      BY <2>2, <3>1, Way
    <3>3. job'[w] = None => OnItsWay' = OnItsWay \ {job[w]}
      BY <1>1, <2>2, <3>1, Way
    <3>4. job[w] = None => OnItsWay \ {job[w]} = OnItsWay
      BY Way
    <3> QED BY <1>2, <3>2, <3>3, <3>4
  <2> QED BY <1>2, <2>1, <2>2
<1>3. CASE UNCHANGED queueVars
  BY <1>2, <1>3 DEF queueVars
<1>4. CASE PutBack(w)
  <2>1. ready' = ready \cup ({channel[w]} \ {None}) /\ channel'[w] = None
    BY <1>1, <1>4 DEF PutBack
  <2> QED BY <1>2, <1>4, <2>1 DEF PutBack
<1>5. ASSUME NEW j \in Jobs, Deliver(w, j)
      PROVE  /\ OnItsWay' \in {OnItsWay, OnItsWay \ {job[w]}}
             /\ UNCHANGED <<published, ahead>>
             /\ job[w] = None => OnItsWay' = OnItsWay
  BY <1>1, <1>2, <1>5 DEF Deliver
<1>6. CASE Discard(w) /\ channel[w] = job[w]
  BY <1>1, <1>2, <1>6 DEF Discard
<1> QED BY <1>3, <1>4, <1>5, <1>6

LEMMA OrderLoop ==
    ASSUME NEW w, Workers = {w}, IInv, OrderInv(w),
           \/ Take(w) \/ TakeStale(w) \/ Settle(w) \/ Restart(w) \/ Crash(w) \/ Stop(w) \/ ConnectionLost(w)
           \/ \E j \in Jobs : DeliverTo(w, j)
    PROVE  OrderInv(w)' /\ Simulated
<1> USE NoneIsNoName
<1>1. /\ WorkerTypeOK /\ WorkerShape(w) /\ w \in Workers
      /\ {"idle", "down", "get_running"} \subseteq Labels
  BY DEF IInv, TypeOK, WorkerInv, Labels, Busy, Get
<1>2. UNCHANGED <<rows, storeVars, serverVars>>
  BY DEF Take, TakeStale, Settle, Restart, Crash, Stop, ConnectionLost, DeliverTo
<1>3. NoPointsYet'
  BY <1>2 DEF OrderInv, NoPointsYet, storeVars
<1>4. CASE Take(w)
  <2>1. job[w] = None /\ job'[w] = channel[w] /\ channel[w] \in Jobs
        /\ pc'[w] = "get_running" /\ UNCHANGED queueVars
    <3>1. pc[w] \notin Busy
      BY <1>4 DEF Take, Busy, Thread, Get, Commit
    <3> QED BY <1>1, <1>4, <3>1, GotoEffect DEF Take, WorkerShape, WorkerTypeOK, IInv, TypeOK, QueueTypeOK
  <2>2. OnItsWay' = OnItsWay
    BY <2>1, Way DEF queueVars
  <2>3. Turn(w)' /\ Progress(w)'
    BY <2>1 DEF OrderInv, Turn, Progress, queueVars, Commit
  <2>4. Simulated
    BY <1>2, <2>1, <2>2, HiddenStep DEF queueVars, storeVars, serverVars
  <2> QED BY <1>3, <2>3, <2>4 DEF OrderInv
<1>5. ASSUME job'[w] \in {job[w], None},
             \/ UNCHANGED queueVars \/ Requeue(w) \/ (\E j \in Jobs : Deliver(w, j))
             \/ \E taken : Reconnect(w, taken) /\ channel[w] # None
             \/ Discard(w) /\ channel[w] = job[w] /\ backlog[w] = <<>>,
             \/ pc'[w] \in {"idle", "down"}
             \/ pc'[w] = pc[w] /\ UNCHANGED <<job, loaded, exc>>
      PROVE  OrderInv(w)' /\ Simulated
  <2>0. UNCHANGED queueVars \/ PutBack(w) \/ (\E j \in Jobs : Deliver(w, j))
        \/ (Discard(w) /\ channel[w] = job[w])
    BY <1>5 DEF Requeue, Reconnect
  <2>1. Turn(w)'
    BY <1>5, TurnKept DEF OrderInv
  <2>2. Progress(w)'
    <3>1. CASE pc'[w] \in {"idle", "down"}
      BY <3>1 DEF Progress, Commit
    <3>2. CASE pc'[w] = pc[w] /\ UNCHANGED <<job, loaded, exc>>
      <4>1. InPlace(job[w])' <=> InPlace(job[w])
        BY <1>2, <3>2 DEF InPlace, ChunksOf, StoredBy, Matching, storeVars, serverVars
      <4> QED BY <1>2, <3>2, <4>1 DEF OrderInv, Progress, storeVars
    <3> QED BY <1>5, <3>1, <3>2
  <2>3. UNCHANGED <<rows, request, points, published, ahead>>
    BY <1>2, <1>5, <2>0, WayKept DEF storeVars, serverVars
  <2>4. Simulated
    <3>1. CASE job[w] = None
      BY <1>5, <2>0, <2>3, <3>1, WayKept, HiddenStep
    <3>2. CASE job[w] # None
      <4>1. PICK j \in Jobs : job[w] = j
        BY <1>1, <3>2 DEF WorkerTypeOK
      <4> QED BY <1>5, <2>0, <2>3, <4>1, WayKept, JobInFront, SettleStep DEF OrderInv
    <3> QED BY <3>1, <3>2
  <2> QED BY <1>3, <2>1, <2>2, <2>4 DEF OrderInv
<1>6. CASE Settle(w) \/ Crash(w) \/ (Stop(w) /\ pc[w] \notin Thread)
  <2>1. Rest(w, "idle") \/ Rest(w, "down")
    BY <1>6 DEF Settle, Crash, Stop
  <2>2. job'[w] = None /\ pc'[w] \in {"idle", "down"}
    BY <1>1, <2>1, RestEffect
  <2>3. UNCHANGED queueVars \/ Requeue(w) \/ (Discard(w) /\ channel[w] = job[w] /\ backlog[w] = <<>>)
    BY <1>1, <1>6 DEF Settle, Crash, Stop, WorkerShape
  <2> QED BY <1>5, <2>2, <2>3
<1>7. CASE Restart(w)
  <2>1. pc'[w] = "idle" /\ UNCHANGED <<job, queueVars>>
    BY <1>1, <1>7, GotoEffect DEF Restart
  <2> QED BY <1>5, <2>1
<1>8. CASE Stop(w) /\ pc[w] \in Thread
  BY <1>1, <1>5, <1>8 DEF Stop, WorkerShape
<1>9. CASE ConnectionLost(w) \/ \E j \in Jobs : DeliverTo(w, j)
  BY <1>5, <1>9 DEF ConnectionLost, DeliverTo, workerVars
<1>10. CASE TakeStale(w)
  <2>1. /\ job[w] = None /\ pc'[w] = "get_running" /\ UNCHANGED <<published, ahead, ready, channel>>
        /\ backlog[w] \in Seq(Jobs) /\ backlog[w] # <<>>
        /\ job'[w] = Head(backlog[w]) /\ backlog'[w] = Tail(backlog[w])
    <3>1. pc[w] \notin Busy
      BY <1>10 DEF TakeStale, Busy, Thread, Get, Commit
    <3> QED BY <1>1, <1>10, <3>1, GotoEffect
            DEF TakeStale, WorkerShape, WorkerTypeOK, IInv, TypeOK, QueueTypeOK
  <2>2. /\ Head(backlog[w]) = backlog[w][1] /\ 1 \in 1 .. Len(backlog[w])
        /\ \A i \in 1 .. Len(Tail(backlog[w])) :
               Tail(backlog[w])[i] = backlog[w][i + 1] /\ i + 1 \in 1 .. Len(backlog[w])
    BY <2>1
  <2>3. /\ job'[w] \in ready \cup {channel[w]} /\ job'[w] \in Jobs
        /\ ahead[job'[w]] \cap (ready \cup {channel[w]}) = {}
    BY <2>1, <2>2 DEF OrderInv, Turn
  <2>4. OnItsWay' = OnItsWay
    <3>1. \A j \in Jobs : (j \in ready' \/ channel'[w] = j \/ job'[w] = j)
                          <=> (j \in ready \/ channel[w] = j \/ job[w] = j)
      BY <2>1, <2>3
    <3> QED BY <3>1, Way
  <2>5. Turn(w)' /\ Progress(w)'
    BY <2>1, <2>2, <2>3 DEF OrderInv, Turn, Progress, Commit
  <2>6. Simulated
    BY <1>2, <2>1, <2>4, HiddenStep DEF storeVars, serverVars
  <2> QED BY <1>3, <2>5, <2>6 DEF OrderInv
<1> QED BY <1>4, <1>6, <1>7, <1>8, <1>9, <1>10

LEMMA OrderRows ==
    ASSUME NEW w, Workers = {w}, IInv, StoredInv, OrderInv(w),
           GetRow(w) \/ MarkRunning(w) \/ MarkSucceeded(w) \/ MarkFailed(w) \/ DatabaseFails(w)
    PROVE  OrderInv(w)' /\ Simulated
<1> USE AllLabels
<1>1. /\ WorkerTypeOK /\ WorkerShape(w) /\ StoredShape(w) /\ w \in Workers
      /\ pc[w] \in Busy /\ UNCHANGED <<queueVars, storeVars, serverVars, job>>
  BY DEF IInv, TypeOK, WorkerInv, StoredInv, GetRow, MarkRunning, MarkSucceeded, MarkFailed, DatabaseFails,
         CloseSession, Busy, Get, Commit
<1>2. PICK j \in Jobs : job[w] = j /\ job'[w] = j /\ rows[j] \in Row /\ rows \in [Jobs -> Row]
  BY <1>1, BusyJob DEF IInv, TypeOK, RepoTypeOK
<1>3. Turn(w)' /\ NoPointsYet' /\ Front(j)
  BY <1>1, <1>2, TurnKept, JobInFront DEF OrderInv, NoPointsYet, storeVars
<1>4. OnItsWay' = OnItsWay
  BY <1>1, Way DEF queueVars
<1>5. InPlace(j)' <=> InPlace(j)
  BY <1>1, InPlaceKept DEF storeVars, serverVars
<1>6. CASE GetRow(w)
  <2>1. PICK label \in Commit :
            /\ Goto(w, label)
            /\ label = "commit_succeeded" <=> pc[w] = "get_succeeded"
            /\ label = "commit_failed" <=> pc[w] = "get_failed"
    BY <1>6 DEF GetRow, Get, Commit
  <2>2. pc'[w] = label /\ loaded'[w] = rows[j] /\ UNCHANGED <<rows, exc>>
    <3>1. label \in Labels
      BY DEF Busy
    <3> QED BY <1>1, <1>2, <1>6, <2>1, <3>1, GotoEffect DEF GetRow, WorkerTypeOK
  <2>3. /\ label = "commit_succeeded" => InPlace(j)
        /\ label = "commit_failed" /\ exc[w] = "missing" => InPlace(j)
    BY <1>2, <2>1 DEF OrderInv, Progress
  <2>4. InPlace(job[w])' <=> InPlace(j)'
    BY <1>2 DEF InPlace, ChunksOf, StoredBy, Matching
  <2>5. Progress(w)'
    BY <1>2, <1>5, <2>1, <2>2, <2>3, <2>4 DEF Progress, Commit
  <2>6. Simulated
    BY <1>1, <1>4, <2>2, HiddenStep DEF queueVars, storeVars, serverVars
  <2> QED BY <1>3, <2>5, <2>6 DEF OrderInv
<1>7. ASSUME NEW label \in {"extract", "count", "settle", "get_failed"}, CloseSession(w, label),
             label = "get_failed" => exc'[w] = "database"
      PROVE  Progress(w)'
  <2>1. pc'[w] = label
    <3>1. label \in Labels
      BY DEF Busy, Thread, Get
    <3> QED BY <1>1, <1>7, <3>1, CloseSessionEffect
  <2> QED BY <1>7, <2>1 DEF Progress, Commit
<1>8. ASSUME pc[w] \in Commit
      PROVE  /\ loaded[w] = rows[j]
             /\ pc[w] = "commit_running" /\ CommitRow(w, Running(loaded[w])) => Simulated
             /\ pc[w] = "commit_succeeded" /\ CommitRow(w, Succeeded(loaded[w])) => Simulated
             /\ pc[w] = "commit_failed" /\ CommitRow(w, Failed(loaded[w], exc[w])) => Simulated
             /\ UNCHANGED rows => Simulated
  <2>1. loaded[w] = rows[j] /\ UNCHANGED <<request, points, published, ahead>>
    BY <1>1, <1>2, <1>8 DEF OrderInv, Progress, queueVars, storeVars, serverVars
  <2>2. "extract" \in Errors /\ (pc[w] = "commit_failed" => exc[w] \in Errors)
    BY <1>1 DEF WorkerTypeOK, WorkerShape, Errors
  <2>3. ASSUME NEW new \in Row, CommitRow(w, new) PROVE rows' = [rows EXCEPT ![j] = new]
    BY <1>2, <2>1, <2>3, FreshCommit DEF CommitRow
  <2>4. ASSUME pc[w] = "commit_running", CommitRow(w, Running(loaded[w])) PROVE Simulated
    <3>1. rows' = [rows EXCEPT ![j] = Running(rows[j])]
      BY <1>2, <2>1, <2>2, <2>3, <2>4, NewRowTypes
    <3> QED BY <1>3, <1>4, <2>1, <3>1, MarkStep
  <2>5. ASSUME pc[w] = "commit_succeeded", CommitRow(w, Succeeded(loaded[w])) PROVE Simulated
    <3>1. rows' = [rows EXCEPT ![j] = Succeeded(rows[j])]
      BY <1>2, <2>1, <2>2, <2>3, <2>5, NewRowTypes
    <3>2. Started(j) /\ InPlace(j)
      BY <1>1, <1>2, <2>5 DEF StoredShape, Begun, OrderInv, Progress
    <3> QED BY <1>3, <1>4, <2>1, <3>1, <3>2, MarkStep
  <2>6. ASSUME pc[w] = "commit_failed", CommitRow(w, Failed(loaded[w], exc[w])) PROVE Simulated
    <3>1. rows' = [rows EXCEPT ![j] = Failed(rows[j], exc[w])]
      BY <1>2, <2>1, <2>2, <2>3, <2>6, NewRowTypes
    <3>2. Started(j) /\ (exc[w] = "missing" => InPlace(j))
      BY <1>1, <1>2, <2>6 DEF StoredShape, Begun, OrderInv, Progress
    <3> QED BY <1>3, <1>4, <2>1, <2>2, <2>6, <3>1, <3>2, MarkStep
  <2> QED BY <1>4, <2>1, <2>4, <2>5, <2>6, HiddenStep
<1>9. CASE MarkRunning(w)
  BY <1>3, <1>7, <1>8, <1>9 DEF MarkRunning, Commit, OrderInv
<1>10. CASE MarkSucceeded(w)
  BY <1>3, <1>7, <1>8, <1>10 DEF MarkSucceeded, Commit, OrderInv
<1>11. CASE MarkFailed(w)
  BY <1>3, <1>7, <1>8, <1>11 DEF MarkFailed, Commit, OrderInv
<1>12. CASE DatabaseFails(w)
  <2>1. Progress(w)'
    <3>1. pc[w] = "commit_succeeded" => exc'[w] = "database"
      BY <1>1, <1>12 DEF DatabaseFails, WorkerTypeOK
    <3> QED BY <1>7, <1>12, <3>1 DEF DatabaseFails
  <2>2. Simulated
    BY <1>8, <1>12 DEF DatabaseFails
  <2> QED BY <1>3, <2>1, <2>2 DEF OrderInv
<1> QED BY <1>6, <1>9, <1>10, <1>11, <1>12

\* Right after its work, the work of a job is in place.
LEMMA WorkInPlace ==
    ASSUME IInv, NEW w \in Workers, NEW j \in Jobs, job[w] = j, UNCHANGED request,
           \/ pc[w] = "upsert" /\ StorePoints(j)
           \/ pc[w] = "delete" /\ DeleteMatching(Parameters(w).client, Parameters(w).doc)
    PROVE  InPlace(j)'
<1>1. CASE pc[w] = "upsert" /\ StorePoints(j)
  <2>1. pc[w] \in Thread \ {"count", "delete"}
    BY <1>1 DEF Thread
  <2>2. request'[j].type = Index /\ j \in published
    BY <2>1 DEF IInv, WorkerInv, WorkerShape, Busy
  <2> QED BY <1>1, <2>2, UpsertCovers DEF InPlace
<1>2. CASE pc[w] = "delete" /\ DeleteMatching(Parameters(w).client, Parameters(w).doc)
  <2>1. request'[j].type # Index
    BY <1>2 DEF IInv, WorkerInv, WorkerShape, Index, Delete
  <2>2. Matching(request[j].client, request[j].doc)' = {}
    BY <1>2 DEF DeleteMatching, Matching, Parameters
  <2> QED BY <2>1, <2>2 DEF InPlace
<1> QED BY <1>1, <1>2

LEMMA OrderWork ==
    ASSUME NEW w, Workers = {w}, IInv, StoredInv, OrderInv(w),
           \/ Extract(w) \/ GetCollections(w) \/ CreateMissing(w) \/ CreateConflicts(w)
           \/ CreateIndexes(w) \/ UpsertChunks(w) \/ Count(w) \/ DeletePoints(w) \/ BackendFails(w)
    PROVE  OrderInv(w)' /\ Simulated
<1> USE AllLabels
<1>1. /\ WorkerTypeOK /\ WorkerShape(w) /\ StoredShape(w) /\ w \in Workers
      /\ pc[w] \in Thread /\ UNCHANGED <<rows, queueVars, serverVars>>
  BY DEF IInv, TypeOK, WorkerInv, StoredInv, Extract, GetCollections, CreateMissing, CreateConflicts,
         CreateIndexes, UpsertChunks, Count, DeletePoints, BackendFails, Thread
<1>2. PICK j \in Jobs : job[w] = j /\ request[j] \in JobRequest
  BY <1>1, BusyJob DEF Busy
<1>3. Front(j) /\ Started(j)
  BY <1>1, <1>2, JobInFront DEF OrderInv, StoredShape, Begun
<1>4. /\ pc[w] \in {"count", "delete"} => request[j].type = Delete
      /\ pc[w] \notin {"count", "delete"} => request[j].type = Index
  BY <1>1, <1>2 DEF WorkerShape
\* Where the step leads to ...
<1>5. ASSUME NEW label \in {"get_succeeded", "upsert", "get_collections"}, Return(w, label),
             label = "get_succeeded" => InPlace(j)', label = "upsert" => collection' # "absent"
      PROVE  Progress(w)' /\ job'[w] \in {job[w], None}
  <2>1. label \in Labels
    BY DEF Busy, Get, Thread
  <2>2. \/ pc'[w] = "down" /\ job'[w] = None
        \/ pc'[w] = label /\ job'[w] = j
    BY <1>1, <1>2, <1>5, <2>1, ReturnEffect
  <2>3. job'[w] = j => (InPlace(job[w])' <=> InPlace(j)')
    BY DEF InPlace, ChunksOf, StoredBy, Matching
  <2> QED BY <1>2, <1>5, <2>2, <2>3 DEF Progress, Commit
<1>6. ASSUME NEW error \in Errors, Raise(w, error), error = "missing" => InPlace(j)'
      PROVE  Progress(w)' /\ job'[w] \in {job[w], None}
  <2>1. \/ pc'[w] = "down" /\ job'[w] = None
        \/ pc'[w] = "get_failed" /\ exc'[w] = error /\ job'[w] = j
    BY <1>1, <1>2, <1>6, RaiseEffect
  <2>2. job'[w] = j => (InPlace(job[w])' <=> InPlace(j)')
    BY DEF InPlace, ChunksOf, StoredBy, Matching
  <2> QED BY <1>2, <1>6, <2>1, <2>2 DEF Progress, Commit
<1>7. ASSUME NEW label \in {"create_collection", "create_index", "delete"}, Goto(w, label),
             UNCHANGED job, label = "create_index" => collection' # "absent"
      PROVE  Progress(w)' /\ job'[w] \in {job[w], None}
  <2>1. label \in Labels
    BY DEF Busy, Thread
  <2>2. pc'[w] = label
    BY <1>1, <1>7, <2>1, GotoEffect
  <2> QED BY <1>7, <2>2 DEF Progress, Commit
\* ... and what OrderedDocuments sees of it.
<1>8. ASSUME Progress(w)', job'[w] \in {job[w], None}, NoPointsYet',
             \/ UNCHANGED points
             \/ pc[w] = "upsert" /\ StorePoints(j)
             \/ pc[w] = "delete" /\ DeleteMatching(Parameters(w).client, Parameters(w).doc)
      PROVE  OrderInv(w)' /\ Simulated
  <2>1. Turn(w)'
    BY <1>1, <1>8, TurnKept DEF OrderInv
  <2>2. OnItsWay' \in {OnItsWay, OnItsWay \ {j}} /\ UNCHANGED <<rows, request, published, ahead>>
    BY <1>1, <1>2, <1>8, WayKept DEF serverVars, queueVars
  <2>3. CASE UNCHANGED points
    BY <1>3, <1>8, <2>1, <2>2, <2>3, SettleStep DEF OrderInv
  <2>4. CASE pc[w] = "upsert" /\ StorePoints(j)
    <3>1. /\ request[j].type = Index
          /\ Upsert(request[j].doc, ChunkCount[request[j].file],
                    [client |-> request[j].client, corpus |-> request[j].corpus, job |-> j])
      BY <1>2, <1>4, <2>4 DEF StorePoints
    <3>2. Simulated
      BY <1>3, <2>2, <3>1, WorkStep
    <3> QED BY <1>8, <2>1, <3>2 DEF OrderInv
  <2>5. CASE pc[w] = "delete" /\ DeleteMatching(Parameters(w).client, Parameters(w).doc)
    <3>1. request[j].type = Delete /\ DeleteMatching(request[j].client, request[j].doc)
      BY <1>2, <1>4, <2>5 DEF Parameters
    <3>2. Simulated
      BY <1>3, <2>2, <3>1, WorkStep
    <3> QED BY <1>8, <2>1, <3>2 DEF OrderInv
  <2> QED BY <1>8, <2>3, <2>4, <2>5
<1>9. UNCHANGED storeVars => NoPointsYet'
  BY DEF OrderInv, NoPointsYet, storeVars
<1>10. UNCHANGED points => (InPlace(j)' <=> InPlace(j))
  BY <1>1, InPlaceKept DEF serverVars
<1>11. {"extract", "conflict", "missing", "backend"} \subseteq Errors /\ "missing" # "backend"
  BY DEF Errors
<1>12. CASE Extract(w)
  <2>1. ASSUME Chunks(w) = 0 PROVE InPlace(j)
    <3>1. ChunkCount[request[j].file] = 0
      BY <1>2, <2>1 DEF Chunks, Parameters
    <3>2. ChunksOf(j) = {}
      BY <3>1 DEF ChunksOf
    <3> QED BY <1>4, <1>12, <3>2 DEF InPlace, Extract
  <2>2. Progress(w)' /\ job'[w] \in {job[w], None}
    BY <1>5, <1>6, <1>10, <1>11, <1>12, <2>1 DEF Extract, storeVars
  <2> QED BY <1>8, <1>9, <1>12, <2>2 DEF Extract, storeVars
<1>13. CASE GetCollections(w)
  <2>1. Progress(w)' /\ job'[w] \in {job[w], None}
    BY <1>5, <1>7, <1>13 DEF GetCollections, storeVars
  <2> QED BY <1>8, <1>9, <1>13, <2>1 DEF GetCollections, storeVars
<1>14. CASE CreateMissing(w)
  <2>1. collection' # "absent" /\ NoPointsYet'
    BY <1>14 DEF CreateMissing, CreateCollection, NoPointsYet
  <2>2. Progress(w)' /\ job'[w] \in {job[w], None}
    BY <1>7, <1>14, <2>1 DEF CreateMissing
  <2> QED BY <1>8, <1>14, <2>1, <2>2 DEF CreateMissing
<1>15. CASE CreateConflicts(w)
  <2>1. Progress(w)' /\ job'[w] \in {job[w], None}
    BY <1>6, <1>11, <1>15 DEF CreateConflicts
  <2> QED BY <1>8, <1>9, <1>15, <2>1 DEF CreateConflicts, storeVars
<1>16. CASE CreateIndexes(w)
  <2>1. collection' # "absent" /\ NoPointsYet'
    BY <1>16 DEF CreateIndexes, CreatePayloadIndexes, NoPointsYet
  <2>2. Progress(w)' /\ job'[w] \in {job[w], None}
    BY <1>5, <1>16, <2>1 DEF CreateIndexes
  <2> QED BY <1>8, <1>16, <2>1, <2>2 DEF CreateIndexes
<1>17. CASE UpsertChunks(w)
  <2>1. collection' # "absent" /\ NoPointsYet'
    BY <1>17 DEF UpsertChunks, OrderInv, Progress, NoPointsYet
  <2>2. InPlace(j)'
    BY <1>1, <1>2, <1>17, WorkInPlace DEF UpsertChunks, serverVars
  <2>3. Progress(w)' /\ job'[w] \in {job[w], None}
    BY <1>5, <1>17, <2>2 DEF UpsertChunks
  <2> QED BY <1>2, <1>8, <1>17, <2>1, <2>3 DEF UpsertChunks
<1>18. CASE Count(w)
  <2>1. ASSUME Matching(Parameters(w).client, Parameters(w).doc) = {} PROVE InPlace(j)
    BY <1>2, <1>4, <1>18, <2>1 DEF InPlace, Parameters, Count, Index, Delete
  <2>2. collection = "absent" => Matching(Parameters(w).client, Parameters(w).doc) = {}
    BY DEF OrderInv, NoPointsYet, Matching
  <2>3. UNCHANGED points
    BY <1>18 DEF Count, storeVars
  <2>4. Progress(w)' /\ job'[w] \in {job[w], None}
    BY <1>5, <1>6, <1>7, <1>10, <1>11, <1>18, <2>1, <2>2, <2>3 DEF Count
  <2> QED BY <1>8, <1>9, <1>18, <2>3, <2>4 DEF Count
<1>19. CASE DeletePoints(w)
  <2>1. NoPointsYet'
    BY <1>19 DEF DeletePoints, DeleteMatching, OrderInv, NoPointsYet
  <2>2. InPlace(j)'
    BY <1>1, <1>2, <1>19, WorkInPlace DEF DeletePoints, serverVars
  <2>3. Progress(w)' /\ job'[w] \in {job[w], None}
    BY <1>5, <1>19, <2>2 DEF DeletePoints
  <2> QED BY <1>8, <1>19, <2>1, <2>3 DEF DeletePoints
<1>20. CASE BackendFails(w)
  <2>1. Progress(w)' /\ job'[w] \in {job[w], None}
    BY <1>6, <1>11, <1>20 DEF BackendFails
  <2>2. NoPointsYet'
    <3>1. pc[w] = "upsert" => collection # "absent"
      BY DEF OrderInv, Progress
    <3> QED BY <1>9, <1>20, <3>1 DEF BackendFails, Effect, CreateCollection, CreatePayloadIndexes,
                                     DeleteMatching, OrderInv, NoPointsYet
  <2>3. \/ UNCHANGED points
        \/ pc[w] = "upsert" /\ StorePoints(j)
        \/ pc[w] = "delete" /\ DeleteMatching(Parameters(w).client, Parameters(w).doc)
    BY <1>2, <1>20 DEF BackendFails, Effect, storeVars, Parameters
  <2> QED BY <1>8, <2>1, <2>2, <2>3
<1> QED BY <1>12, <1>13, <1>14, <1>15, <1>16, <1>17, <1>18, <1>19, <1>20
-----------------------------------------------------------------------------
(* The theorems.                                                            *)

LEMMA InitOrderInv ==
    ASSUME NEW w, Workers = {w}, Init
    PROVE  OrderInv(w) /\ Ordered!Init
<1>1. w \in Workers
  OBVIOUS
<1>2. OrderInv(w)
  <2>1. 1 .. Len(backlog[w]) = {}
    <3>1. Len(<<>>) = 0 /\ 1 .. 0 = {}
      OBVIOUS
    <3> QED BY <1>1, <3>1 DEF Init, QueueInit
  <2> QED BY <1>1, <2>1, NoneIsNoName
          DEF Init, OrderInv, Turn, Progress, NoPointsYet, QueueInit, StoreInit, Commit
<1>3. OnItsWay = {}
  BY <1>1, Way, NoneIsNoName DEF Init, QueueInit
<1>4. Ordered!RepoInit
  BY DEF Init, RepoInit, Ordered!RepoInit, Absent, Ordered!Absent
<1>5. points = [c \in Ordered!ChunkIds |-> None]
  BY DEF Init, StoreInit, ChunkIds, DocIds, Ordered!ChunkIds, Ordered!DocIds
<1> QED BY <1>2, <1>3, <1>4, <1>5 DEF Init, QueueInit, Ordered!Init

LEMMA NextOrderInv ==
    ASSUME NEW w, Workers = {w}, IInv, StoredInv, OrderInv(w), late = {}, late' = {}, [Next]_vars
    PROVE  OrderInv(w)' /\ Simulated
<1>0. ~CallTimesOut(w)
  BY DEF CallTimesOut
<1>1. CASE Next
  <2>1. CASE \E j \in Jobs : Server(j)
    BY <2>1, OrderServer
  <2>2. CASE \E j \in Jobs : DeliverTo(w, j)
    BY <2>2, OrderLoop
  <2>3. CASE Work(w) \/ WorkerFault(w) \/ Restart(w)
    BY <1>0, <2>3, OrderLoop, OrderRows, OrderWork DEF Work, WorkerFault
  <2> QED BY <1>1, <2>1, <2>2, <2>3 DEF Next
<1>2. CASE UNCHANGED vars
  <2>1. UNCHANGED <<rows, request, queueVars, storeVars, job, pc, loaded, exc>>
    BY <1>2 DEF vars, serverVars, workerVars
  <2>2. InPlace(job[w])' <=> InPlace(job[w])
    BY <2>1 DEF InPlace, ChunksOf, StoredBy, Matching, storeVars
  <2>3. OrderInv(w)'
    BY <2>1, <2>2 DEF OrderInv, Turn, Progress, NoPointsYet, queueVars, storeVars
  <2>4. OnItsWay' = OnItsWay
    BY <2>1, Way DEF queueVars
  <2>5. Simulated
    BY <2>1, <2>4, HiddenStep DEF queueVars, storeVars
  <2> QED BY <2>3, <2>5
<1> QED BY <1>1, <1>2

\* With one worker, for any jobs, tenants, documents and faults but calls that
\* take effect after their timeout, DocumentJobs implements OrderedDocuments:
\* handle (document_worker.py:45-81) works off one job at a time, in the order
\* the envelopes were published.
THEOREM OneWorkerImplementsOrder ==
    ASSUME NEW w, Workers = {w}, MaxFaults["timeout"] = 0
    PROVE  Spec => ImplementsOrder
<1>1. Init => OrderInv(w) /\ Ordered!Init
  BY InitOrderInv
<1>2. /\ IInv /\ StoredInv /\ OrderInv(w) /\ late = {} /\ (late = {})' /\ [Next]_vars
      => OrderInv(w)' /\ [Ordered!Next]_(Ordered!vars)
  BY NextOrderInv DEF Simulated
<1> QED BY <1>1, <1>2, AlwaysIInv, AlwaysStored, NeverLate, PTL DEF Spec, ImplementsOrder, Ordered!Spec
-----------------------------------------------------------------------------
(* What OrderedDocuments promises carries over.                             *)

Proved == INSTANCE OrderedDocuments_proofs WITH pending <- OnItsWay

LEMMA SameAssumptions == Proved!Payload = Payload /\ Proved!JobRequest = JobRequest
BY DEF Proved!Payload, Payload, Proved!JobRequest, JobRequest, Proved!DocIds, DocIds,
       Proved!Index, Index, Proved!Delete, Delete

LEMMA SameInit == Ordered!Init => Proved!Init
<1>1. Ordered!RepoInit => Proved!RepoInit
  BY DEF Ordered!RepoInit, Proved!RepoInit, Ordered!Absent, Proved!Absent
<1> QED BY <1>1 DEF Ordered!Init, Proved!Init, Ordered!ChunkIds, Proved!ChunkIds, Ordered!DocIds, Proved!DocIds

LEMMA SameNext == [Ordered!Next]_(Ordered!vars) => [Proved!Next]_(Proved!vars)
<1>1. ASSUME NEW j \in Jobs
      PROVE  /\ Ordered!Accept(j) => Proved!Accept(j)
             /\ Ordered!Publish(j) => Proved!Publish(j)
             /\ Ordered!Begin(j) => Proved!Begin(j)
             /\ Ordered!Succeed(j) => Proved!Succeed(j)
             /\ \A e \in Ordered!Errors : Ordered!Fail(j, e) => e \in Proved!Errors /\ Proved!Fail(j, e)
             /\ Ordered!Settle(j) => Proved!Settle(j)
             /\ Ordered!Apply(j) => Proved!Apply(j)
  <2>1. /\ Ordered!Oldest(j) <=> Proved!Oldest(j)
        /\ Ordered!Started(j) <=> Proved!Started(j)
        /\ Ordered!ChunkIds = Proved!ChunkIds
        /\ Ordered!JobRequest = Proved!JobRequest
        /\ Ordered!Errors = Proved!Errors
        /\ Ordered!Index = Proved!Index
    BY DEF Ordered!Oldest, Proved!Oldest, Ordered!Started, Proved!Started, Ordered!ChunkIds, Proved!ChunkIds,
           Ordered!DocIds, Proved!DocIds, Ordered!JobRequest, Proved!JobRequest, Ordered!Index, Proved!Index,
           Ordered!Delete, Proved!Delete, Ordered!Errors, Proved!Errors
  <2>2. Ordered!InPlace(j) <=> Proved!InPlace(j)
    BY <2>1 DEF Ordered!InPlace, Proved!InPlace, Ordered!ChunksOf, Proved!ChunksOf, Ordered!StoredBy, Proved!StoredBy,
                Ordered!Matching, Proved!Matching, Ordered!chunk_id_for, Proved!chunk_id_for
  <2>3. /\ Ordered!Accept(j) => Proved!Accept(j)
        /\ Ordered!Publish(j) => Proved!Publish(j)
        /\ Ordered!Settle(j) => Proved!Settle(j)
    BY <2>1 DEF Ordered!Accept, Proved!Accept, Ordered!Create, Proved!Create, Ordered!Absent, Proved!Absent,
                Ordered!Publish, Proved!Publish, Ordered!Settle, Proved!Settle
  <2>4. /\ Ordered!Begin(j) => Proved!Begin(j)
        /\ Ordered!Succeed(j) => Proved!Succeed(j)
        /\ \A e \in Ordered!Errors : Ordered!Fail(j, e) => e \in Proved!Errors /\ Proved!Fail(j, e)
    BY <2>1, <2>2 DEF Ordered!Begin, Proved!Begin, Ordered!Running, Proved!Running,
                Ordered!Succeed, Proved!Succeed, Ordered!Succeeded, Proved!Succeeded,
                Ordered!Fail, Proved!Fail, Ordered!Failed, Proved!Failed
  <2>5. Ordered!Apply(j) => Proved!Apply(j)
    BY <2>1 DEF Ordered!Apply, Proved!Apply, Ordered!Upsert, Proved!Upsert, Ordered!chunk_id_for, Proved!chunk_id_for,
                Ordered!DeleteMatching, Proved!DeleteMatching, Ordered!Matching, Proved!Matching
  <2> QED BY <2>3, <2>4, <2>5
<1>2. Ordered!Next => Proved!Next
  BY <1>1 DEF Ordered!Next, Proved!Next
<1> QED BY <1>2 DEF Ordered!vars, Proved!vars

LEMMA SamePromise == Proved!AppliedInOrder => AppliedInOrder
<1>1. \A j : /\ Ordered!IsSucceeded(j) <=> Proved!IsSucceeded(j)
             /\ Ordered!IsIndex(j) <=> Proved!IsIndex(j)
             /\ Ordered!IsDelete(j) <=> Proved!IsDelete(j)
             /\ Ordered!Started(j) <=> Proved!Started(j)
             /\ Ordered!ChunksOf(j) = Proved!ChunksOf(j)
             /\ \A c : Ordered!StoredBy(c, j) <=> Proved!StoredBy(c, j)
             /\ \A k : Ordered!SameDoc(j, k) <=> Proved!SameDoc(j, k)
  BY DEF Ordered!IsSucceeded, Proved!IsSucceeded, Ordered!IsIndex, Proved!IsIndex, Ordered!IsDelete, Proved!IsDelete,
         Ordered!Started, Proved!Started, Ordered!ChunksOf, Proved!ChunksOf, Ordered!StoredBy, Proved!StoredBy,
         Ordered!SameDoc, Proved!SameDoc, Ordered!chunk_id_for, Proved!chunk_id_for,
         Ordered!Index, Proved!Index, Ordered!Delete, Proved!Delete
<1>2. \A client, doc : Ordered!Matching(client, doc) = Proved!Matching(client, doc)
  BY DEF Ordered!Matching, Proved!Matching, Ordered!ChunkIds, Proved!ChunkIds, Ordered!DocIds, Proved!DocIds
<1> QED BY <1>1, <1>2 DEF AppliedInOrder, Ordered!AppliedInOrder, Proved!AppliedInOrder

\* With one worker jobs take effect in the order they were published, whatever
\* crashes, reconnects or fails in between (rabbitmq.py:60-76, prefetch=1), if no
\* call takes effect after its timeout.
THEOREM OneWorkerKeepsOrder ==
    ASSUME NEW w, Workers = {w}, MaxFaults["timeout"] = 0
    PROVE  Spec => []AppliedInOrder
<1>1. Ordered!Init => Proved!OrderInv
  BY SameInit, Proved!InitOrder, SameAssumptions, NamesAssumption, EffectAssumption
<1>2. Proved!OrderInv /\ [Ordered!Next]_(Ordered!vars) => Proved!OrderInv'
  BY SameNext, Proved!NextOrder, SameAssumptions, NamesAssumption, EffectAssumption
<1>3. Proved!OrderInv => AppliedInOrder
  BY SamePromise DEF Proved!OrderInv
<1>4. Spec => Ordered!Spec
  BY OneWorkerImplementsOrder DEF ImplementsOrder
<1> QED BY <1>1, <1>2, <1>3, <1>4, PTL DEF Ordered!Spec
=============================================================================
