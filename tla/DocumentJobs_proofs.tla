------------------------ MODULE DocumentJobs_proofs ------------------------
(***************************************************************************)
(* Machine-checked proofs about DocumentJobs, for any number of jobs,      *)
(* workers, tenants and documents and any fault bounds.                    *)
(***************************************************************************)
EXTENDS DocumentJobs, TLAPS

-----------------------------------------------------------------------------
(* The inductive invariant, in parts.                                       *)

\* A job has parameters exactly if it has a row; the RPC that made it says so.
ServerInv ==
    \A j \in Jobs : /\ request[j] # None => rows[j].status # "ABSENT"
                    /\ handler[j] # "none" => request[j] # None
                    /\ handler[j] = "none" => j \notin published
                    /\ handler[j] = "created" => j \notin published

\* A published message is in one place at most, and what an iterator holds of a
\* dead channel was put back.
QueueInv ==
    /\ ready \subseteq published
    /\ redelivered \subseteq published
    /\ \A w \in Workers : \A i \in 1 .. Len(backlog[w]) : backlog[w][i] \in redelivered
    /\ \A w \in Workers : channel[w] \in published \cup {None}
    /\ \A w \in Workers : channel[w] \notin ready
    /\ \A v, w \in Workers : channel[v] = channel[w] /\ v # w => channel[v] = None

\* What the step a worker is at says of its job and its message.
WorkerShape(w) ==
    /\ pc[w] \in Busy => job[w] \in published
    /\ pc[w] \notin Busy => job[w] = None /\ delivery[w] = "none"
    /\ pc[w] = "down" => channel[w] = None /\ backlog[w] = <<>>
    /\ delivery[w] = "held" => channel[w] = job[w] /\ backlog[w] = <<>>
    /\ delivery[w] = "cancelled" => pc[w] \in Thread /\ channel[w] = None /\ backlog[w] = <<>>
    /\ pc[w] \in {"count", "delete"} => request[job[w]].type = Delete
    /\ pc[w] \in Thread \ {"count", "delete"} => request[job[w]].type = Index
    /\ pc[w] = "get_failed" => exc[w] # ""
    /\ pc[w] = "commit_failed" => exc[w] # ""

WorkerInv == \A w \in Workers : WorkerShape(w)

\* A request that nobody waits for is one a worker has sent.
LateInv ==
    \A e \in late : /\ e.job \in published
                    /\ e.call = "upsert" => request[e.job].type = Index
                    /\ e.call = "delete" => request[e.job].type = Delete

IInv == TypeOK /\ ServerInv /\ QueueInv /\ WorkerInv /\ LateInv
-----------------------------------------------------------------------------
(* Typing of the building blocks.                                           *)

LEMMA NoneIsNoName == None \notin Jobs \cup Docs \cup Clients \cup Corpora \cup Files \cup Payload
BY NamesAssumption, EffectAssumption

LEMMA StrikeType ==
    ASSUME NEW f, Strike(f), faults \in [Faults -> Nat]
    PROVE  faults' \in [Faults -> Nat]
<1>1. CASE f \in Faults
  BY <1>1 DEF Strike
<1>2. CASE f \notin Faults
  BY <1>2 DEF Strike
<1> QED BY <1>1, <1>2

\* What a request becomes in the row and the envelope has a job's type.
LEMMA IndexParameters ==
    ASSUME NEW j \in Jobs, NEW r \in Requests, r.type = Index, None \notin {r.client, r.corpus, r.file}
    PROVE  [r EXCEPT !.doc = IF r.doc = None THEN j ELSE r.doc] \in JobRequest
BY DataAssumption DEF Request, JobRequest, DocIds, Index, Delete

LEMMA DeleteParameters ==
    ASSUME NEW r \in Requests, r.type = Delete, None \notin {r.client, r.doc}
    PROVE  [[r EXCEPT !.corpus = None, !.file = None] EXCEPT !.doc = r.doc] \in JobRequest
BY DataAssumption DEF Request, JobRequest, DocIds, Index, Delete

\* A commit of _transition keeps the table well formed and never undoes a row.
LEMMA TransitionType ==
    ASSUME RepoTypeOK, NEW j \in Jobs, NEW old \in Row, NEW new \in Row,
           new.status # "ABSENT", Transition(j, old, new)
    PROVE  /\ RepoTypeOK'
           /\ \A k \in Jobs : rows[k].status # "ABSENT" => rows'[k].status # "ABSENT"
BY DEF RepoTypeOK, Transition, Column, Row, Statuses

LEMMA NewRowTypes ==
    ASSUME NEW old \in Row, NEW e \in Errors
    PROVE  /\ Running(old) \in Row /\ Running(old).status # "ABSENT"
           /\ Succeeded(old) \in Row /\ Succeeded(old).status # "ABSENT"
           /\ Failed(old, e) \in Row /\ Failed(old, e).status # "ABSENT"
BY DEF Running, Succeeded, Failed, Row, Statuses

LEMMA UpsertType ==
    ASSUME NEW doc, NEW n, NEW payload \in Payload, Upsert(doc, n, payload),
           points \in [ChunkIds -> Payload \cup {None}]
    PROVE  points' \in [ChunkIds -> Payload \cup {None}]
BY DEF Upsert

LEMMA DeleteType ==
    ASSUME NEW client, NEW doc, DeleteMatching(client, doc),
           points \in [ChunkIds -> Payload \cup {None}]
    PROVE  points' \in [ChunkIds -> Payload \cup {None}]
BY DEF DeleteMatching

\* The queue stays well formed under everything that is done to it.
LEMMA QueueTypes ==
    ASSUME QueueTypeOK, NEW w \in Workers
    PROVE  /\ \A j \in Jobs : Publish(j) \/ Deliver(w, j) => QueueTypeOK'
           /\ Discard(w) => QueueTypeOK'
           /\ Requeue(w) => QueueTypeOK'
           /\ \A taken : Reconnect(w, taken) /\ channel[w] # None => QueueTypeOK'
<1>1. ASSUME NEW j \in Jobs, Publish(j) PROVE QueueTypeOK'
  BY <1>1 DEF QueueTypeOK, Publish
<1>2. ASSUME NEW j \in Jobs, Deliver(w, j) PROVE QueueTypeOK'
  BY <1>2 DEF QueueTypeOK, Deliver
<1>3. Discard(w) => QueueTypeOK'
  BY DEF QueueTypeOK, Discard
<1>4. Requeue(w) => QueueTypeOK'
  BY DEF QueueTypeOK, Requeue, PutBack
<1>5. ASSUME NEW taken, Reconnect(w, taken), channel[w] # None PROVE QueueTypeOK'
  BY <1>5 DEF QueueTypeOK, Reconnect, PutBack
<1> QED BY <1>1, <1>2, <1>3, <1>4, <1>5

LEMMA QueueSteps ==
    ASSUME QueueTypeOK, QueueInv, NEW w \in Workers
    PROVE  /\ \A j \in Jobs : (Publish(j) /\ j \notin published) \/ Deliver(w, j) => QueueInv'
           /\ Discard(w) => QueueInv'
           /\ Requeue(w) => QueueInv'
           /\ \A taken : Reconnect(w, taken) /\ channel[w] # None => QueueInv'
<1> USE NoneIsNoName
<1>1. ASSUME NEW j \in Jobs, Publish(j), j \notin published PROVE QueueInv'
  BY <1>1 DEF QueueTypeOK, QueueInv, Publish
<1>2. ASSUME NEW j \in Jobs, Deliver(w, j) PROVE QueueInv'
  BY <1>2 DEF QueueTypeOK, QueueInv, Deliver
<1>3. Discard(w) => QueueInv'
  BY DEF QueueTypeOK, QueueInv, Discard
<1>4. Requeue(w) => QueueInv'
  BY DEF QueueTypeOK, QueueInv, Requeue, PutBack
<1>5. ASSUME NEW taken, Reconnect(w, taken), channel[w] # None PROVE QueueInv'
  BY <1>5 DEF QueueTypeOK, QueueInv, Reconnect, PutBack
<1> QED BY <1>1, <1>2, <1>3, <1>4, <1>5
-----------------------------------------------------------------------------
(* IInv is inductive.                                                       *)

LEMMA InitIInv == Init => IInv
<1> USE NoneIsNoName
<1> SUFFICES ASSUME Init PROVE IInv
  OBVIOUS
<1>1. TypeOK
  <2>1. QueueTypeOK
    <3>1. <<>> \in Seq(Jobs)
      OBVIOUS
    <3> QED BY <3>1 DEF Init, QueueInit, QueueTypeOK
  <2> QED BY <2>1 DEF Init, TypeOK, ServerTypeOK, WorkerTypeOK, RepoInit, RepoTypeOK, Absent, Row,
                      StoreInit, StoreTypeOK, Labels, Busy
<1>2. ServerInv
  BY DEF Init, ServerInv, QueueInit
<1>3. QueueInv
  <2>1. \A w \in Workers : 1 .. Len(backlog[w]) = {}
    <3>1. Len(<<>>) = 0 /\ 1 .. 0 = {}
      OBVIOUS
    <3> QED BY <3>1 DEF Init, QueueInit
  <2> QED BY <2>1 DEF Init, QueueInv, QueueInit
<1>4. WorkerInv
  BY DEF Init, WorkerInv, WorkerShape, QueueInit, Busy, Thread, Get, Commit
<1>5. LateInv
  BY DEF Init, LateInv, StoreInit
<1> QED BY <1>1, <1>2, <1>3, <1>4, <1>5 DEF IInv

\* The RPC handlers do not touch the workers.
LEMMA ServerStep ==
    ASSUME IInv, NEW j \in Jobs, Server(j)
    PROVE  IInv'
<1> USE NoneIsNoName DEF IInv
<1>0. None \notin JobRequest
  BY EffectAssumption
<1>1. ASSUME NEW r \in Requests, IndexDocument(j, r) \/ DeleteDocument(j, r)
      PROVE  IInv'
  <2>1. PICK p \in JobRequest :
            /\ handler[j] = "none" /\ Create(j)
            /\ request' = [request EXCEPT ![j] = p]
            /\ handler' = [handler EXCEPT ![j] = "created"]
            /\ UNCHANGED <<queueVars, storeVars, workerVars, faults>>
    <3>1. CASE IndexDocument(j, r)
      BY <3>1, IndexParameters DEF IndexDocument, Accept
    <3>2. CASE DeleteDocument(j, r)
      BY <3>2, DeleteParameters DEF DeleteDocument, Accept
    <3> QED BY <1>1, <3>1, <3>2
  <2>2. p # None
    BY <1>0
  <2>3. RepoTypeOK' /\ rows'[j].status = "QUEUED" /\ \A k \in Jobs \ {j} : rows'[k] = rows[k]
    BY <2>1 DEF TypeOK, RepoTypeOK, Create, Row, Statuses
  <2>4. TypeOK'
    BY <2>1, <2>3 DEF TypeOK, ServerTypeOK, WorkerTypeOK, queueVars, QueueTypeOK, storeVars, StoreTypeOK, workerVars
  <2>5. ServerInv'
    BY <2>1, <2>2, <2>3 DEF TypeOK, ServerTypeOK, ServerInv, queueVars
  <2>6. QueueInv'
    BY <2>1 DEF QueueInv, queueVars
  <2>7. WorkerInv'
    <3> SUFFICES ASSUME NEW w \in Workers PROVE WorkerShape(w)'
      BY DEF WorkerInv
    <3>1. ASSUME pc[w] \in Busy PROVE request'[job[w]] = request[job[w]]
      <4>1. job[w] \in Jobs /\ job[w] \in published
        BY <3>1 DEF TypeOK, QueueTypeOK, WorkerInv, WorkerShape
      <4>2. job[w] # j
        BY <2>1, <4>1 DEF ServerInv
      <4> QED BY <2>1, <4>1, <4>2 DEF TypeOK, ServerTypeOK
    <3>2. pc[w] \in Thread => pc[w] \in Busy
      BY DEF Busy
    <3>3. WorkerShape(w) /\ UNCHANGED <<pc, job, delivery, exc, published, channel, backlog>>
      BY <2>1 DEF WorkerInv, queueVars, workerVars
    <3>4. {"count", "delete"} \subseteq Thread
      BY DEF Thread
    <3> QED BY <3>1, <3>2, <3>3, <3>4 DEF WorkerShape
  <2>8. LateInv'
    BY <2>1 DEF LateInv, TypeOK, ServerTypeOK, QueueTypeOK, ServerInv, queueVars, storeVars
  <2> QED BY <2>4, <2>5, <2>6, <2>7, <2>8
<1>2. ASSUME handler[j] = "created", Publish(j) \/ UNCHANGED queueVars,
             NEW h \in {"replied", "failed"}, handler' = [handler EXCEPT ![j] = h],
             UNCHANGED <<rows, storeVars, request, workerVars>>, faults' \in [Faults -> Nat]
      PROVE  IInv'
  <2>1. QueueTypeOK' /\ QueueInv'
    BY <1>2 DEF TypeOK, ServerInv, QueueTypeOK, QueueInv, Publish, queueVars
  <2>2. TypeOK'
    BY <1>2, <2>1 DEF TypeOK, ServerTypeOK, WorkerTypeOK, RepoTypeOK, storeVars, StoreTypeOK, workerVars
  <2>3. ServerInv'
    <3>1. handler'[j] \notin {"none", "created"} /\ \A k \in Jobs \ {j} : handler'[k] = handler[k]
      BY <1>2 DEF TypeOK, ServerTypeOK
    <3>2. \A k \in Jobs \ {j} : k \in published' => k \in published
      BY <1>2 DEF Publish, queueVars
    <3> QED BY <1>2, <3>1, <3>2 DEF ServerInv
  <2>4. WorkerInv'
    BY <1>2 DEF TypeOK, WorkerInv, WorkerShape, Publish, queueVars, workerVars
  <2>5. LateInv'
    BY <1>2 DEF LateInv, Publish, queueVars, storeVars
  <2> QED BY <2>1, <2>2, <2>3, <2>4, <2>5
<1>3. CASE PublishEnvelope(j)
  BY <1>3, <1>2 DEF PublishEnvelope, TypeOK
<1>4. CASE HandlerFails(j)
  BY <1>4, <1>2, StrikeType DEF HandlerFails, TypeOK
<1> QED BY <1>1, <1>3, <1>4 DEF Server
-----------------------------------------------------------------------------
(* The steps of a worker.                                                   *)

\* The other workers' variables are left alone.
OthersKeep(w) ==
    \A v \in Workers \ {w} :
        /\ pc'[v] = pc[v] /\ job'[v] = job[v] /\ delivery'[v] = delivery[v]
        /\ loaded'[v] = loaded[v] /\ exc'[v] = exc[v]

\* The worker variables after each of the helpers the actions are made of.
LEMMA GotoEffect ==
    ASSUME WorkerTypeOK, NEW w \in Workers, NEW label \in Labels, Goto(w, label)
    PROVE  /\ pc' \in [Workers -> Labels] /\ pc'[w] = label
           /\ \A v \in Workers \ {w} : pc'[v] = pc[v]
BY DEF WorkerTypeOK, Goto

LEMMA RestEffect ==
    ASSUME WorkerTypeOK, NEW w \in Workers, NEW label \in Labels, Rest(w, label)
    PROVE  /\ WorkerTypeOK' /\ OthersKeep(w)
           /\ pc'[w] = label /\ job'[w] = None /\ delivery'[w] = "none"
           /\ loaded'[w] = Absent /\ exc'[w] = ""
BY GotoEffect DEF WorkerTypeOK, OthersKeep, Rest, Absent, Row

LEMMA ReturnEffect ==
    ASSUME WorkerTypeOK, NEW w \in Workers, NEW label \in Labels, Return(w, label)
    PROVE  /\ WorkerTypeOK' /\ OthersKeep(w)
           /\ \/ /\ delivery[w] = "cancelled"
                 /\ pc'[w] = "down" /\ job'[w] = None /\ delivery'[w] = "none"
              \/ /\ delivery[w] # "cancelled" /\ pc'[w] = label
                 /\ UNCHANGED <<job, delivery, loaded, exc>>
<1>1. "down" \in Labels
  BY DEF Labels
<1>2. CASE delivery[w] = "cancelled"
  BY <1>1, <1>2, RestEffect DEF Return
<1>3. CASE delivery[w] # "cancelled"
  BY <1>3, GotoEffect DEF Return, WorkerTypeOK, OthersKeep
<1> QED BY <1>2, <1>3

LEMMA RaiseEffect ==
    ASSUME WorkerTypeOK, NEW w \in Workers, NEW error \in Errors, Raise(w, error)
    PROVE  /\ WorkerTypeOK' /\ OthersKeep(w)
           /\ \/ /\ delivery[w] = "cancelled"
                 /\ pc'[w] = "down" /\ job'[w] = None /\ delivery'[w] = "none"
              \/ /\ delivery[w] # "cancelled"
                 /\ pc'[w] = "get_failed" /\ exc'[w] = error
                 /\ UNCHANGED <<job, delivery, loaded>>
<1>1. "down" \in Labels /\ "get_failed" \in Labels
  BY DEF Labels, Busy, Get
<1>2. CASE delivery[w] = "cancelled"
  BY <1>1, <1>2, RestEffect DEF Raise
<1>3. CASE delivery[w] # "cancelled"
  BY <1>1, <1>3, GotoEffect DEF Raise, WorkerTypeOK, OthersKeep
<1> QED BY <1>2, <1>3

LEMMA CloseSessionEffect ==
    ASSUME WorkerTypeOK, NEW w \in Workers, NEW label \in Labels, CloseSession(w, label)
    PROVE  /\ pc' \in [Workers -> Labels] /\ loaded' \in [Workers -> Row]
           /\ pc'[w] = label /\ loaded'[w] = Absent
           /\ \A v \in Workers \ {w} : pc'[v] = pc[v] /\ loaded'[v] = loaded[v]
           /\ UNCHANGED <<job, delivery>>
BY GotoEffect DEF WorkerTypeOK, CloseSession, Absent, Row

\* A worker's step keeps IInv if it keeps the types, the queue and what its own
\* step label says.
LEMMA WorkerFrame ==
    ASSUME IInv, NEW w \in Workers, UNCHANGED serverVars, UNCHANGED published,
           \A j \in Jobs : rows[j].status # "ABSENT" => rows'[j].status # "ABSENT",
           OthersKeep(w),
           \A v \in Workers \ {w} : channel'[v] = channel[v] /\ backlog'[v] = backlog[v],
           TypeOK', QueueInv', WorkerShape(w)', LateInv'
    PROVE  IInv'
<1>1. ServerInv'
  BY DEF IInv, ServerInv, serverVars
<1>2. ASSUME NEW v \in Workers \ {w} PROVE WorkerShape(v)'
  BY <1>2 DEF IInv, WorkerInv, WorkerShape, OthersKeep, serverVars
<1> QED BY <1>1, <1>2 DEF IInv, WorkerInv

LEMMA LateKept ==
    ASSUME IInv, UNCHANGED <<late, request, published>>
    PROVE  LateInv'
BY DEF IInv, LateInv

\* A worker at work has a job with parameters and a row.
LEMMA BusyJob ==
    ASSUME IInv, NEW w \in Workers, pc[w] \in Busy
    PROVE  /\ job[w] \in Jobs /\ job[w] \in published
           /\ request[job[w]] \in JobRequest
           /\ rows[job[w]] \in Row /\ rows[job[w]].status # "ABSENT"
<1>1. job[w] \in published /\ job[w] \in Jobs
  BY DEF IInv, TypeOK, QueueTypeOK, WorkerInv, WorkerShape
<1>2. request[job[w]] # None
  BY <1>1 DEF IInv, TypeOK, ServerTypeOK, ServerInv
<1> QED BY <1>1, <1>2 DEF IInv, TypeOK, ServerTypeOK, RepoTypeOK, ServerInv

\* Steps that leave the broker, the table and the store alone.
LEMMA QuietStep ==
    ASSUME IInv, NEW w \in Workers, UNCHANGED <<rows, queueVars, storeVars, serverVars>>,
           WorkerTypeOK', OthersKeep(w), WorkerShape(w)', faults' \in [Faults -> Nat]
    PROVE  IInv'
<1>1. TypeOK'
  BY DEF IInv, TypeOK, RepoTypeOK, QueueTypeOK, StoreTypeOK, ServerTypeOK,
         queueVars, storeVars, serverVars
<1>2. QueueInv'
  BY DEF IInv, QueueInv, queueVars
<1> QED BY <1>1, <1>2, LateKept, WorkerFrame DEF queueVars, storeVars, serverVars

\* Steps that only change the table.
LEMMA TableStep ==
    ASSUME IInv, NEW w \in Workers, UNCHANGED <<queueVars, storeVars, serverVars>>, RepoTypeOK',
           \A j \in Jobs : rows[j].status # "ABSENT" => rows'[j].status # "ABSENT",
           WorkerTypeOK', OthersKeep(w), WorkerShape(w)', faults' \in [Faults -> Nat]
    PROVE  IInv'
<1>1. TypeOK'
  BY DEF IInv, TypeOK, QueueTypeOK, StoreTypeOK, ServerTypeOK, queueVars, storeVars, serverVars
<1>2. QueueInv'
  BY DEF IInv, QueueInv, queueVars
<1> QED BY <1>1, <1>2, LateKept, WorkerFrame DEF queueVars, storeVars, serverVars

\* Steps that only change the store.
LEMMA StoreStep ==
    ASSUME IInv, NEW w \in Workers, UNCHANGED <<rows, queueVars, serverVars>>, StoreTypeOK',
           WorkerTypeOK', OthersKeep(w), WorkerShape(w)', LateInv', faults' \in [Faults -> Nat]
    PROVE  IInv'
<1>1. TypeOK'
  BY DEF IInv, TypeOK, RepoTypeOK, QueueTypeOK, ServerTypeOK, queueVars, serverVars
<1>2. QueueInv'
  BY DEF IInv, QueueInv, queueVars
<1> QED BY <1>1, <1>2, WorkerFrame DEF queueVars

\* Steps that only change the queue.
LEMMA QueueStep ==
    ASSUME IInv, NEW w \in Workers, UNCHANGED <<rows, storeVars, serverVars, published>>,
           QueueTypeOK', QueueInv',
           \A v \in Workers \ {w} : channel'[v] = channel[v] /\ backlog'[v] = backlog[v],
           WorkerTypeOK', OthersKeep(w), WorkerShape(w)', faults' \in [Faults -> Nat]
    PROVE  IInv'
<1>1. TypeOK'
  BY DEF IInv, TypeOK, RepoTypeOK, StoreTypeOK, ServerTypeOK, storeVars, serverVars
<1> QED BY <1>1, LateKept, WorkerFrame DEF storeVars, serverVars

\* What the worker's own shape needs after a helper, its channel unchanged.
LEMMA ShapeAfterReturn ==
    ASSUME IInv, NEW w \in Workers, pc[w] \in Thread, UNCHANGED <<queueVars, serverVars>>,
           NEW label \in {"get_succeeded", "upsert", "get_collections"},
           label # "get_succeeded" => request[job[w]].type = Index, Return(w, label)
    PROVE  WorkerShape(w)'
<1>1. WorkerShape(w) /\ WorkerTypeOK /\ label \in Labels /\ pc[w] \in Busy
  BY DEF IInv, TypeOK, WorkerInv, Labels, Busy, Thread, Get
<1> QED BY <1>1, ReturnEffect DEF WorkerShape, Busy, Thread, Get, Commit, queueVars, serverVars

LEMMA ShapeAfterRaise ==
    ASSUME IInv, NEW w \in Workers, pc[w] \in Thread, UNCHANGED <<queueVars, serverVars>>,
           NEW error \in Errors, Raise(w, error)
    PROVE  WorkerShape(w)'
<1>1. WorkerShape(w) /\ WorkerTypeOK /\ pc[w] \in Busy
  BY DEF IInv, TypeOK, WorkerInv, Busy
<1>2. error # ""
  BY DEF Errors
<1> QED BY <1>1, <1>2, RaiseEffect DEF WorkerShape, Busy, Thread, Get, Commit, queueVars, serverVars

\* The labels a worker can be sent to.
LEMMA AllLabels == Busy \cup {"idle", "down"} \subseteq Labels
BY DEF Labels

\* The commits of the three _transition calls.
LEMMA CommitType ==
    ASSUME IInv, NEW w \in Workers, pc[w] \in Commit
    PROVE  /\ CommitRow(w, Running(loaded[w])) =>
                /\ RepoTypeOK'
                /\ \A j \in Jobs : rows[j].status # "ABSENT" => rows'[j].status # "ABSENT"
           /\ CommitRow(w, Succeeded(loaded[w])) =>
                /\ RepoTypeOK'
                /\ \A j \in Jobs : rows[j].status # "ABSENT" => rows'[j].status # "ABSENT"
           /\ pc[w] = "commit_failed" /\ CommitRow(w, Failed(loaded[w], exc[w])) =>
                /\ RepoTypeOK'
                /\ \A j \in Jobs : rows[j].status # "ABSENT" => rows'[j].status # "ABSENT"
<1>1. job[w] \in Jobs /\ loaded[w] \in Row /\ RepoTypeOK
  BY BusyJob DEF IInv, TypeOK, WorkerTypeOK, Busy
<1>2. pc[w] = "commit_failed" => exc[w] \in Errors
  BY DEF IInv, TypeOK, WorkerTypeOK, WorkerInv, WorkerShape
<1>3. ASSUME NEW new \in Row, new.status # "ABSENT", CommitRow(w, new)
      PROVE  /\ RepoTypeOK'
             /\ \A j \in Jobs : rows[j].status # "ABSENT" => rows'[j].status # "ABSENT"
  BY <1>1, <1>3, TransitionType DEF CommitRow
<1>4. Running(loaded[w]) \in Row /\ Running(loaded[w]).status # "ABSENT"
      /\ Succeeded(loaded[w]) \in Row /\ Succeeded(loaded[w]).status # "ABSENT"
  <2>1. "extract" \in Errors
    BY DEF Errors
  <2> QED BY <1>1, <2>1, NewRowTypes
<1>5. pc[w] = "commit_failed" =>
        Failed(loaded[w], exc[w]) \in Row /\ Failed(loaded[w], exc[w]).status # "ABSENT"
  BY <1>1, <1>2, NewRowTypes
<1> QED BY <1>3, <1>4, <1>5

\* A commit of what was loaded last writes the whole row.
LEMMA FreshCommit ==
    ASSUME rows \in [Jobs -> Row], NEW j \in Jobs, NEW new \in Row, Transition(j, rows[j], new)
    PROVE  rows' = [rows EXCEPT ![j] = new]
<1>1. new = [status |-> new.status, error |-> new.error]
  BY DEF Row
<1>2. rows'[j] = [status |-> new.status, error |-> new.error] /\ \A k \in Jobs \ {j} : rows'[k] = rows[k]
  BY DEF Transition, Column
<1> QED BY <1>1, <1>2 DEF Transition

LEMMA RowSteps ==
    ASSUME IInv, NEW w \in Workers,
           GetRow(w) \/ MarkRunning(w) \/ MarkSucceeded(w) \/ MarkFailed(w)
    PROVE  IInv'
<1> USE AllLabels DEF serverVars, queueVars
<1>0. pc[w] \in Busy
  BY DEF GetRow, MarkRunning, MarkSucceeded, MarkFailed, Busy, Get, Commit
<1>1. WorkerTypeOK /\ WorkerShape(w) /\ faults \in [Faults -> Nat]
  BY DEF IInv, TypeOK, WorkerInv
<1>2. CASE GetRow(w)
  <2>1. PICK label \in Commit : Goto(w, label) /\ (label = "commit_failed" => pc[w] = "get_failed")
    BY <1>2 DEF GetRow, Get, Commit
  <2>2. pc'[w] = label /\ pc' \in [Workers -> Labels] /\ \A v \in Workers \ {w} : pc'[v] = pc[v]
    BY <1>1, <2>1, GotoEffect DEF Busy
  <2>3. WorkerTypeOK' /\ OthersKeep(w)
    BY <1>1, <1>2, <1>0, <2>2, BusyJob DEF GetRow, WorkerTypeOK, OthersKeep
  <2>4. WorkerShape(w)'
    BY <1>1, <1>2, <1>0, <2>1, <2>2 DEF GetRow, WorkerShape, Busy, Thread, Get, Commit
  <2> QED BY <1>1, <1>2, <2>3, <2>4, QuietStep DEF GetRow
<1>3. CASE MarkRunning(w)
  <2>1. PICK label \in {"extract", "count"} :
            /\ CloseSession(w, label)
            /\ label = "extract" => request[job[w]].type = Index
            /\ label = "count" => request[job[w]].type = Delete
    BY <1>3, <1>0, BusyJob DEF MarkRunning, JobRequest
  <2>2. label \in Labels
    BY DEF Busy, Thread
  <2>3. WorkerTypeOK' /\ OthersKeep(w)
    BY <1>1, <1>3, <2>1, <2>2, CloseSessionEffect DEF MarkRunning, WorkerTypeOK, OthersKeep
  <2>4. WorkerShape(w)'
    BY <1>1, <1>3, <1>0, <2>1, <2>2, CloseSessionEffect
       DEF MarkRunning, WorkerShape, Busy, Thread, Get, Commit
  <2> QED BY <1>1, <1>3, <2>3, <2>4, TableStep, CommitType DEF MarkRunning, Commit
<1>4. CASE MarkSucceeded(w)
  <2>2. "settle" \in Labels
    BY DEF Busy
  <2>3. WorkerTypeOK' /\ OthersKeep(w)
    BY <1>1, <1>4, <2>2, CloseSessionEffect DEF MarkSucceeded, WorkerTypeOK, OthersKeep
  <2>4. WorkerShape(w)'
    BY <1>1, <1>4, <1>0, <2>2, CloseSessionEffect
       DEF MarkSucceeded, WorkerShape, Busy, Thread, Get, Commit
  <2> QED BY <1>1, <1>4, <2>3, <2>4, TableStep, CommitType DEF MarkSucceeded, Commit
<1>5. CASE MarkFailed(w)
  <2>2. "settle" \in Labels
    BY DEF Busy
  <2>3. WorkerTypeOK' /\ OthersKeep(w)
    BY <1>1, <1>5, <2>2, CloseSessionEffect DEF MarkFailed, WorkerTypeOK, OthersKeep
  <2>4. WorkerShape(w)'
    BY <1>1, <1>5, <1>0, <2>2, CloseSessionEffect
       DEF MarkFailed, WorkerShape, Busy, Thread, Get, Commit
  <2> QED BY <1>1, <1>5, <2>3, <2>4, TableStep, CommitType DEF MarkFailed, Commit
<1> QED BY <1>2, <1>3, <1>4, <1>5

LEMMA LoopSteps ==
    ASSUME IInv, NEW w \in Workers, Take(w) \/ TakeStale(w) \/ Settle(w) \/ Restart(w)
    PROVE  IInv'
<1> USE AllLabels, NoneIsNoName
<1>1. WorkerTypeOK /\ WorkerShape(w) /\ faults \in [Faults -> Nat] /\ QueueTypeOK /\ QueueInv
  BY DEF IInv, TypeOK, WorkerInv
<1>2. CASE Take(w)
  <2>1. "get_running" \in Labels
    BY DEF Busy, Get
  <2>2. pc'[w] = "get_running" /\ pc' \in [Workers -> Labels] /\ \A v \in Workers \ {w} : pc'[v] = pc[v]
    BY <1>1, <1>2, <2>1, GotoEffect DEF Take
  <2>3. channel[w] \in Jobs /\ channel[w] \in published
    BY <1>1, <1>2 DEF Take, QueueTypeOK, QueueInv
  <2>4. WorkerTypeOK' /\ OthersKeep(w)
    BY <1>1, <1>2, <2>2, <2>3 DEF Take, WorkerTypeOK, OthersKeep
  <2>5. WorkerShape(w)'
    BY <1>1, <1>2, <2>2, <2>3 DEF Take, WorkerTypeOK, WorkerShape, Busy, Thread, Get, queueVars
  <2> QED BY <1>1, <1>2, <2>4, <2>5, QuietStep DEF Take
<1>3. CASE Settle(w)
  <2>1. WorkerTypeOK' /\ OthersKeep(w) /\ pc'[w] = "idle" /\ job'[w] = None
        /\ delivery'[w] = "none" /\ exc'[w] = ""
    BY <1>1, <1>3, RestEffect DEF Settle
  <2>2. PICK j \in Jobs : job[w] = j
    BY <1>3, BusyJob DEF Settle, Busy
  <2>3. QueueTypeOK' /\ QueueInv'
    <3>1. CASE delivery[w] = "held"
      BY <1>1, <1>3, <2>2, <3>1, QueueTypes, QueueSteps DEF Settle
    <3>2. CASE delivery[w] # "held"
      BY <1>1, <1>3, <3>2 DEF Settle, queueVars, QueueTypeOK, QueueInv
    <3> QED BY <3>1, <3>2
  <2>4. UNCHANGED <<published, backlog>> /\ \A v \in Workers \ {w} : channel'[v] = channel[v]
    BY <1>1, <1>3 DEF Settle, Discard, queueVars, QueueTypeOK
  <2>5. WorkerShape(w)'
    BY <2>1 DEF WorkerShape, Busy, Thread, Get, Commit
  <2> QED BY <1>1, <1>3, <2>1, <2>3, <2>4, <2>5, QueueStep DEF Settle
<1>4. CASE Restart(w)
  <2>1. pc'[w] = "idle" /\ pc' \in [Workers -> Labels] /\ \A v \in Workers \ {w} : pc'[v] = pc[v]
    BY <1>1, <1>4, GotoEffect DEF Restart
  <2>2. WorkerTypeOK' /\ OthersKeep(w)
    BY <1>1, <1>4, <2>1 DEF Restart, WorkerTypeOK, OthersKeep
  <2>3. WorkerShape(w)'
    BY <1>1, <1>4, <2>1 DEF Restart, WorkerShape, Busy, Thread, Get, Commit, queueVars
  <2> QED BY <1>1, <1>4, <2>2, <2>3, QuietStep DEF Restart
<1>5. CASE TakeStale(w)
  <2>1. "get_running" \in Labels
    BY DEF Busy, Get
  <2>2. pc'[w] = "get_running" /\ pc' \in [Workers -> Labels] /\ \A v \in Workers \ {w} : pc'[v] = pc[v]
    BY <1>1, <1>5, <2>1, GotoEffect DEF TakeStale
  <2>3. backlog[w] \in Seq(Jobs) /\ 1 \in 1 .. Len(backlog[w]) /\ Head(backlog[w]) = backlog[w][1]
    BY <1>1, <1>5 DEF TakeStale, QueueTypeOK
  <2>4. Head(backlog[w]) \in Jobs /\ Head(backlog[w]) \in published
    BY <1>1, <2>3 DEF QueueInv, QueueTypeOK
  <2>5. WorkerTypeOK' /\ OthersKeep(w)
    BY <1>1, <1>5, <2>2, <2>4 DEF TakeStale, WorkerTypeOK, OthersKeep
  <2>6. UNCHANGED <<published, channel>> /\ \A v \in Workers \ {w} : backlog'[v] = backlog[v]
    BY <1>1, <1>5 DEF TakeStale, QueueTypeOK
  <2>7. Tail(backlog[w]) \in Seq(Jobs) /\ Len(Tail(backlog[w])) = Len(backlog[w]) - 1
        /\ \A i \in 1 .. Len(Tail(backlog[w])) : Tail(backlog[w])[i] = backlog[w][i + 1]
    BY <2>3
  <2>8. backlog' = [backlog EXCEPT ![w] = Tail(backlog[w])]
    BY <1>5 DEF TakeStale
  <2>9. QueueTypeOK'
    BY <1>1, <1>5, <2>7, <2>8 DEF TakeStale, QueueTypeOK
  <2>10. QueueInv'
    <3>1. ASSUME NEW v \in Workers, NEW i \in 1 .. Len(backlog'[v]) PROVE backlog'[v][i] \in redelivered
      <4>1. CASE v = w
        <5>1. i \in 1 .. Len(Tail(backlog[w])) /\ backlog'[v] = Tail(backlog[w])
          BY <1>1, <2>8, <3>1, <4>1 DEF QueueTypeOK
        <5>2. i + 1 \in 1 .. Len(backlog[w])
          BY <2>3, <2>7, <5>1
        <5> QED BY <1>1, <2>7, <4>1, <5>1, <5>2 DEF QueueInv
      <4>2. CASE v # w
        BY <1>1, <2>6, <3>1, <4>2 DEF QueueInv
      <4> QED BY <4>1, <4>2
    <3> QED BY <1>1, <1>5, <3>1 DEF TakeStale, QueueInv
  <2>11. WorkerShape(w)'
    BY <1>1, <1>5, <2>2, <2>4, <2>6 DEF TakeStale, WorkerTypeOK, WorkerShape, Busy, Thread, Get
  <2> QED BY <1>1, <1>5, <2>5, <2>6, <2>9, <2>10, <2>11, QueueStep DEF TakeStale
<1> QED BY <1>2, <1>3, <1>4, <1>5

LEMMA DeliverStep ==
    ASSUME IInv, NEW w \in Workers, NEW j \in Jobs, DeliverTo(w, j)
    PROVE  IInv'
<1> USE NoneIsNoName
<1>1. WorkerTypeOK /\ WorkerShape(w) /\ faults \in [Faults -> Nat] /\ QueueTypeOK /\ QueueInv
  BY DEF IInv, TypeOK, WorkerInv
<1>2. QueueTypeOK' /\ QueueInv'
  BY <1>1, QueueTypes, QueueSteps DEF DeliverTo
<1>3. UNCHANGED <<published, backlog>> /\ \A v \in Workers \ {w} : channel'[v] = channel[v]
  BY <1>1 DEF DeliverTo, Deliver, QueueTypeOK
<1>4. WorkerTypeOK' /\ OthersKeep(w)
  BY <1>1 DEF DeliverTo, workerVars, WorkerTypeOK, OthersKeep
<1>5. delivery[w] # "held"
  <2>1. delivery[w] = "held" => job[w] \in Jobs
    BY <1>1, BusyJob DEF WorkerShape
  <2> QED BY <1>1, <2>1 DEF DeliverTo, Deliver, WorkerShape
<1>6. WorkerShape(w)'
  BY <1>1, <1>3, <1>5 DEF DeliverTo, workerVars, serverVars, WorkerShape
<1> QED BY <1>1, <1>2, <1>3, <1>4, <1>6, QueueStep DEF DeliverTo

LEMMA ProcessSteps ==
    ASSUME IInv, NEW w \in Workers, Crash(w) \/ Stop(w) \/ ConnectionLost(w)
    PROVE  IInv'
<1> USE AllLabels, NoneIsNoName
<1>1. WorkerTypeOK /\ WorkerShape(w) /\ faults \in [Faults -> Nat] /\ QueueTypeOK /\ QueueInv
  BY DEF IInv, TypeOK, WorkerInv
<1>2. faults' \in [Faults -> Nat]
  BY <1>1, StrikeType DEF Crash, Stop, ConnectionLost
<1>3. UNCHANGED published /\ channel'[w] = None
      /\ \A v \in Workers \ {w} : channel'[v] = channel[v] /\ backlog'[v] = backlog[v]
  BY <1>1 DEF Crash, Stop, ConnectionLost, Requeue, Reconnect, PutBack, Discard, QueueTypeOK
<1>4. QueueTypeOK' /\ QueueInv'
  BY <1>1, QueueTypes, QueueSteps DEF Crash, Stop, ConnectionLost
<1>6. Crash(w) \/ Stop(w) => backlog'[w] = <<>>
  <2>1. CASE delivery[w] = "held" /\ Discard(w)
    BY <1>1, <2>1 DEF Discard, WorkerShape
  <2>2. CASE Requeue(w)
    BY <1>1, <2>2 DEF Requeue, QueueTypeOK
  <2> QED BY <2>1, <2>2 DEF Crash, Stop
<1>5. WorkerTypeOK' /\ OthersKeep(w) /\ WorkerShape(w)'
  <2>1. CASE (Crash(w) \/ Stop(w)) /\ Rest(w, "down")
    <3>1. WorkerTypeOK' /\ OthersKeep(w) /\ pc'[w] = "down" /\ job'[w] = None
          /\ delivery'[w] = "none"
      BY <1>1, <2>1, RestEffect
    <3> QED BY <1>3, <1>6, <2>1, <3>1 DEF WorkerShape, Busy, Thread, Get, Commit
  <2>2. CASE Stop(w) /\ pc[w] \in Thread
    <3>1. WorkerTypeOK' /\ OthersKeep(w) /\ delivery'[w] = "cancelled"
      BY <1>1, <2>2 DEF Stop, WorkerTypeOK, OthersKeep
    <3>2. pc[w] \in Busy /\ pc[w] # "down"
      BY <2>2 DEF Busy, Thread
    <3> QED BY <1>1, <1>3, <1>6, <2>2, <3>1, <3>2 DEF Stop, WorkerShape, serverVars
  <2>3. CASE ConnectionLost(w)
    <3>1. WorkerTypeOK' /\ OthersKeep(w)
      BY <1>1, <2>3 DEF ConnectionLost, WorkerTypeOK, OthersKeep
    <3>2. delivery'[w] = (IF delivery[w] = "held" THEN "lost" ELSE delivery[w])
      BY <1>1, <2>3 DEF ConnectionLost, WorkerTypeOK
    <3>3. /\ pc[w] \notin Busy => delivery'[w] = "none"
          /\ delivery'[w] # "held"
          /\ delivery'[w] = "cancelled" => delivery[w] = "cancelled"
      BY <1>1, <3>2 DEF WorkerShape
    <3>4. UNCHANGED <<pc, job, exc, request>>
      BY <2>3 DEF ConnectionLost, serverVars
    <3>5. channel[w] # None
      BY <2>3 DEF ConnectionLost
    <3>6. WorkerShape(w)'
      BY <1>1, <1>3, <3>3, <3>4, <3>5 DEF WorkerShape
    <3> QED BY <3>1, <3>6
  <2>4. CASE Crash(w)
    BY <2>1, <2>4 DEF Crash
  <2>5. CASE Stop(w)
    BY <2>1, <2>2, <2>5 DEF Stop
  <2> QED BY <2>3, <2>4, <2>5
<1> QED BY <1>2, <1>3, <1>4, <1>5, QueueStep DEF Crash, Stop, ConnectionLost

\* An upsert is only sent for an index job, a delete for a delete job.
LEMMA CallOfJob ==
    ASSUME IInv
    PROVE  /\ \A w \in Workers : pc[w] \in StoreCalls =>
                 /\ job[w] \in published
                 /\ pc[w] = "upsert" => request[job[w]].type = Index
                 /\ pc[w] = "delete" => request[job[w]].type = Delete
           /\ \A j \in published : j \in Jobs /\ request[j] \in JobRequest
<1>1. StoreCalls \subseteq Thread /\ Thread \subseteq Busy
  BY DEF StoreCalls, Thread, Busy
<1>2. \A w \in Workers : WorkerShape(w)
  BY DEF IInv, WorkerInv
<1>3. \A j \in published : j \in Jobs /\ request[j] \in JobRequest
  BY DEF IInv, TypeOK, ServerTypeOK, QueueTypeOK, ServerInv
<1> QED BY <1>1, <1>2, <1>3 DEF WorkerShape, Thread

\* A payload the worker writes is well formed.
LEMMA StorePointsType ==
    ASSUME IInv, NEW j \in published, request[j].type = Index, StorePoints(j)
    PROVE  points' \in [ChunkIds -> Payload \cup {None}]
<1> DEFINE p == request[j]
           payload == [client |-> p.client, corpus |-> p.corpus, job |-> j]
<1>2. j \in Jobs /\ p \in JobRequest /\ p.type = Index
  BY CallOfJob
<1>3. payload \in Payload
  BY <1>2 DEF JobRequest, Payload, Index, Delete
<1>4. Upsert(p.doc, ChunkCount[p.file], payload)
  BY DEF StorePoints
<1>5. points \in [ChunkIds -> Payload \cup {None}]
  BY DEF IInv, TypeOK, StoreTypeOK
<1> HIDE DEF p, payload
<1> QED BY <1>3, <1>4, <1>5, UpsertType

\* What Qdrant does for a job leaves the store well formed.
LEMMA EffectType ==
    ASSUME IInv, NEW call, NEW j \in published, call = "upsert" => request[j].type = Index,
           Effect(call, j)
    PROVE  /\ collection' \in {"absent", "created", "indexed"}
           /\ points' \in [ChunkIds -> Payload \cup {None}]
<1>1. StoreTypeOK
  BY DEF IInv, TypeOK
<1>2. CASE call = "upsert" /\ StorePoints(j) /\ UNCHANGED collection
  BY <1>1, <1>2, StorePointsType DEF StoreTypeOK
<1>3. CASE DeleteMatching(request[j].client, request[j].doc) /\ UNCHANGED collection
  BY <1>1, <1>3, DeleteType DEF StoreTypeOK
<1>4. CASE (CreateCollection \/ CreatePayloadIndexes) /\ UNCHANGED points
  BY <1>1, <1>4 DEF CreateCollection, CreatePayloadIndexes, StoreTypeOK
<1> QED BY <1>2, <1>3, <1>4 DEF Effect

\* The steps of the thread that go on with the work.
LEMMA ThreadGoto ==
    ASSUME IInv, NEW w \in Workers, NEW label \in Thread, Goto(w, label),
           UNCHANGED <<job, delivery, loaded, exc>>, UNCHANGED <<queueVars, serverVars>>,
           pc[w] \in Thread, label \in {"count", "delete"} <=> pc[w] \in {"count", "delete"}
    PROVE  WorkerTypeOK' /\ OthersKeep(w) /\ WorkerShape(w)'
<1>1. WorkerTypeOK /\ WorkerShape(w) /\ label \in Labels /\ label \in Busy /\ pc[w] \in Busy
  BY DEF IInv, TypeOK, WorkerInv, Labels, Busy
<1>2. pc' \in [Workers -> Labels] /\ pc'[w] = label /\ \A v \in Workers \ {w} : pc'[v] = pc[v]
  BY <1>1, GotoEffect
<1>3. WorkerTypeOK' /\ OthersKeep(w)
  BY <1>1, <1>2 DEF WorkerTypeOK, OthersKeep
<1> QED BY <1>1, <1>2, <1>3 DEF WorkerShape, Thread, queueVars, serverVars

LEMMA WorkSteps ==
    ASSUME IInv, NEW w \in Workers,
           \/ Extract(w) \/ GetCollections(w) \/ CreateMissing(w) \/ CreateConflicts(w)
           \/ CreateIndexes(w) \/ UpsertChunks(w) \/ Count(w) \/ DeletePoints(w)
    PROVE  IInv'
<1>1. WorkerTypeOK /\ WorkerShape(w) /\ faults \in [Faults -> Nat] /\ StoreTypeOK
  BY DEF IInv, TypeOK, WorkerInv
<1>2. pc[w] \in Thread /\ UNCHANGED <<rows, queueVars, serverVars, faults>>
  BY DEF Extract, GetCollections, CreateMissing, CreateConflicts, CreateIndexes,
         UpsertChunks, Count, DeletePoints, Thread
<1>3. StoreTypeOK'
  <2>1. CASE CreateMissing(w) \/ CreateIndexes(w)
    BY <1>1, <2>1 DEF CreateMissing, CreateIndexes, CreateCollection, CreatePayloadIndexes, StoreTypeOK
  <2>2. CASE UpsertChunks(w)
    <3>1. job[w] \in published /\ request[job[w]].type = Index
      BY <2>2, CallOfJob DEF UpsertChunks, StoreCalls
    <3> QED BY <1>1, <2>2, <3>1, StorePointsType DEF UpsertChunks, StoreTypeOK
  <2>3. CASE DeletePoints(w)
    BY <1>1, <2>3, DeleteType DEF DeletePoints, StoreTypeOK
  <2>4. CASE UNCHANGED storeVars
    BY <1>1, <2>4 DEF storeVars, StoreTypeOK
  <2> QED BY <2>1, <2>2, <2>3, <2>4 DEF Extract, GetCollections, CreateConflicts, Count
<1>4. WorkerTypeOK' /\ OthersKeep(w) /\ WorkerShape(w)'
  <2>1. ASSUME NEW error \in Errors, Raise(w, error)
        PROVE  WorkerTypeOK' /\ OthersKeep(w) /\ WorkerShape(w)'
    BY <1>1, <1>2, <2>1, RaiseEffect, ShapeAfterRaise
  <2>2. ASSUME NEW label \in {"get_succeeded", "upsert", "get_collections"}, Return(w, label),
               label # "get_succeeded" => request[job[w]].type = Index
        PROVE  WorkerTypeOK' /\ OthersKeep(w) /\ WorkerShape(w)'
    <3>1. label \in Labels
      BY DEF Labels, Busy, Get, Thread
    <3> QED BY <1>1, <1>2, <2>2, <3>1, ReturnEffect, ShapeAfterReturn
  <2>3. pc[w] \notin {"count", "delete"} => request[job[w]].type = Index
    BY <1>1, <1>2 DEF WorkerShape
  <2>4. {"extract", "conflict", "missing"} \subseteq Errors
    BY DEF Errors
  <2>5. CASE Extract(w)
    BY <2>1, <2>2, <2>3, <2>4, <2>5 DEF Extract
  <2>6. CASE GetCollections(w)
    <3>1. CASE collection = "absent"
      BY <1>2, <2>6, <3>1, ThreadGoto DEF GetCollections, Thread
    <3>2. CASE collection # "absent"
      BY <2>2, <2>3, <2>6, <3>2 DEF GetCollections
    <3> QED BY <3>1, <3>2
  <2>7. CASE CreateMissing(w)
    BY <1>2, <2>7, ThreadGoto DEF CreateMissing, Thread
  <2>8. CASE CreateConflicts(w)
    BY <2>1, <2>4, <2>8 DEF CreateConflicts
  <2>9. CASE CreateIndexes(w)
    BY <2>2, <2>3, <2>9 DEF CreateIndexes
  <2>10. CASE UpsertChunks(w)
    BY <2>2, <2>10 DEF UpsertChunks
  <2>11. CASE Count(w)
    <3>1. CASE Raise(w, "missing")
      BY <2>1, <2>4, <3>1
    <3>2. CASE Return(w, "get_succeeded")
      BY <2>2, <3>2
    <3>3. CASE Goto(w, "delete") /\ UNCHANGED <<job, delivery, loaded, exc>>
      BY <1>2, <2>11, <3>3, ThreadGoto DEF Count, Thread
    <3> QED BY <2>11, <3>1, <3>2, <3>3 DEF Count
  <2>12. CASE DeletePoints(w)
    BY <2>2, <2>12 DEF DeletePoints
  <2> QED BY <2>5, <2>6, <2>7, <2>8, <2>9, <2>10, <2>11, <2>12
<1>5. UNCHANGED late
  BY DEF Extract, GetCollections, CreateMissing, CreateConflicts, CreateIndexes,
         UpsertChunks, Count, DeletePoints, storeVars
<1>6. LateInv'
  BY <1>2, <1>5, LateKept DEF queueVars, serverVars
<1> QED BY <1>1, <1>2, <1>3, <1>4, <1>6, StoreStep

LEMMA FailSteps ==
    ASSUME IInv, NEW w \in Workers, DatabaseFails(w) \/ BackendFails(w) \/ CallTimesOut(w)
    PROVE  IInv'
<1> USE AllLabels
<1>1. WorkerTypeOK /\ WorkerShape(w) /\ faults \in [Faults -> Nat] /\ StoreTypeOK /\ RepoTypeOK
  BY DEF IInv, TypeOK, WorkerInv
<1>2. faults' \in [Faults -> Nat]
  BY <1>1, StrikeType DEF DatabaseFails, BackendFails, CallTimesOut
<1>3. CASE DatabaseFails(w)
  <2>1. RepoTypeOK' /\ \A j \in Jobs : rows[j].status # "ABSENT" => rows'[j].status # "ABSENT"
    BY <1>1, <1>3, CommitType DEF DatabaseFails, RepoTypeOK
  <2>2. PICK label \in {"get_failed", "settle"} :
            /\ CloseSession(w, label)
            /\ exc' = [exc EXCEPT ![w] = IF label = "get_failed" THEN "database" ELSE ""]
    BY <1>3 DEF DatabaseFails
  <2>3. label \in Labels /\ label \in Busy /\ label \notin Thread /\ label # "down"
        /\ pc[w] \in Busy /\ pc[w] \notin Thread /\ "database" \in Errors
    BY <1>3 DEF DatabaseFails, Busy, Get, Thread, Commit, Errors
  <2>4. WorkerTypeOK' /\ OthersKeep(w)
    BY <1>1, <2>2, <2>3, CloseSessionEffect DEF WorkerTypeOK, OthersKeep
  <2>5. exc'[w] = (IF label = "get_failed" THEN "database" ELSE "")
    BY <1>1, <2>2 DEF WorkerTypeOK
  <2>6. WorkerShape(w)'
    BY <1>1, <1>3, <2>2, <2>3, <2>5, CloseSessionEffect
       DEF DatabaseFails, WorkerShape, queueVars, serverVars, Thread
  <2> QED BY <1>2, <1>3, <2>1, <2>4, <2>6, TableStep DEF DatabaseFails
<1>4. CASE BackendFails(w)
  <2>1. UNCHANGED late
    BY <1>4 DEF BackendFails, storeVars
  <2>2. StoreTypeOK'
    <3>1. CASE UNCHANGED storeVars
      BY <1>1, <3>1 DEF storeVars, StoreTypeOK
    <3>2. CASE Effect(pc[w], job[w])
      <4>1. pc[w] \in StoreCalls
        BY <3>2 DEF Effect, StoreCalls
      <4> QED BY <1>1, <2>1, <3>2, <4>1, CallOfJob, EffectType DEF StoreTypeOK
    <3> QED BY <1>4, <3>1, <3>2 DEF BackendFails
  <2>3. "backend" \in Errors
    BY DEF Errors
  <2>4. WorkerTypeOK' /\ OthersKeep(w) /\ WorkerShape(w)'
    BY <1>1, <1>4, <2>3, RaiseEffect, ShapeAfterRaise DEF BackendFails
  <2>5. LateInv'
    BY <1>4, <2>1, LateKept DEF BackendFails, queueVars, serverVars
  <2> QED BY <1>2, <1>4, <2>2, <2>4, <2>5, StoreStep DEF BackendFails
<1>5. CASE CallTimesOut(w)
  <2>1. job[w] \in published /\ job[w] \in Jobs
        /\ (pc[w] = "upsert" => request[job[w]].type = Index)
        /\ (pc[w] = "delete" => request[job[w]].type = Delete)
    BY <1>5, CallOfJob DEF CallTimesOut
  <2>2. StoreTypeOK'
    <3>1. faults["timeout"] \in Nat
      BY <1>1 DEF Faults
    <3> QED BY <1>1, <1>5, <2>1, <3>1 DEF CallTimesOut, StoreTypeOK
  <2>3. "backend" \in Errors /\ pc[w] \in Thread
    BY <1>5 DEF CallTimesOut, Errors, StoreCalls, Thread
  <2>4. WorkerTypeOK' /\ OthersKeep(w) /\ WorkerShape(w)'
    BY <1>1, <1>5, <2>3, RaiseEffect, ShapeAfterRaise DEF CallTimesOut
  <2>5. LateInv'
    BY <1>5, <2>1 DEF CallTimesOut, IInv, LateInv, queueVars, serverVars
  <2> QED BY <1>2, <1>5, <2>2, <2>4, <2>5, StoreStep DEF CallTimesOut
<1> QED BY <1>3, <1>4, <1>5

\* A request takes effect that nobody waits for.
LEMMA LateStep ==
    ASSUME IInv, NEW e \in late, TakesEffect(e)
    PROVE  IInv'
<1>1. e.job \in published /\ (e.call = "upsert" => request[e.job].type = Index)
  BY DEF IInv, LateInv
<1>2. StoreTypeOK'
  BY <1>1, EffectType DEF TakesEffect, IInv, TypeOK, StoreTypeOK
<1>3. TypeOK'
  BY <1>2 DEF TakesEffect, IInv, TypeOK, RepoTypeOK, QueueTypeOK, ServerTypeOK, WorkerTypeOK,
              queueVars, serverVars, workerVars
<1>4. ServerInv' /\ QueueInv' /\ LateInv'
  BY DEF TakesEffect, IInv, ServerInv, QueueInv, LateInv, queueVars, serverVars
<1>5. WorkerInv'
  BY DEF TakesEffect, IInv, WorkerInv, WorkerShape, queueVars, serverVars, workerVars
<1> QED BY <1>3, <1>4, <1>5 DEF IInv

LEMMA NextIInv == IInv /\ [Next]_vars => IInv'
<1>1. ASSUME IInv, Next PROVE IInv'
  BY <1>1, ServerStep, DeliverStep, LoopSteps, RowSteps, WorkSteps, FailSteps, ProcessSteps, LateStep
     DEF Next, Work, WorkerFault
<1>2. ASSUME IInv, UNCHANGED vars PROVE IInv'
  BY <1>2 DEF vars, queueVars, storeVars, serverVars, workerVars, IInv, TypeOK, RepoTypeOK,
              QueueTypeOK, StoreTypeOK, ServerTypeOK, WorkerTypeOK, ServerInv, QueueInv,
              WorkerInv, WorkerShape, LateInv
<1> QED BY <1>1, <1>2

THEOREM AlwaysIInv == Spec => []IInv
BY InitIInv, NextIInv, PTL DEF Spec

-----------------------------------------------------------------------------
(* What follows from IInv at once.                                          *)

\* Every variable keeps its type.
THEOREM TypeCorrect == Spec => []TypeOK
BY AlwaysIInv, PTL DEF IInv

\* A worker never handles a job whose row is missing: both RPC handlers commit
\* the row before they publish, so _transition's LookupError is dead code.
THEOREM EnvelopesHaveRows == Spec => []EnvelopeHasRow
<1>1. IInv => EnvelopeHasRow
  <2> SUFFICES ASSUME IInv, NEW j \in Jobs, j \in published \/ \E w \in Workers : job[w] = j
               PROVE  request[j] # None /\ rows[j] # Absent
    BY DEF EnvelopeHasRow
  <2>1. j \in published
    BY NoneIsNoName DEF IInv, WorkerInv, WorkerShape
  <2>2. request[j] # None /\ rows[j].status # "ABSENT"
    BY <2>1 DEF IInv, ServerInv
  <2>3. Absent.status = "ABSENT"
    BY DEF Absent
  <2> QED BY <2>2, <2>3
<1> QED BY <1>1, AlwaysIInv, PTL

\* The ack a worker owes is for the message of the job it handles, and nobody
\* else can get hold of that message.
THEOREM HandlingIsExclusive == Spec => []ExclusiveHandling
<1>1. IInv => ExclusiveHandling
  <2> SUFFICES ASSUME IInv, NEW w \in Workers, delivery[w] = "held"
               PROVE  /\ channel[w] = job[w]
                      /\ job[w] \notin ready
                      /\ \A v \in Workers \ {w} : channel[v] # job[w]
    BY DEF ExclusiveHandling
  <2>1. channel[w] = job[w] /\ pc[w] \in Busy
    BY DEF IInv, WorkerInv, WorkerShape
  <2>2. job[w] # None
    BY <2>1, BusyJob, NoneIsNoName
  <2> QED BY <2>1, <2>2 DEF IInv, QueueInv
<1> QED BY <1>1, AlwaysIInv, PTL
-----------------------------------------------------------------------------
(* SUCCEEDED means stored.  The invariant follows the work of a job from    *)
(* its first commit: once its row is RUNNING it stays started, and a worker *)
(* about to write SUCCEEDED has the chunks in the store behind it, unless   *)
(* another started job may have overwritten or deleted them.                *)

Begun == Thread \cup {"get_succeeded", "commit_succeeded", "get_failed", "commit_failed"}

Covered(j) == \/ \A c \in ChunksOf(j) : StoredBy(c, j)
              \/ \E k \in Jobs \ {j} : SameDoc(j, k) /\ Started(k)

StoredShape(w) ==
    /\ pc[w] \in Begun => Started(job[w])
    /\ pc[w] \in Commit /\ loaded[w].status \in {"RUNNING", "SUCCEEDED", "FAILED"}
       => Started(job[w])
    /\ pc[w] \in {"get_succeeded", "commit_succeeded"} /\ IsIndex(job[w]) => Covered(job[w])

StoredInv ==
    /\ \A w \in Workers : StoredShape(w)
    /\ \A j \in Jobs : IsSucceeded(j) /\ IsIndex(j) => Covered(j)
    /\ \A e \in late : Started(e.job)

\* A commit moves a started job's row among the started statuses.
LEMMA TransitionStarted ==
    ASSUME RepoTypeOK, NEW j \in Jobs, NEW old \in Row, NEW new \in Row,
           new.status \in {"RUNNING", "SUCCEEDED", "FAILED"},
           old.status \in {"RUNNING", "SUCCEEDED", "FAILED"} => Started(j),
           Transition(j, old, new)
    PROVE  /\ Started(j)' /\ \A k \in Jobs : Started(k) => Started(k)'
           /\ \A k \in Jobs \ {j} : rows'[k] = rows[k]
           /\ IsSucceeded(j)' => IsSucceeded(j) \/ new.status = "SUCCEEDED"
BY DEF RepoTypeOK, Transition, Column, Started, IsSucceeded, Row

\* Covered(j) survives every step that keeps requests and started jobs, and
\* touches the chunks of j only if another started job has the same document.
LEMMA CoveredKeep ==
    ASSUME NEW j \in Jobs, request[j] # None, Covered(j),
           \A k \in Jobs : request[k] # None => request'[k] = request[k],
           \A k \in Jobs : Started(k) => Started(k)',
           \/ \A c \in ChunksOf(j) : StoredBy(c, j) => StoredBy(c, j)'
           \/ \E k \in Jobs \ {j} : SameDoc(j, k) /\ Started(k)
    PROVE  Covered(j)'
<1>1. ChunksOf(j)' = ChunksOf(j)
  BY DEF ChunksOf
<1>2. ASSUME NEW k \in Jobs \ {j}, SameDoc(j, k), Started(k)
      PROVE  Covered(j)'
  BY <1>2 DEF SameDoc, Covered
<1>3. CASE \A c \in ChunksOf(j) : StoredBy(c, j) /\ StoredBy(c, j)'
  BY <1>1, <1>3 DEF Covered
<1> QED BY <1>2, <1>3 DEF Covered

\* A job's chunk ids are ids of the store.
LEMMA ChunksAreIds ==
    ASSUME NEW j \in Jobs, request[j] \in JobRequest, request[j].type = Index
    PROVE  ChunksOf(j) \subseteq ChunkIds
<1>1. request[j].doc \in DocIds /\ request[j].file \in Files
  BY DEF JobRequest, Index, Delete
<1>2. ChunkCount[request[j].file] \in 0 .. MaxChunks /\ MaxChunks \in Nat
  BY <1>1, EffectAssumption, NamesAssumption
<1> QED BY <1>1, <1>2 DEF ChunksOf, chunk_id_for, ChunkIds

\* After its upsert the job's chunks are stored ...
LEMMA UpsertCovers ==
    ASSUME IInv, NEW j \in published, request[j].type = Index,
           StorePoints(j), UNCHANGED request
    PROVE  (\A c \in ChunksOf(j)' : StoredBy(c, j)') /\ Covered(j)'
<1>2. j \in Jobs /\ request[j] \in JobRequest /\ request[j].type = Index
  BY CallOfJob
<1>3. ASSUME NEW c \in ChunksOf(j)
      PROVE  points'[c] = [client |-> request[j].client, corpus |-> request[j].corpus, job |-> j]
  BY <1>2, <1>3, ChunksAreIds DEF StorePoints, Upsert, ChunksOf
<1>4. [client |-> request[j].client, corpus |-> request[j].corpus, job |-> j] # None
  BY <1>2, EffectAssumption DEF JobRequest, Payload, Index, Delete
<1>5. ChunksOf(j)' = ChunksOf(j)
  BY DEF ChunksOf
<1> QED BY <1>3, <1>4, <1>5 DEF Covered, StoredBy

\* What a step may do to the points: a call on behalf of a started job.
Touches(k) ==
    \/ request[k].type = Index /\ StorePoints(k)
    \/ request[k].type = Delete /\ DeleteMatching(request[k].client, request[k].doc)

PointsStep == UNCHANGED points \/ \E k \in published : Started(k) /\ Touches(k)

LEMMA EffectTouches ==
    ASSUME NEW call, NEW k, Effect(call, k), call = "upsert" => request[k].type = Index,
           call = "delete" => request[k].type = Delete
    PROVE  UNCHANGED points \/ Touches(k)
BY DEF Effect, Touches

\* ... and no other step takes them away behind its back.
LEMMA StoreKeeps ==
    ASSUME IInv, NEW j \in Jobs, request[j] # None, IsIndex(j),
           UNCHANGED serverVars, \A k \in Jobs : Started(k) => Started(k)',
           Covered(j), PointsStep
    PROVE  Covered(j)'
<1>1. request[j] \in JobRequest /\ request[j].type = Index
  BY DEF IInv, TypeOK, ServerTypeOK, IsIndex
<1>2. \A k \in Jobs : request[k] # None => request'[k] = request[k]
  BY DEF serverVars
<1>3. CASE UNCHANGED points
  <2>1. \A c \in ChunksOf(j) : StoredBy(c, j) => StoredBy(c, j)'
    BY <1>3 DEF StoredBy
  <2> QED BY <1>2, <2>1, CoveredKeep
<1>4. ASSUME NEW k \in published, Started(k), Touches(k) PROVE Covered(j)'
  <2>2. k \in Jobs /\ request[k] \in JobRequest /\ Started(k)
    BY <1>4, CallOfJob
  <2>3. request[k] # None
    BY <2>2, EffectAssumption
  <2>4. CASE request[k].doc = request[j].doc /\ k # j
    BY <1>2, <2>2, <2>3, <2>4, CoveredKeep DEF SameDoc
  <2>5. CASE request[k].doc = request[j].doc /\ k = j
    <3>1. StorePoints(j)
      BY <1>1, <1>4, <2>5 DEF Touches, Index, Delete
    <3> QED BY <1>1, <2>5, <3>1, UpsertCovers DEF serverVars
  <2>6. CASE request[k].doc # request[j].doc
    <3>1. ASSUME NEW c \in ChunksOf(j)
          PROVE  points'[c] = points[c]
      <4>1. c \in ChunkIds /\ c[1] = request[j].doc
        BY <1>1, <3>1, ChunksAreIds DEF ChunksOf, chunk_id_for
      <4>2. CASE StorePoints(k)
        BY <2>6, <4>1, <4>2 DEF StorePoints, Upsert, chunk_id_for
      <4>3. CASE DeleteMatching(request[k].client, request[k].doc)
        BY <2>6, <4>1, <4>3 DEF DeleteMatching, Matching
      <4> QED BY <1>4, <4>2, <4>3 DEF Touches
    <3>2. \A c \in ChunksOf(j) : StoredBy(c, j) => StoredBy(c, j)'
      BY <3>1 DEF StoredBy
    <3> QED BY <1>2, <3>2, CoveredKeep
  <2> QED BY <2>4, <2>5, <2>6
<1> QED BY <1>3, <1>4 DEF PointsStep

\* A worker's step keeps StoredInv if it keeps its own part of it and writes
\* SUCCEEDED only where mark_succeeded does.
LEMMA StoredFrame ==
    ASSUME IInv, StoredInv, NEW w \in Workers, OthersKeep(w), UNCHANGED serverVars,
           \A k \in Jobs : Started(k) => Started(k)',
           PointsStep, StoredShape(w)',
           \A e \in late' : e \in late \/ (pc[w] \in Begun /\ e.job = job[w]),
           \A j \in Jobs : IsSucceeded(j)' =>
               IsSucceeded(j) \/ (pc[w] = "commit_succeeded" /\ job[w] = j)
    PROVE  StoredInv'
<1>1. ASSUME NEW j \in Jobs, IsIndex(j), Covered(j) PROVE Covered(j)'
  <2>1. request[j] # None
    BY <1>1 DEF IsIndex
  <2> QED BY <1>1, <2>1, StoreKeeps
<1>2. ASSUME NEW v \in Workers \ {w} PROVE StoredShape(v)'
  <2>1. StoredShape(v) /\ pc'[v] = pc[v] /\ job'[v] = job[v] /\ loaded'[v] = loaded[v]
    BY DEF StoredInv, OthersKeep
  <2>2. pc[v] \in Busy => job[v] \in Jobs
    BY BusyJob
  <2>3. Begun \subseteq Busy /\ Commit \subseteq Busy
    BY DEF Begun, Busy, Thread, Get, Commit
  <2>4. pc[v] \in Busy /\ Started(job[v]) => Started(job[v])'
    BY <2>1, <2>2 DEF Started
  <2>5. ASSUME pc[v] \in {"get_succeeded", "commit_succeeded"}, IsIndex(job[v])'
        PROVE  Covered(job[v])'
    <3>1. pc[v] \in Busy
      BY <2>5 DEF Busy, Get, Commit
    <3>2. PICK j \in Jobs : job[v] = j /\ job'[v] = j
      BY <2>1, <2>2, <3>1
    <3>3. IsIndex(j)
      BY <2>5, <3>2 DEF IsIndex, serverVars
    <3>4. Covered(j)
      BY <2>1, <2>5, <3>2, <3>3 DEF StoredShape
    <3>5. Covered(j)'
      BY <1>1, <3>3, <3>4
    <3> QED BY <3>2, <3>5 DEF Covered, ChunksOf, StoredBy, SameDoc, Started
  <2> QED BY <2>1, <2>3, <2>4, <2>5 DEF StoredShape
<1>3. ASSUME NEW j \in Jobs, IsSucceeded(j)', IsIndex(j)' PROVE Covered(j)'
  <2>1. IsIndex(j)
    BY <1>3 DEF IsIndex, serverVars
  <2>2. Covered(j)
    BY <1>3, <2>1 DEF StoredInv, StoredShape
  <2> QED BY <1>1, <2>1, <2>2
<1>4. ASSUME NEW e \in late' PROVE Started(e.job)'
  <2>1. Started(e.job)
    BY DEF StoredInv, StoredShape, Started
  <2>2. e.job \in Jobs
    <3>1. CASE e \in late
      BY <3>1 DEF IInv, TypeOK, StoreTypeOK
    <3>2. CASE pc[w] \in Begun /\ e.job = job[w]
      BY <3>2, BusyJob DEF Begun, Busy, Thread, Get, Commit
    <3> QED BY <3>1, <3>2
  <2>3. \A k \in Jobs : Started(k) => Started(k)'
    OBVIOUS
  <2> QED BY <2>1, <2>2, <2>3 DEF Started
<1> QED BY <1>2, <1>3, <1>4 DEF StoredInv

LEMMA InitStored == Init => StoredInv
<1> SUFFICES ASSUME Init PROVE StoredInv
  OBVIOUS
<1>1. \A w \in Workers : StoredShape(w)
  BY DEF Init, StoredShape, Begun, Thread, Commit
<1>2. \A j \in Jobs : ~IsSucceeded(j)
  BY DEF Init, RepoInit, IsSucceeded, Absent
<1>3. late = {}
  BY DEF Init, StoreInit
<1> QED BY <1>1, <1>2, <1>3 DEF StoredInv

\* Steps that leave the table and the store alone.
LEMMA StoredQuiet ==
    ASSUME IInv, StoredInv, NEW w \in Workers, OthersKeep(w),
           UNCHANGED <<rows, storeVars, serverVars>>, StoredShape(w)'
    PROVE  StoredInv'
<1>1. \A k \in Jobs : (Started(k) => Started(k)') /\ (IsSucceeded(k)' => IsSucceeded(k))
  BY DEF Started, IsSucceeded
<1> QED BY <1>1, StoredFrame DEF PointsStep, storeVars, serverVars

\* A worker that is at none of the steps StoredShape speaks of.
LEMMA ShapeIdle ==
    ASSUME NEW w \in Workers, pc'[w] \notin Begun \cup Commit
    PROVE  StoredShape(w)'
BY DEF StoredShape, Begun

\* A worker that stays where it is.
LEMMA StoredStays ==
    ASSUME IInv, StoredInv, NEW w \in Workers, OthersKeep(w),
           UNCHANGED <<rows, storeVars, serverVars>>,
           pc'[w] = pc[w], job'[w] = job[w], loaded'[w] = loaded[w]
    PROVE  StoredInv'
<1>1. StoredShape(w)
  BY DEF StoredInv
<1>2. StoredShape(w)'
  BY <1>1 DEF StoredShape, Started, IsIndex, Covered, ChunksOf, StoredBy, SameDoc, storeVars, serverVars
<1> QED BY <1>2, StoredQuiet

LEMMA StoredLoop ==
    ASSUME IInv, StoredInv, NEW w \in Workers,
           \/ Take(w) \/ TakeStale(w) \/ Settle(w) \/ Restart(w) \/ Crash(w) \/ Stop(w) \/ ConnectionLost(w)
           \/ \E j \in Jobs : DeliverTo(w, j)
    PROVE  StoredInv'
<1> USE AllLabels
<1>1. WorkerTypeOK /\ {"idle", "down", "get_running"} \subseteq Labels
  BY DEF IInv, TypeOK, Busy, Get
<1>2. UNCHANGED <<rows, storeVars, serverVars>>
  BY DEF Take, TakeStale, Settle, Restart, Crash, Stop, ConnectionLost, DeliverTo
<1>3. CASE Take(w) \/ TakeStale(w) \/ Restart(w)
  <2>1. OthersKeep(w) /\ pc'[w] \in {"get_running", "idle"}
    BY <1>1, <1>3, GotoEffect DEF Take, TakeStale, Restart, OthersKeep, WorkerTypeOK
  <2> QED BY <1>2, <2>1, ShapeIdle, StoredQuiet DEF Begun, Thread, Commit
<1>4. CASE Rest(w, "idle") \/ Rest(w, "down")
  <2>1. OthersKeep(w) /\ pc'[w] \in {"down", "idle"}
    BY <1>1, <1>4, RestEffect
  <2> QED BY <1>2, <2>1, ShapeIdle, StoredQuiet DEF Begun, Thread, Commit
<1>5. CASE ConnectionLost(w) \/ \E j \in Jobs : DeliverTo(w, j)
  <2>1. OthersKeep(w) /\ pc'[w] = pc[w] /\ job'[w] = job[w] /\ loaded'[w] = loaded[w]
    BY <1>1, <1>5 DEF ConnectionLost, DeliverTo, workerVars, OthersKeep, WorkerTypeOK
  <2> QED BY <1>2, <2>1, StoredStays
<1>6. CASE Stop(w) /\ pc[w] \in Thread
  <2>1. OthersKeep(w) /\ pc'[w] = pc[w] /\ job'[w] = job[w] /\ loaded'[w] = loaded[w]
    BY <1>1, <1>6 DEF Stop, OthersKeep, WorkerTypeOK
  <2> QED BY <1>2, <2>1, StoredStays
<1>7. CASE Settle(w) \/ Crash(w) \/ (Stop(w) /\ pc[w] \notin Thread)
  BY <1>4, <1>7 DEF Settle, Crash, Stop
<1> QED BY <1>3, <1>5, <1>6, <1>7

\* What a commit does to the statuses, for the worker about to make it.
LEMMA CommitStarted ==
    ASSUME IInv, StoredInv, NEW w \in Workers, pc[w] \in Commit,
           NEW new \in Row, new.status \in {"RUNNING", "SUCCEEDED", "FAILED"}, CommitRow(w, new)
    PROVE  /\ \A j \in Jobs : job[w] = j => Started(j)'
           /\ \A k \in Jobs : Started(k) => Started(k)'
           /\ \A j \in Jobs : IsSucceeded(j)' =>
                 IsSucceeded(j) \/ (new.status = "SUCCEEDED" /\ job[w] = j)
<1>1. job[w] \in Jobs /\ loaded[w] \in Row /\ RepoTypeOK
  BY BusyJob DEF IInv, TypeOK, WorkerTypeOK, Busy
<1>2. loaded[w].status \in {"RUNNING", "SUCCEEDED", "FAILED"} => Started(job[w])
  BY DEF StoredInv, StoredShape
<1>3. /\ \A j \in Jobs : job[w] = j => Started(j)'
      /\ \A k \in Jobs : Started(k) => Started(k)'
      /\ \A k \in Jobs : k # job[w] => rows'[k] = rows[k]
      /\ \A j \in Jobs : job[w] = j /\ IsSucceeded(j)' => IsSucceeded(j) \/ new.status = "SUCCEEDED"
  <2> SUFFICES ASSUME NEW j \in Jobs, job[w] = j
               PROVE  /\ Started(j)'
                      /\ \A k \in Jobs : Started(k) => Started(k)'
                      /\ \A k \in Jobs : k # j => rows'[k] = rows[k]
                      /\ IsSucceeded(j)' => IsSucceeded(j) \/ new.status = "SUCCEEDED"
    BY <1>1
  <2> QED BY <1>1, <1>2, TransitionStarted DEF CommitRow
<1> QED BY <1>1, <1>3 DEF IsSucceeded

LEMMA StoredRows ==
    ASSUME IInv, StoredInv, NEW w \in Workers,
           GetRow(w) \/ MarkRunning(w) \/ MarkSucceeded(w) \/ MarkFailed(w) \/ DatabaseFails(w)
    PROVE  StoredInv'
<1> USE AllLabels
<1>1. WorkerTypeOK /\ WorkerShape(w) /\ StoredShape(w)
  BY DEF IInv, TypeOK, WorkerInv, StoredInv
<1>2. pc[w] \in Busy /\ UNCHANGED storeVars /\ UNCHANGED serverVars /\ UNCHANGED job
  BY DEF GetRow, MarkRunning, MarkSucceeded, MarkFailed, DatabaseFails, CloseSession, storeVars,
         Busy, Get, Commit
<1>3. PICK j \in Jobs : job[w] = j /\ job'[w] = j
  BY <1>2, BusyJob
<1>4. CASE GetRow(w)
  <2>1. PICK label \in Commit :
            /\ Goto(w, label)
            /\ label = "commit_succeeded" <=> pc[w] = "get_succeeded"
            /\ label = "commit_failed" <=> pc[w] = "get_failed"
    BY <1>4 DEF GetRow, Get, Commit
  <2>2. OthersKeep(w) /\ pc'[w] = label /\ loaded'[w] = rows[j] /\ UNCHANGED rows
    <3>1. label \in Labels
      BY DEF Busy
    <3> QED BY <1>1, <1>3, <1>4, <2>1, <3>1, GotoEffect DEF GetRow, WorkerTypeOK, OthersKeep
  <2>3. label \in Begun => pc[w] \in Begun
    BY <2>1 DEF Begun, Thread, Commit
  <2>4. label \in Begun => Started(j)'
    BY <1>1, <1>3, <2>2, <2>3 DEF StoredShape, Started
  <2>5. loaded'[w].status \in {"RUNNING", "SUCCEEDED", "FAILED"} => Started(j)'
    BY <2>2 DEF Started
  <2>6. ASSUME label \in {"get_succeeded", "commit_succeeded"}, IsIndex(j) PROVE Covered(j)'
    <3>1. Covered(j)
      BY <1>1, <1>3, <2>1, <2>6 DEF StoredShape, Commit
    <3> QED BY <1>2, <2>2, <3>1 DEF Covered, ChunksOf, StoredBy, SameDoc, Started, storeVars, serverVars
  <2>7. StoredShape(w)'
    BY <1>2, <1>3, <2>2, <2>4, <2>5, <2>6
       DEF StoredShape, Started, IsIndex, Covered, ChunksOf, StoredBy, SameDoc, serverVars
  <2> QED BY <1>2, <2>2, <2>7, StoredQuiet
<1>5. ASSUME NEW label \in Labels, CloseSession(w, label), OthersKeep(w), pc[w] \in Commit,
             label \notin Begun \/ (label \in Begun \ {"get_succeeded", "commit_succeeded"} /\ Started(j)'),
             \A k \in Jobs : Started(k) => Started(k)',
             \A k \in Jobs : IsSucceeded(k)' =>
                 IsSucceeded(k) \/ (pc[w] = "commit_succeeded" /\ job[w] = k)
      PROVE  StoredInv'
  <2>1. pc'[w] = label /\ loaded'[w].status = "ABSENT"
    <3>1. pc'[w] = label /\ loaded'[w] = Absent
      BY <1>1, <1>5, CloseSessionEffect
    <3>2. Absent.status = "ABSENT"
      BY DEF Absent
    <3> QED BY <3>1, <3>2
  <2>2. StoredShape(w)'
    BY <1>3, <1>5, <2>1 DEF StoredShape, Begun, Started
  <2>3. PointsStep /\ late' = late
    BY <1>2 DEF PointsStep, storeVars
  <2> QED BY <1>2, <1>5, <2>2, <2>3, StoredFrame
<1>6. loaded[w] \in Row
  BY <1>1 DEF WorkerTypeOK
<1>7. CASE MarkRunning(w)
  <2>1. CommitRow(w, Running(loaded[w])) /\ Running(loaded[w]) \in Row
        /\ Running(loaded[w]).status = "RUNNING"
    BY <1>6, <1>7 DEF MarkRunning, Running, Row, Statuses
  <2>2. PICK label \in {"extract", "count"} : CloseSession(w, label)
    BY <1>7 DEF MarkRunning
  <2>3. label \in Labels /\ label \in Begun \ {"get_succeeded", "commit_succeeded"}
    BY DEF Busy, Begun, Thread
  <2>4. OthersKeep(w) /\ pc[w] \in Commit
    BY <1>1, <1>7, <2>2, <2>3, CloseSessionEffect DEF MarkRunning, WorkerTypeOK, OthersKeep, Commit
  <2> QED BY <1>3, <1>5, <2>1, <2>2, <2>3, <2>4, CommitStarted
<1>8. CASE MarkSucceeded(w)
  <2>1. CommitRow(w, Succeeded(loaded[w])) /\ Succeeded(loaded[w]) \in Row
        /\ Succeeded(loaded[w]).status = "SUCCEEDED"
    BY <1>8 DEF MarkSucceeded, Succeeded, Row, Statuses
  <2>2. CloseSession(w, "settle") /\ "settle" \in Labels /\ "settle" \notin Begun
    BY <1>8 DEF MarkSucceeded, Busy, Begun, Thread
  <2>3. OthersKeep(w) /\ pc[w] \in Commit /\ pc[w] = "commit_succeeded"
    BY <1>1, <1>8, <2>2, CloseSessionEffect DEF MarkSucceeded, WorkerTypeOK, OthersKeep, Commit
  <2> QED BY <1>3, <1>5, <2>1, <2>2, <2>3, CommitStarted
<1>9. CASE MarkFailed(w)
  <2>1. CommitRow(w, Failed(loaded[w], exc[w])) /\ Failed(loaded[w], exc[w]) \in Row
        /\ Failed(loaded[w], exc[w]).status = "FAILED"
    BY <1>1, <1>9 DEF MarkFailed, Failed, Row, Statuses, WorkerTypeOK
  <2>2. CloseSession(w, "settle") /\ "settle" \in Labels /\ "settle" \notin Begun
    BY <1>9 DEF MarkFailed, Busy, Begun, Thread
  <2>3. OthersKeep(w) /\ pc[w] \in Commit
    BY <1>1, <1>9, <2>2, CloseSessionEffect DEF MarkFailed, WorkerTypeOK, OthersKeep, Commit
  <2> QED BY <1>3, <1>5, <2>1, <2>2, <2>3, CommitStarted
<1>10. CASE DatabaseFails(w)
  <2>1. PICK label \in {"get_failed", "settle"} :
            CloseSession(w, label) /\ (label = "get_failed" <=> pc[w] = "commit_succeeded")
    BY <1>10 DEF DatabaseFails
  <2>2. label \in Labels /\ (label \in Begun => label = "get_failed") /\ pc[w] \in Commit
    BY <1>10 DEF DatabaseFails, Busy, Get, Begun, Thread
  <2>3. OthersKeep(w)
    BY <1>1, <1>10, <2>1, <2>2, CloseSessionEffect DEF DatabaseFails, WorkerTypeOK, OthersKeep
  <2>4. /\ \A k \in Jobs : Started(k) => Started(k)'
        /\ \A k \in Jobs : IsSucceeded(k)' =>
             IsSucceeded(k) \/ (pc[w] = "commit_succeeded" /\ job[w] = k)
    <3>1. CASE UNCHANGED rows
      BY <3>1 DEF Started, IsSucceeded
    <3>2. CASE CommitRow(w, Running(loaded[w]))
      <4>1. Running(loaded[w]) \in Row /\ Running(loaded[w]).status = "RUNNING"
        BY <1>6 DEF Running, Row, Statuses
      <4> QED BY <2>2, <3>2, <4>1, CommitStarted
    <3>3. CASE pc[w] = "commit_succeeded" /\ CommitRow(w, Succeeded(loaded[w]))
      <4>1. Succeeded(loaded[w]) \in Row /\ Succeeded(loaded[w]).status = "SUCCEEDED"
        BY DEF Succeeded, Row, Statuses
      <4> QED BY <2>2, <3>3, <4>1, CommitStarted
    <3>4. CASE CommitRow(w, Failed(loaded[w], exc[w]))
      <4>1. Failed(loaded[w], exc[w]) \in Row /\ Failed(loaded[w], exc[w]).status = "FAILED"
        BY <1>1 DEF Failed, Row, Statuses, WorkerTypeOK
      <4> QED BY <2>2, <3>4, <4>1, CommitStarted
    <3> QED BY <1>10, <3>1, <3>2, <3>3, <3>4 DEF DatabaseFails
  <2>5. label = "get_failed" => Started(j)'
    BY <1>1, <1>3, <2>1, <2>4 DEF StoredShape, Begun
  <2> QED BY <1>5, <2>1, <2>2, <2>3, <2>4, <2>5
<1> QED BY <1>4, <1>7, <1>8, <1>9, <1>10

\* A thread's step: it leads to mark_succeeded only with the job covered.
LEMMA StoredWork ==
    ASSUME IInv, StoredInv, NEW w \in Workers,
           \/ Extract(w) \/ GetCollections(w) \/ CreateMissing(w) \/ CreateConflicts(w)
           \/ CreateIndexes(w) \/ UpsertChunks(w) \/ Count(w) \/ DeletePoints(w)
           \/ BackendFails(w) \/ CallTimesOut(w)
    PROVE  StoredInv'
<1> USE AllLabels
<1>1. WorkerTypeOK /\ WorkerShape(w) /\ StoredShape(w)
  BY DEF IInv, TypeOK, WorkerInv, StoredInv
<1>2. pc[w] \in Thread /\ UNCHANGED <<rows, serverVars>>
  BY DEF Extract, GetCollections, CreateMissing, CreateConflicts, CreateIndexes,
         UpsertChunks, Count, DeletePoints, BackendFails, CallTimesOut, Thread, StoreCalls
<1>4. PICK j \in Jobs : job[w] = j /\ request[j] \in JobRequest /\ Started(j)
  <2>1. pc[w] \in Busy /\ pc[w] \in Begun
    BY <1>2 DEF Busy, Begun
  <2> QED BY <1>1, <2>1, BusyJob DEF StoredShape
<1>3. PointsStep
  <2>1. pc[w] \in StoreCalls => job[w] \in published
    BY CallOfJob
  <2>2. ASSUME pc[w] \in StoreCalls, Effect(pc[w], job[w]) PROVE PointsStep
    BY <1>4, <2>1, <2>2, CallOfJob, EffectTouches DEF PointsStep
  <2>3. CASE UpsertChunks(w)
    BY <1>4, <2>1, <2>3, CallOfJob DEF UpsertChunks, StoreCalls, PointsStep, Touches
  <2>4. CASE DeletePoints(w)
    BY <1>4, <2>1, <2>4, CallOfJob DEF DeletePoints, Parameters, StoreCalls, PointsStep, Touches
  <2>5. CASE BackendFails(w)
    <3>1. Effect(pc[w], job[w]) => pc[w] \in StoreCalls
      BY DEF Effect, StoreCalls
    <3> QED BY <2>2, <2>5, <3>1 DEF BackendFails, PointsStep, storeVars
  <2> QED BY <2>3, <2>4, <2>5 DEF PointsStep, Extract, GetCollections, CreateMissing, CreateConflicts,
             CreateIndexes, Count, CallTimesOut, storeVars
<1>20. \A e \in late' : e \in late \/ (pc[w] \in Begun /\ e.job = job[w])
  <2>1. CASE CallTimesOut(w)
    BY <1>2, <2>1 DEF CallTimesOut, Begun
  <2> QED BY <2>1 DEF Extract, GetCollections, CreateMissing, CreateConflicts, CreateIndexes,
             UpsertChunks, Count, DeletePoints, BackendFails, storeVars
<1>5. \A k \in Jobs : (Started(k) <=> Started(k)') /\ (IsSucceeded(k)' => IsSucceeded(k))
  BY <1>2 DEF Started, IsSucceeded
<1>6. ASSUME NEW label \in Begun, pc'[w] = label, OthersKeep(w), UNCHANGED job,
             label \notin Commit,
             label = "get_succeeded" /\ IsIndex(j) => Covered(j)'
      PROVE  StoredInv'
  <2>1. StoredShape(w)'
    <3>1. Started(job[w])'
      BY <1>4, <1>5, <1>6 DEF Started
    <3>2. ASSUME pc'[w] \in {"get_succeeded", "commit_succeeded"}, IsIndex(job[w])'
          PROVE  Covered(job[w])'
      <4>1. label = "get_succeeded" /\ IsIndex(j)
        BY <1>2, <1>4, <1>6, <3>2 DEF Commit, IsIndex, serverVars
      <4> QED BY <1>4, <1>6, <4>1 DEF Covered, ChunksOf, StoredBy, SameDoc, Started
    <3> QED BY <1>6, <3>1, <3>2 DEF StoredShape
  <2> QED BY <1>2, <1>3, <1>5, <1>6, <1>20, <2>1, StoredFrame
<1>7. ASSUME pc'[w] = "down", OthersKeep(w) PROVE StoredInv'
  <2>1. StoredShape(w)'
    BY <1>7, ShapeIdle DEF Begun, Thread, Commit
  <2> QED BY <1>2, <1>3, <1>5, <1>7, <1>20, <2>1, StoredFrame
<1>8. ASSUME NEW error \in Errors, Raise(w, error) PROVE StoredInv'
  <2>1. "get_failed" \in Begun /\ "get_failed" \notin Commit /\ "get_failed" # "get_succeeded"
    BY DEF Begun, Commit
  <2>2. OthersKeep(w) /\ (pc'[w] = "down" \/ (pc'[w] = "get_failed" /\ UNCHANGED job))
    BY <1>1, <1>8, RaiseEffect
  <2> QED BY <1>6, <1>7, <2>1, <2>2
<1>9. ASSUME NEW label \in {"get_succeeded", "upsert", "get_collections"}, Return(w, label),
             label = "get_succeeded" /\ IsIndex(j) => Covered(j)'
      PROVE  StoredInv'
  <2>1. label \in Begun /\ label \notin Commit /\ label \in Labels
    BY DEF Begun, Thread, Commit, Busy, Get
  <2>2. OthersKeep(w) /\ (pc'[w] = "down" \/ (pc'[w] = label /\ UNCHANGED job))
    BY <1>1, <1>9, <2>1, ReturnEffect
  <2> QED BY <1>6, <1>7, <1>9, <2>1, <2>2
<1>10. ASSUME NEW label \in Thread, Goto(w, label), UNCHANGED <<job, delivery, loaded, exc>>
       PROVE  StoredInv'
  <2>1. label \in Begun /\ label \notin Commit /\ label \in Labels /\ label # "get_succeeded"
    BY DEF Begun, Thread, Commit, Busy
  <2>2. OthersKeep(w) /\ pc'[w] = label
    BY <1>1, <1>10, <2>1, GotoEffect DEF OthersKeep
  <2> QED BY <1>6, <1>10, <2>1, <2>2
<1>11. {"extract", "conflict", "missing", "backend"} \subseteq Errors
  BY DEF Errors
<1>12. CASE Extract(w)
  <2>1. Chunks(w) = 0 => Covered(j)'
    <3>1. Chunks(w) = 0 => ChunksOf(j)' = {}
      BY <1>2, <1>4 DEF Chunks, Parameters, ChunksOf, serverVars
    <3> QED BY <3>1 DEF Covered
  <2> QED BY <1>8, <1>9, <1>11, <1>12, <2>1 DEF Extract
<1>13. CASE GetCollections(w)
  <2>1. CASE collection = "absent"
    BY <1>10, <1>13, <2>1 DEF GetCollections, Thread
  <2>2. CASE collection # "absent"
    BY <1>9, <1>13, <2>2 DEF GetCollections
  <2> QED BY <2>1, <2>2
<1>14. CASE CreateMissing(w)
  BY <1>10, <1>14 DEF CreateMissing, Thread
<1>15. CASE CreateConflicts(w)
  BY <1>8, <1>11, <1>15 DEF CreateConflicts
<1>16. CASE CreateIndexes(w)
  BY <1>9, <1>16 DEF CreateIndexes
<1>17. CASE UpsertChunks(w)
  <2>1. Covered(j)'
    <3>1. j \in published /\ request[j].type = Index
      BY <1>4, <1>17, CallOfJob DEF UpsertChunks, StoreCalls
    <3> QED BY <1>2, <1>4, <1>17, <3>1, UpsertCovers DEF UpsertChunks, serverVars
  <2> QED BY <1>9, <1>17, <2>1 DEF UpsertChunks
<1>18. CASE Count(w) \/ DeletePoints(w)
  <2>1. ~IsIndex(j)
    BY <1>1, <1>4, <1>18 DEF Count, DeletePoints, WorkerShape, IsIndex, Index, Delete
  <2>2. CASE Return(w, "get_succeeded")
    BY <1>9, <2>1, <2>2
  <2>3. CASE Raise(w, "missing")
    BY <1>8, <1>11, <2>3
  <2>4. CASE Goto(w, "delete") /\ UNCHANGED <<job, delivery, loaded, exc>>
    BY <1>10, <2>4 DEF Thread
  <2> QED BY <1>18, <2>2, <2>3, <2>4 DEF Count, DeletePoints
<1>19. CASE BackendFails(w) \/ CallTimesOut(w)
  BY <1>8, <1>11, <1>19 DEF BackendFails, CallTimesOut
<1> QED BY <1>12, <1>13, <1>14, <1>15, <1>16, <1>17, <1>18, <1>19

\* A request nobody waits for is like any other.
LEMMA StoredLate ==
    ASSUME IInv, StoredInv, NEW e \in late, TakesEffect(e)
    PROVE  StoredInv'
<1>1. UNCHANGED <<rows, serverVars, workerVars>> /\ late' \subseteq late
  BY DEF TakesEffect
<1>2. PointsStep
  BY EffectTouches DEF TakesEffect, IInv, LateInv, StoredInv, PointsStep
<1>3. \A k : (Started(k) <=> Started(k)') /\ (IsSucceeded(k)' <=> IsSucceeded(k))
      /\ (IsIndex(k)' <=> IsIndex(k))
  BY <1>1 DEF Started, IsSucceeded, IsIndex, serverVars
<1>4. ASSUME NEW j \in Jobs, IsIndex(j), Covered(j) PROVE Covered(j)'
  BY <1>1, <1>2, <1>3, <1>4, StoreKeeps DEF IsIndex
<1>5. ASSUME NEW w \in Workers PROVE StoredShape(w)'
  <2>1. StoredShape(w) /\ pc'[w] = pc[w] /\ job'[w] = job[w] /\ loaded'[w] = loaded[w]
    BY <1>1 DEF StoredInv, workerVars
  <2>2. Started(job[w])' <=> Started(job[w])
    BY <1>1 DEF Started, workerVars
  <2>3. ASSUME pc'[w] \in {"get_succeeded", "commit_succeeded"}, IsIndex(job[w])'
        PROVE  Covered(job[w])'
    <3>1. pc[w] \in Busy
      BY <2>1, <2>3 DEF Busy, Get, Commit
    <3>2. PICK j \in Jobs : job[w] = j /\ job'[w] = j
      BY <2>1, <3>1, BusyJob
    <3>3. IsIndex(j)
      BY <1>1, <2>3, <3>2 DEF IsIndex, serverVars
    <3>4. Covered(j)
      BY <2>1, <2>3, <3>2, <3>3 DEF StoredShape
    <3>5. Covered(j)'
      BY <1>4, <3>3, <3>4
    <3> QED BY <3>2, <3>5 DEF Covered, ChunksOf, StoredBy, SameDoc, Started
  <2> QED BY <2>1, <2>2, <2>3 DEF StoredShape
<1>6. ASSUME NEW j \in Jobs, IsSucceeded(j)', IsIndex(j)' PROVE Covered(j)'
  BY <1>3, <1>4, <1>6 DEF StoredInv
<1> QED BY <1>1, <1>3, <1>5, <1>6 DEF StoredInv

\* A new request or a publication does not touch what is stored.
LEMMA StoredServer ==
    ASSUME IInv, IInv', StoredInv, NEW j \in Jobs, Server(j)
    PROVE  StoredInv'
<1>1. UNCHANGED <<points, late, workerVars>>
  BY DEF Server, IndexDocument, DeleteDocument, Accept, PublishEnvelope, HandlerFails, storeVars
<1>2. /\ \A k \in Jobs : request[k] # None => request'[k] = request[k] /\ rows'[k] = rows[k]
      /\ \A k \in Jobs : rows'[k] = rows[k] \/ (rows'[k].status = "QUEUED" /\ rows[k] = Absent)
      /\ \A k \in Jobs : request'[k] = request[k] \/ rows[k] = Absent
  <2>1. CASE UNCHANGED <<rows, request>>
    BY <2>1
  <2>2. ASSUME NEW r \in Requests, IndexDocument(j, r) \/ DeleteDocument(j, r)
        PROVE  /\ handler[j] = "none" /\ Create(j)
               /\ \A k \in Jobs \ {j} : request'[k] = request[k] /\ rows'[k] = rows[k]
    BY <2>2 DEF IndexDocument, DeleteDocument, Accept, Create, IInv, TypeOK, ServerTypeOK, RepoTypeOK
  <2>3. ASSUME handler[j] = "none", Create(j),
               \A k \in Jobs \ {j} : request'[k] = request[k] /\ rows'[k] = rows[k]
        PROVE  /\ \A k \in Jobs : request[k] # None => request'[k] = request[k] /\ rows'[k] = rows[k]
               /\ \A k \in Jobs : rows'[k] = rows[k] \/ (rows'[k].status = "QUEUED" /\ rows[k] = Absent)
               /\ \A k \in Jobs : request'[k] = request[k] \/ rows[k] = Absent
    <3>1. request[j] = None
      <4>1. Absent.status = "ABSENT" /\ rows[j] = Absent
        BY <2>3 DEF Create, Absent
      <4> QED BY <4>1 DEF IInv, ServerInv
    <3>2. rows'[j].status = "QUEUED" /\ rows[j] = Absent
      BY <2>3 DEF Create, IInv, TypeOK, RepoTypeOK
    <3> QED BY <2>3, <3>1, <3>2
  <2> QED BY <2>1, <2>2, <2>3 DEF Server, PublishEnvelope, HandlerFails
<1>3. \A k \in Jobs : (Started(k) => Started(k)') /\ (IsSucceeded(k)' => IsSucceeded(k))
  <2>1. Absent.status = "ABSENT"
    BY DEF Absent
  <2> QED BY <1>2, <2>1 DEF Started, IsSucceeded
<1>4. ASSUME NEW k \in Jobs, request[k] # None, Covered(k) PROVE Covered(k)'
  <2>1. \A c \in ChunksOf(k) : StoredBy(c, k) => StoredBy(c, k)'
    BY <1>1 DEF StoredBy
  <2> QED BY <1>2, <1>3, <1>4, <2>1, CoveredKeep
<1>5. ASSUME NEW w \in Workers PROVE StoredShape(w)'
  <2>1. StoredShape(w) /\ UNCHANGED <<pc, job, loaded>>
    BY <1>1 DEF StoredInv, workerVars
  <2>2. Begun \subseteq Busy /\ Commit \subseteq Busy
    BY DEF Begun, Busy, Thread, Get, Commit
  <2>3. CASE pc[w] \in Busy
    <3>1. PICK k \in Jobs : job[w] = k /\ request[k] # None
      BY <2>3, BusyJob, EffectAssumption
    <3>2. Started(k) => Started(k)'
      BY <1>3
    <3>3. request'[k] = request[k] /\ (IsIndex(k)' => IsIndex(k))
      BY <1>2, <3>1 DEF IsIndex
    <3>4. Covered(k) => Covered(k)'
      BY <1>4, <3>1
    <3>5. Started(job[w]) => Started(job[w])'
      BY <2>1, <3>1, <3>2 DEF Started
    <3>6. IsIndex(job[w])' => IsIndex(job[w])
      BY <2>1, <3>1, <3>3 DEF IsIndex
    <3>7. Covered(job[w]) => Covered(job[w])'
      BY <2>1, <3>1, <3>4 DEF Covered, ChunksOf, StoredBy, SameDoc, Started
    <3> QED BY <2>1, <3>5, <3>6, <3>7 DEF StoredShape
  <2>4. CASE pc[w] \notin Busy
    BY <2>1, <2>2, <2>4, ShapeIdle
  <2> QED BY <2>3, <2>4
<1>6. ASSUME NEW k \in Jobs, IsSucceeded(k)', IsIndex(k)' PROVE Covered(k)'
  <2>1. IsSucceeded(k)
    BY <1>3, <1>6
  <2>2. rows[k].status = "SUCCEEDED" /\ Absent.status = "ABSENT"
    BY <2>1 DEF IsSucceeded, Absent
  <2>3. request'[k] = request[k]
    BY <1>2, <2>2
  <2>4. IsIndex(k)
    BY <1>6, <2>3 DEF IsIndex
  <2>5. request[k] # None /\ Covered(k)
    BY <2>1, <2>4 DEF StoredInv, IsIndex
  <2> QED BY <1>4, <2>5
<1>7. ASSUME NEW e \in late' PROVE Started(e.job)'
  <2>1. e.job \in Jobs /\ Started(e.job)
    BY <1>1 DEF StoredInv, IInv, TypeOK, StoreTypeOK
  <2> QED BY <1>3, <2>1
<1> QED BY <1>5, <1>6, <1>7 DEF StoredInv

LEMMA NextStored == IInv /\ IInv' /\ StoredInv /\ [Next]_vars => StoredInv'
<1>1. ASSUME IInv, IInv', StoredInv, Next PROVE StoredInv'
  BY <1>1, StoredServer, StoredLoop, StoredRows, StoredWork, StoredLate DEF Next, Work, WorkerFault
<1>2. ASSUME StoredInv, UNCHANGED vars PROVE StoredInv'
  <2>1. UNCHANGED <<rows, points, late, request, pc, job, loaded>>
    BY <1>2 DEF vars, storeVars, serverVars, workerVars
  <2>2. \A k : Started(k)' <=> Started(k)
    BY <2>1 DEF Started
  <2>3. \A k : Covered(k)' <=> Covered(k)
    BY <2>1, <2>2 DEF Covered, ChunksOf, StoredBy, SameDoc
  <2>4. ASSUME NEW w \in Workers PROVE StoredShape(w)'
    <3>1. StoredShape(w)
      BY <1>2 DEF StoredInv
    <3>2. job'[w] = job[w] /\ pc'[w] = pc[w] /\ loaded'[w] = loaded[w]
      BY <2>1
    <3>3. Started(job[w])' <=> Started(job[w])
      BY <2>1 DEF Started
    <3>4. IsIndex(job[w])' <=> IsIndex(job[w])
      BY <2>1 DEF IsIndex
    <3>5. Covered(job[w])' <=> Covered(job[w])
      BY <2>1 DEF Covered, ChunksOf, StoredBy, SameDoc, Started
    <3> QED BY <3>1, <3>2, <3>3, <3>4, <3>5 DEF StoredShape
  <2>5. ASSUME NEW k \in Jobs, IsSucceeded(k)', IsIndex(k)' PROVE Covered(k)'
    <3>1. IsSucceeded(k) /\ IsIndex(k)
      BY <2>1, <2>5 DEF IsSucceeded, IsIndex
    <3> QED BY <1>2, <2>3, <3>1 DEF StoredInv
  <2>6. \A e \in late' : Started(e.job)'
    BY <1>2, <2>1 DEF StoredInv, Started
  <2> QED BY <2>4, <2>5, <2>6 DEF StoredInv
<1> QED BY <1>1, <1>2

\* StoredInv holds throughout.
THEOREM AlwaysStored == Spec => []StoredInv
BY InitStored, NextStored, AlwaysIInv, PTL DEF Spec

\* A job reported SUCCEEDED has every chunk of its file in the store, unless
\* another job on its document has begun: _handle_index only returns after the
\* upsert, and mark_succeeded only follows its return.
THEOREM SucceededImpliesStored == Spec => []SucceededIsStored
<1>1. StoredInv => SucceededIsStored
  BY DEF StoredInv, SucceededIsStored, Covered
<1> QED BY <1>1, AlwaysStored, PTL
-----------------------------------------------------------------------------
(* The requests nobody waits for.                                           *)

LEMMA LateGrows ==
    ASSUME [Next]_vars
    PROVE  late' \subseteq late \/ \E w \in Workers : CallTimesOut(w)
<1>1. CASE UNCHANGED storeVars
  BY <1>1 DEF storeVars
<1>2. CASE \E j \in Jobs : Server(j)
  BY <1>1, <1>2 DEF Server, IndexDocument, DeleteDocument, Accept, PublishEnvelope, HandlerFails
<1>3. ASSUME NEW w \in Workers, Work(w) \/ Restart(w) \/ \E j \in Jobs : DeliverTo(w, j)
      PROVE  UNCHANGED late
  BY <1>3 DEF storeVars, Work, Restart, DeliverTo, Take, TakeStale, Settle, GetRow, MarkRunning,
     MarkSucceeded, MarkFailed, Extract, GetCollections, CreateMissing, CreateConflicts, CreateIndexes,
     UpsertChunks, Count, DeletePoints
<1>4. ASSUME NEW w \in Workers, WorkerFault(w) PROVE late' \subseteq late \/ CallTimesOut(w)
  <2>1. CallTimesOut(w) \/ UNCHANGED late
    BY <1>4 DEF storeVars, WorkerFault, DatabaseFails, BackendFails, Crash, Stop, ConnectionLost
  <2> QED BY <2>1
<1>5. CASE (\E e \in late : TakesEffect(e)) \/ UNCHANGED vars
  BY <1>1, <1>5 DEF TakesEffect, vars
<1> QED BY <1>2, <1>3, <1>4, <1>5 DEF Next

\* If no call times out, none takes effect late.
LEMMA NeverLate ==
    ASSUME MaxFaults["timeout"] = 0
    PROVE  Spec => [](late = {})
<1>1. Init => late = {}
  BY DEF Init, StoreInit
<1>2. IInv /\ late = {} /\ [Next]_vars => (late = {})'
  <2>1. IInv => \A w \in Workers : ~CallTimesOut(w)
    BY DEF IInv, TypeOK, CallTimesOut, Strike, Faults
  <2> QED BY <2>1, LateGrows
<1> QED BY <1>1, <1>2, AlwaysIInv, PTL DEF Spec
=============================================================================
