---------------------------- MODULE DocumentJobs ----------------------------
(***************************************************************************)
(* The document job pipeline: the IndexDocument and DeleteDocument         *)
(* handlers of the API server, the document_jobs queue and the worker      *)
(* processes (src/doccontext/workers/document_worker.py), which share the  *)
(* job table and the vector store.                                         *)
(*                                                                         *)
(* One step is one effect another process can see: a committed statement,  *)
(* a call to the broker or one round trip to Qdrant.  Faults the code has  *)
(* to live with are actions of their own, each bounded by MaxFaults:       *)
(*   server      an RPC dies after its INSERT, around its publish          *)
(*   crash       a worker process dies                                     *)
(*   stop        a worker is interrupted: its handler gets CancelledError  *)
(*   connection  a worker's broker connection is lost and re-established   *)
(*   database    a worker's job table transaction raises                   *)
(*   backend     extracting, embedding or a Qdrant call raises             *)
(*   timeout     a Qdrant call times out, and takes effect later or never  *)
(***************************************************************************)
EXTENDS JobEffects, JobQueue, VectorStore, FiniteSets

CONSTANTS Unreadable,  \* the files extract_text raises on
          Requests,    \* the RPCs clients may send
          MaxFaults    \* bound: fault -> how often it may strike

Faults == {"server", "crash", "stop", "connection", "database", "backend", "timeout"}

\* An IndexDocumentRequest or DeleteDocumentRequest; None is an empty field.
Request == [type : {Index, Delete}, client : Clients \cup {None},
            corpus : Corpora \cup {None}, doc : Docs \cup {None},
            file : Files \cup {None}]

ASSUME DataAssumption ==
    /\ Unreadable \subseteq Files
    /\ Requests \subseteq Request
    /\ MaxFaults \in [Faults -> Nat]

VARIABLES
    handler,   \* job -> progress of the RPC that created it
    pc,        \* worker -> its next step
    job,       \* worker -> the job it handles
    delivery,  \* worker -> what became of the message it handles
    loaded,    \* worker -> the row its open session has loaded
    exc,       \* worker -> the exception being handled
    faults     \* fault -> how often it struck

workerVars == <<pc, job, delivery, loaded, exc>>
serverVars == <<request, handler>>
vars == <<rows, queueVars, storeVars, serverVars, workerVars, faults>>

\* The steps a worker may be at.  Those of Thread run in a thread of their own
\* (asyncio.to_thread), which survives the cancellation of its awaiter.
Thread  == {"extract", "get_collections", "create_collection", "create_index",
            "upsert", "count", "delete"}
Get     == {"get_running", "get_succeeded", "get_failed"}
Commit  == {"commit_running", "commit_succeeded", "commit_failed"}
Busy    == Thread \cup Get \cup Commit \cup {"settle"}
Labels  == Busy \cup {"idle", "down"}

ServerTypeOK ==
    /\ request \in [Jobs -> JobRequest \cup {None}]
    /\ handler \in [Jobs -> {"none", "created", "replied", "failed"}]

WorkerTypeOK ==
    /\ pc \in [Workers -> Labels]
    /\ job \in [Workers -> Jobs \cup {None}]
    /\ delivery \in [Workers -> {"none", "held", "lost", "cancelled"}]
    /\ loaded \in [Workers -> Row]
    /\ exc \in [Workers -> Errors \cup {""}]

TypeOK ==
    /\ RepoTypeOK /\ QueueTypeOK /\ StoreTypeOK /\ ServerTypeOK /\ WorkerTypeOK
    /\ faults \in [Faults -> Nat]

Init ==
    /\ RepoInit
    /\ QueueInit
    /\ StoreInit
    /\ request = [j \in Jobs |-> None]
    /\ handler = [j \in Jobs |-> "none"]
    /\ pc = [w \in Workers |-> "idle"]
    /\ job = [w \in Workers |-> None]
    /\ delivery = [w \in Workers |-> "none"]
    /\ loaded = [w \in Workers |-> Absent]
    /\ exc = [w \in Workers |-> ""]
    /\ faults = [f \in Faults |-> 0]

Strike(f)   == faults[f] < MaxFaults[f] /\ faults' = [faults EXCEPT ![f] = @ + 1]
Injected(f) == faults[f] > 0
-----------------------------------------------------------------------------
(* The API server.  A request that fails validation is aborted and changes  *)
(* nothing.                                                                 *)

\* Mutant: the envelope is published before the row is inserted.
AcceptPublishingFirst(j, r, doc) ==
    /\ handler[j] = "none"
    /\ Publish(j)
    /\ request' = [request EXCEPT ![j] = [r EXCEPT !.doc = doc]]
    /\ handler' = [handler EXCEPT ![j] = "created"]
    /\ UNCHANGED <<rows, storeVars, workerVars, faults>>

\* The row is committed under a fresh job id; the RPC goes on to publish.
Accept(j, r, doc) ==
    /\ handler[j] = "none"
    /\ Create(j)
    /\ request' = [request EXCEPT ![j] = [r EXCEPT !.doc = doc]]
    /\ handler' = [handler EXCEPT ![j] = "created"]
    /\ UNCHANGED <<queueVars, storeVars, workerVars, faults>>

\* Mutant: corpus_id is not validated.
IndexWithoutCorpus(j, r) ==
    /\ r.type = Index
    /\ None \notin {r.client, r.file}
    /\ Accept(j, r, IF r.doc = None THEN j ELSE r.doc)

\* IndexDocumentHandler.handle up to the INSERT.
IndexDocument(j, r) ==
    /\ r.type = Index
    /\ None \notin {r.client, r.corpus, r.file}
    /\ Accept(j, r, IF r.doc = None THEN j ELSE r.doc)

\* DeleteDocumentHandler.handle up to the INSERT: no corpus, no file.
DeleteDocument(j, r) ==
    /\ r.type = Delete
    /\ None \notin {r.client, r.doc}
    /\ Accept(j, [r EXCEPT !.corpus = None, !.file = None], r.doc)

\* The rest of either handler: publish the envelope, reply QUEUED.
PublishEnvelope(j) ==
    /\ handler[j] = "created"
    /\ Publish(j)
    /\ handler' = [handler EXCEPT ![j] = "replied"]
    /\ UNCHANGED <<rows, storeVars, request, workerVars, faults>>

\* publish raises or the server dies: the client has no job id to ask for.
\* The broker may have taken the message all the same.
HandlerFails(j) ==
    /\ Strike("server")
    /\ handler[j] = "created"
    /\ Publish(j) \/ UNCHANGED queueVars
    /\ handler' = [handler EXCEPT ![j] = "failed"]
    /\ UNCHANGED <<rows, storeVars, request, workerVars>>
-----------------------------------------------------------------------------
(* The consumer loop around the handler.                                    *)

Goto(w, label) == pc' = [pc EXCEPT ![w] = label]

\* The worker forgets the job: it goes back to the loop, or its process ends.
Rest(w, label) ==
    /\ Goto(w, label)
    /\ job' = [job EXCEPT ![w] = None]
    /\ delivery' = [delivery EXCEPT ![w] = "none"]
    /\ loaded' = [loaded EXCEPT ![w] = Absent]
    /\ exc' = [exc EXCEPT ![w] = ""]

\* The broker pushes to every live consumer, the handler still busy or not.
DeliverTo(w, j) ==
    /\ pc[w] # "down" /\ delivery[w] # "cancelled"
    /\ Deliver(w, j)
    /\ UNCHANGED <<rows, storeVars, serverVars, workerVars, faults>>

\* Mutant: the message is acked on receipt.
TakeAndAck(w) ==
    /\ pc[w] = "idle" /\ backlog[w] = <<>> /\ channel[w] # None
    /\ Goto(w, "get_running")
    /\ job' = [job EXCEPT ![w] = channel[w]]
    /\ Discard(w)
    /\ delivery' = [delivery EXCEPT ![w] = "lost"]
    /\ UNCHANGED <<rows, storeVars, serverVars, loaded, exc, faults>>

\* The loop takes the next message; handle parses it and starts mark_running.
Take(w) ==
    /\ pc[w] = "idle" /\ backlog[w] = <<>> /\ channel[w] # None
    /\ Goto(w, "get_running")
    /\ job' = [job EXCEPT ![w] = channel[w]]
    /\ delivery' = [delivery EXCEPT ![w] = "held"]
    /\ UNCHANGED <<rows, queueVars, storeVars, serverVars, loaded, exc, faults>>

\* What a dead channel left in the iterator comes first, and is handled like any
\* other message; nobody is there to take its ack.
TakeStale(w) ==
    /\ pc[w] = "idle" /\ backlog[w] # <<>>
    /\ Goto(w, "get_running")
    /\ job' = [job EXCEPT ![w] = Head(backlog[w])]
    /\ delivery' = [delivery EXCEPT ![w] = "lost"]
    /\ backlog' = [backlog EXCEPT ![w] = Tail(@)]
    /\ UNCHANGED <<published, ahead, ready, channel, redelivered>>
    /\ UNCHANGED <<rows, storeVars, serverVars, loaded, exc, faults>>

\* Mutant: process() acks whatever is on the channel by now.
SettleAnything(w) ==
    /\ pc[w] = "settle"
    /\ Discard(w)
    /\ Rest(w, "idle")
    /\ UNCHANGED <<rows, storeVars, serverVars, faults>>

\* Mutant: process(requeue=True).
SettleRequeueing(w) ==
    /\ pc[w] = "settle"
    /\ IF delivery[w] = "held" /\ rows[job[w]].status = "FAILED" THEN Requeue(w) ELSE Discard(w)
    /\ Rest(w, "idle")
    /\ UNCHANGED <<rows, storeVars, serverVars, faults>>

\* handle returned or raised: process() acks or nacks without requeue, and the
\* loop swallows the exception.  On a lost channel neither reaches the broker.
Settle(w) ==
    /\ pc[w] = "settle"
    /\ IF delivery[w] = "held" THEN Discard(w) ELSE UNCHANGED queueVars
    /\ Rest(w, "idle")
    /\ UNCHANGED <<rows, storeVars, serverVars, faults>>
-----------------------------------------------------------------------------
(* DocumentWorker.handle: the job row.                                      *)

\* The SELECT of _transition.  Its LookupError needs a job without a row,
\* which EnvelopeHasRow excludes.
GetRow(w) ==
    /\ pc[w] \in Get
    /\ loaded' = [loaded EXCEPT ![w] = rows[job[w]]]
    /\ Goto(w, CASE pc[w] = "get_running"   -> "commit_running"
                 [] pc[w] = "get_succeeded" -> "commit_succeeded"
                 [] pc[w] = "get_failed"    -> "commit_failed")
    /\ UNCHANGED <<rows, queueVars, storeVars, serverVars, job, delivery, exc, faults>>

CommitRow(w, new) == Transition(job[w], loaded[w], new)

\* The session is closed and the handler goes on.
CloseSession(w, label) ==
    /\ Goto(w, label)
    /\ loaded' = [loaded EXCEPT ![w] = Absent]
    /\ UNCHANGED <<job, delivery>>

MarkRunning(w) ==
    /\ pc[w] = "commit_running"
    /\ CommitRow(w, Running(loaded[w]))
    /\ CloseSession(w, IF request[job[w]].type = Index THEN "extract" ELSE "count")
    /\ UNCHANGED <<queueVars, storeVars, serverVars, exc, faults>>

MarkSucceeded(w) ==
    /\ pc[w] = "commit_succeeded"
    /\ CommitRow(w, Succeeded(loaded[w]))
    /\ CloseSession(w, "settle")
    /\ UNCHANGED <<queueVars, storeVars, serverVars, exc, faults>>

\* Mutant: the except clause does not re-raise and mark_succeeded follows it.
MarkFailedAndGoOn(w) ==
    /\ pc[w] = "commit_failed"
    /\ CommitRow(w, Failed(loaded[w], exc[w]))
    /\ CloseSession(w, "get_succeeded")
    /\ exc' = [exc EXCEPT ![w] = ""]
    /\ UNCHANGED <<queueVars, storeVars, serverVars, faults>>

MarkFailed(w) ==
    /\ pc[w] = "commit_failed"
    /\ CommitRow(w, Failed(loaded[w], exc[w]))
    /\ CloseSession(w, "settle")
    /\ exc' = [exc EXCEPT ![w] = ""]
    /\ UNCHANGED <<queueVars, storeVars, serverVars, faults>>

\* The transaction raises, before its commit or, in the refresh, after it.
\* Only mark_succeeded is inside the try of handle.
DatabaseFails(w) ==
    /\ Strike("database")
    /\ pc[w] \in Commit
    /\ \/ UNCHANGED rows
       \/ pc[w] = "commit_running"   /\ CommitRow(w, Running(loaded[w]))
       \/ pc[w] = "commit_succeeded" /\ CommitRow(w, Succeeded(loaded[w]))
       \/ pc[w] = "commit_failed"    /\ CommitRow(w, Failed(loaded[w], exc[w]))
    /\ CloseSession(w, IF pc[w] = "commit_succeeded" THEN "get_failed" ELSE "settle")
    /\ exc' = [exc EXCEPT ![w] = IF pc[w] = "commit_succeeded" THEN "database" ELSE ""]
    /\ UNCHANGED <<queueVars, storeVars, serverVars>>
-----------------------------------------------------------------------------
(* DocumentWorker._handle_index and _handle_delete: the work.               *)

Parameters(w) == request[job[w]]
Chunks(w)     == ChunkCount[Parameters(w).file]

\* The awaited thread is done.  If its awaiter was cancelled meanwhile, it was
\* the last thing the process waited for.
Return(w, label) ==
    IF delivery[w] = "cancelled"
    THEN Rest(w, "down")
    ELSE Goto(w, label) /\ UNCHANGED <<job, delivery, loaded, exc>>

\* The call raises: except Exception goes on to mark_failed.
Raise(w, error) ==
    IF delivery[w] = "cancelled"
    THEN Rest(w, "down")
    ELSE /\ Goto(w, "get_failed")
         /\ exc' = [exc EXCEPT ![w] = error]
         /\ UNCHANGED <<job, delivery, loaded>>

\* extract_text, chunk and embed; a text without chunks is a success.
Extract(w) ==
    /\ pc[w] = "extract"
    /\ \/ /\ Parameters(w).file \in Unreadable
          /\ Raise(w, "extract")
       \/ /\ Parameters(w).file \notin Unreadable
          /\ Return(w, IF Chunks(w) = 0 THEN "get_succeeded" ELSE "get_collections")
    /\ UNCHANGED <<rows, queueVars, storeVars, serverVars, faults>>

\* Mutant: ensure_collection does not look first.
CreateBlindly(w) ==
    /\ pc[w] = "get_collections"
    /\ Goto(w, "create_collection")
    /\ UNCHANGED <<rows, queueVars, storeVars, serverVars, job, delivery, loaded, exc, faults>>

\* ensure_collection reads the list of collections ...
GetCollections(w) ==
    /\ pc[w] = "get_collections"
    /\ IF collection = "absent"
       THEN Goto(w, "create_collection") /\ UNCHANGED <<job, delivery, loaded, exc>>
       ELSE Return(w, "upsert")
    /\ UNCHANGED <<rows, queueVars, storeVars, serverVars, faults>>

\* ... creates it if it was not there ...
CreateMissing(w) ==
    /\ pc[w] = "create_collection"
    /\ CreateCollection
    /\ Goto(w, "create_index")
    /\ UNCHANGED <<points, late, job, delivery, loaded, exc>>
    /\ UNCHANGED <<rows, queueVars, serverVars, faults>>

\* ... unless another worker just did: Qdrant answers 409 ...
CreateConflicts(w) ==
    /\ pc[w] = "create_collection"
    /\ collection # "absent"
    /\ Raise(w, "conflict")
    /\ UNCHANGED <<rows, queueVars, storeVars, serverVars, faults>>

\* ... and adds the payload indexes.
CreateIndexes(w) ==
    /\ pc[w] = "create_index"
    /\ CreatePayloadIndexes
    /\ Return(w, "upsert")
    /\ UNCHANGED <<points, late, rows, queueVars, serverVars, faults>>

\* Mutant: the last chunk is left out.
StoreAllButLast(j) ==
    LET p == request[j]
    IN  Upsert(p.doc, ChunkCount[p.file] - 1, [client |-> p.client, corpus |-> p.corpus, job |-> j])

\* Mutant: the points go out in batches, and one that fails ends the loop silently.
StoreInBatches(j) ==
    LET p == request[j]
    IN  \E n \in 0 .. ChunkCount[p.file] :
            Upsert(p.doc, n, [client |-> p.client, corpus |-> p.corpus, job |-> j])

\* The points of all chunks in one request.
StorePoints(j) ==
    LET p == request[j]
    IN  Upsert(p.doc, ChunkCount[p.file], [client |-> p.client, corpus |-> p.corpus, job |-> j])

UpsertChunks(w) ==
    /\ pc[w] = "upsert"
    /\ StorePoints(job[w])
    /\ Return(w, "get_succeeded")
    /\ UNCHANGED <<collection, late, rows, queueVars, serverVars, faults>>

\* delete_by_document counts first: without a collection Qdrant answers 404.
Count(w) ==
    /\ pc[w] = "count"
    /\ \/ /\ collection = "absent"
          /\ Raise(w, "missing")
       \/ /\ collection # "absent" /\ Matching(Parameters(w).client, Parameters(w).doc) = {}
          /\ Return(w, "get_succeeded")
       \/ /\ collection # "absent" /\ Matching(Parameters(w).client, Parameters(w).doc) # {}
          /\ Goto(w, "delete")
          /\ UNCHANGED <<job, delivery, loaded, exc>>
    /\ UNCHANGED <<rows, queueVars, storeVars, serverVars, faults>>

DeletePoints(w) ==
    /\ pc[w] = "delete"
    /\ DeleteMatching(Parameters(w).client, Parameters(w).doc)
    /\ Return(w, "get_succeeded")
    /\ UNCHANGED <<collection, late, rows, queueVars, serverVars, faults>>

\* What a call on behalf of job j does once Qdrant carries it out.
Effect(call, j) ==
    \/ call = "create_collection" /\ CreateCollection /\ UNCHANGED points
    \/ call = "create_index" /\ CreatePayloadIndexes /\ UNCHANGED points
    \/ call = "upsert" /\ StorePoints(j) /\ UNCHANGED collection
    \/ call = "delete" /\ DeleteMatching(request[j].client, request[j].doc) /\ UNCHANGED collection

\* The call in the thread raises, with or without its effect.
BackendFails(w) ==
    /\ Strike("backend")
    /\ pc[w] \in Thread
    /\ UNCHANGED storeVars \/ (Effect(pc[w], job[w]) /\ UNCHANGED late)
    /\ Raise(w, "backend")
    /\ UNCHANGED <<rows, queueVars, serverVars>>

\* The client gives up on its call while the request is still on its way ...
CallTimesOut(w) ==
    /\ Strike("timeout")
    /\ pc[w] \in StoreCalls
    /\ late' = late \cup {[call |-> pc[w], job |-> job[w], nr |-> faults["timeout"]]}
    /\ Raise(w, "backend")
    /\ UNCHANGED <<collection, points, rows, queueVars, serverVars>>

\* ... and Qdrant carries it out some time after, if it still can.
TakesEffect(e) ==
    /\ late' = late \ {e}
    /\ Effect(e.call, e.job)
    /\ UNCHANGED <<rows, queueVars, serverVars, workerVars, faults>>
-----------------------------------------------------------------------------
(* Worker processes and their connections.                                  *)

\* The process dies: the broker takes back what was on its channel.
Crash(w) ==
    /\ Strike("crash")
    /\ pc[w] # "down"
    /\ Requeue(w)
    /\ Rest(w, "down")
    /\ UNCHANGED <<rows, storeVars, serverVars>>

\* Mutant: the thread of a cancelled handler is killed.
StopKillingThread(w) ==
    /\ Strike("stop")
    /\ pc[w] # "down" /\ delivery[w] # "cancelled"
    /\ IF delivery[w] = "held" THEN Discard(w) ELSE Requeue(w)
    /\ Rest(w, "down")
    /\ UNCHANGED <<rows, storeVars, serverVars>>

\* The consume task is cancelled.  A handler under way gets CancelledError,
\* which no except clause catches: process() nacks its message without requeue
\* and the row stays as it is; in the middle of the ack itself, the message may
\* be left to the broker.  A message nobody took yet goes back.  The process
\* ends at once, or when its thread has returned; a transaction under way may
\* have been committed.
Stop(w) ==
    /\ Strike("stop")
    /\ pc[w] # "down" /\ delivery[w] # "cancelled"
    /\ \/ delivery[w] = "held" /\ Discard(w)
       \/ (delivery[w] # "held" \/ pc[w] = "settle") /\ Requeue(w)
    /\ IF pc[w] \in Thread
       THEN /\ delivery' = [delivery EXCEPT ![w] = "cancelled"]
            /\ UNCHANGED <<pc, job, loaded, exc>>
       ELSE Rest(w, "down")
    /\ UNCHANGED <<rows, storeVars, serverVars>>

\* The channel dies under a live worker.  The robust connection comes back,
\* but the delivery tag of the message being handled does not.
ConnectionLost(w) ==
    /\ Strike("connection")
    /\ channel[w] # None
    /\ Reconnect(w, delivery[w] = "held")
    /\ delivery' = [delivery EXCEPT ![w] = IF @ = "held" THEN "lost" ELSE @]
    /\ UNCHANGED <<rows, storeVars, serverVars, pc, job, loaded, exc>>

\* The operator starts the worker again.
Restart(w) ==
    /\ pc[w] = "down"
    /\ Goto(w, "idle")
    /\ UNCHANGED <<rows, queueVars, storeVars, serverVars, job, delivery, loaded, exc, faults>>
-----------------------------------------------------------------------------
Server(j) == \/ \E r \in Requests : IndexDocument(j, r) \/ DeleteDocument(j, r)
             \/ PublishEnvelope(j)
             \/ HandlerFails(j)

\* What a worker does by itself.
Work(w) == \/ Take(w) \/ TakeStale(w) \/ Settle(w) \/ GetRow(w)
           \/ MarkRunning(w) \/ MarkSucceeded(w) \/ MarkFailed(w)
           \/ Extract(w) \/ GetCollections(w) \/ CreateMissing(w) \/ CreateConflicts(w)
           \/ CreateIndexes(w) \/ UpsertChunks(w) \/ Count(w) \/ DeletePoints(w)

WorkerFault(w) == \/ DatabaseFails(w) \/ BackendFails(w) \/ CallTimesOut(w)
                  \/ Crash(w) \/ Stop(w) \/ ConnectionLost(w)

Next == \/ \E j \in Jobs : Server(j)
        \/ \E w \in Workers, j \in Jobs : DeliverTo(w, j)
        \/ \E w \in Workers : Work(w) \/ WorkerFault(w) \/ Restart(w)
        \/ \E e \in late : TakesEffect(e)

Spec == Init /\ [][Next]_vars

\* The server answers what it accepted, the broker delivers, a live worker goes
\* on and a dead one is started again.  No fault is ever obliged to happen.
Fairness ==
    /\ \A j \in Jobs : WF_vars(PublishEnvelope(j))
    /\ WF_vars(\E w \in Workers, j \in Jobs : DeliverTo(w, j))
    /\ \A w \in Workers : WF_vars(Work(w)) /\ WF_vars(Restart(w))

FairSpec == Spec /\ Fairness
-----------------------------------------------------------------------------
(* What the pipeline guarantees.                                            *)

\* Nobody holds an envelope whose job row is not in the table yet: a worker
\* never meets the LookupError of _transition (repositories/job.py:140-142),
\* because both handlers commit the row before they publish.
EnvelopeHasRow ==
    \A j \in Jobs : (j \in published \/ \E w \in Workers : job[w] = j)
                    => request[j] # None /\ rows[j] # Absent

\* The ack or nack a worker owes settles the message of the job it handles and
\* no other, and nobody else can get that message meanwhile: with prefetch=1
\* the job is handled once, unless the connection was lost under the handler.
ExclusiveHandling ==
    \A w \in Workers : delivery[w] = "held" =>
        /\ channel[w] = job[w]
        /\ job[w] \notin ready
        /\ \A v \in Workers \ {w} : channel[v] # job[w]

\* A job reported SUCCEEDED did its work: every chunk of its file is in the
\* store, unless another job on the same document has begun.  This holds with
\* any number of workers, redelivered messages and failing calls.
SucceededIsStored ==
    \A j \in Jobs : IsSucceeded(j) /\ IsIndex(j) =>
        \/ \A c \in ChunksOf(j) : StoredBy(c, j)
        \/ \E k \in Jobs \ {j} : SameDoc(j, k) /\ Started(k)

\* A point is a chunk of the job it names, and the versions of a document do not
\* interleave: where a chunk of one job is followed by a chunk of another, the
\* first has ended before it.  Nothing removes such leftovers
\* (document_worker.py:115), but they are a tail: a version that FULL_DOC reads has
\* no gap filled by another, however many workers and tenants write the document.
LeftoversTrail ==
    \A b \in ChunkIds : points[b] # None =>
        /\ b \in ChunksOf(points[b].job)
        /\ \A a \in ChunkIds :
               a[1] = b[1] /\ a[2] < b[2] /\ points[a] # None /\ points[a].job # points[b].job
               => b \notin ChunksOf(points[a].job)

\* error_message is not NULL exactly on FAILED, for a job that was delivered
\* once (an attempt after a redelivery keeps the message of the one before).
FailedTellsWhy ==
    \A j \in Jobs \ redelivered : rows[j].status = "FAILED" <=> rows[j].error # ""

\* The faults under which the code gives a message up without a final status,
\* or leaves a handler without a message to a process that may die.
MessageGivenUp ==
    \/ Injected("database") \/ Injected("stop")
    \/ Injected("connection") /\ Injected("crash")

\* Each of those faults costs one job at most: the one its worker handled.  The
\* broker keeps every other message for whoever comes next (rabbitmq.py:63).
AtWork(j) == \E w \in Workers : job[w] = j
LostJobs  == {j \in published : ~Finished(j) /\ ~InBroker(j) /\ ~AtWork(j)}
FewJobsAreLost ==
    Cardinality(LostJobs) <= faults["database"] + faults["stop"]
                             + (IF Injected("connection") THEN faults["crash"] ELSE 0)

\* A published job that is not finished is still on its way, in the broker or
\* with a worker, unless a fault made the code give its message up.
NoLostJob ==
    \A j \in published :
        \/ Finished(j) \/ InBroker(j) \/ AtWork(j)
        \/ MessageGivenUp

\* A collection without its payload indexes is about to get them, unless a crash
\* or a failing call came between: ensure_collection never repairs one
\* (qdrant.py:41-42).  Cancelling the handler does no harm, since the thread goes
\* on.
IndexesComplete ==
    collection = "created" =>
        \/ \E w \in Workers : pc[w] = "create_index"
        \/ Injected("crash") \/ Injected("backend") \/ Injected("timeout")

\* Finding no collection and creating one is not atomic (qdrant.py:40-43), and a
\* job fails of it; but each worker can lose that race once, and one wins it, be
\* it with a request it no longer waits for.
Conflicted == {j \in Jobs : rows[j].error = "conflict"}
ConflictsAreFew ==
    Cardinality(Conflicted) <= Cardinality(Workers) - (IF Injected("timeout") THEN 0 ELSE 1)

\* SUCCEEDED and FAILED are final for a job that was delivered once, unless the
\* refresh after the commit of mark_succeeded raises.
FinalUntilRedelivered ==
    [][\A j \in Jobs : Finished(j) /\ rows'[j] # rows[j]
                       => j \in redelivered \/ Injected("database")]_vars

Lifecycle == INSTANCE JobLifecycle WITH repeated <- redelivered

\* What a client sees of its job is the lifecycle the README draws (README.md:76):
\* QUEUED, RUNNING, SUCCEEDED or FAILED, in this order, with any number of
\* workers and whatever fails.  The exceptions are those of JobLifecycle: a job
\* that is delivered again, and a success whose refresh raises (job.py:148).
ImplementsLifecycle == Lifecycle!Spec

\* Every accepted job is finished for good some day, unless one of the faults
\* strikes under which its message is given up, or the RPC fails between the row
\* and the publish (index_service.py:88), which leaves it QUEUED for ever.
EveryJobEnds ==
    \A j \in Jobs : rows[j] # Absent ~> \/ []Finished(j) \/ MessageGivenUp
                                        \/ handler[j] = "failed" /\ j \notin published

\* No message stays in the broker: a job that keeps failing is dropped and does
\* not hold up the jobs behind it, whatever fails.
QueueDrains == \A j \in Jobs : j \in published ~> []~InBroker(j)
=============================================================================
