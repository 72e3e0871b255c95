# A TLA+ verification of doccontext

doccontext indexes documents for retrieval-augmented question answering. A gRPC
server accepts index and delete requests, records each as a job row in
PostgreSQL and hands it to worker processes through a RabbitMQ queue; a worker
extracts, cuts and embeds the file and writes the chunks to a Qdrant collection,
from which the server answers questions with two calls to an LLM.

This directory models the parts of that program that are hard to test: what
happens to a job, its row, its message and its points when several processes
work at once, when messages are delivered twice, and when any of them dies in
between; how the processes start together and how the server stops; what
concurrent queries do to the semaphore they share and read from a
store that is being written; and whether a text survives being cut into chunks
and put together again. TLC checks the models on small instances; TLAPS proves the central
safety properties for every instance.

Paths below are relative to `src/src/doccontext/`; `README.md:n` is the
repository's own README.

## Inventory

| part | state | operations | talks to |
|---|---|---|---|
| job RPC handlers (`services/index_service.py`, `delete_service.py`, `status_service.py`) | none of their own | IndexDocument, DeleteDocument: validate, INSERT a QUEUED row, publish an envelope, reply. GetIndexingJobStatus: SELECT the row | job repository, queue |
| job repository (`repositories/job.py`) | table `indexing_jobs`: status, error_message, parameters | create, get, mark_running, mark_succeeded, mark_failed (SELECT, then UPDATE) | PostgreSQL |
| queue client (`queue/rabbitmq.py`) | a connection and a channel per process | publish; consume with prefetch 1 inside `process(requeue=False)`; close | RabbitMQ |
| document worker (`workers/document_worker.py`, `worker.py`) | the job being handled | handle: mark_running, the work, mark_succeeded, or mark_failed and re-raise | all of the above, vector store, extractors, chunker, embedder |
| vector store (`vector_stores/qdrant.py`) | one collection with payload indexes; points keyed by chunk id | ensure_collection, upsert, delete_by_document, search, list_chunks_for_corpora | Qdrant |
| query service (`services/query_service.py`) | a semaphore | QueryDocuments: route, retrieve or reconstruct, answer | vector store, embedder, LLM |
| chunker (`chunking/recursive.py`) | none | cut a text into overlapping chunks with offsets | |
| server and worker processes (`server.py`, `worker.py`) | the RPCs in progress | bootstrap_schema; serve until a signal, grace period, close the publisher | PostgreSQL, queue client |
| extractors, embedders, LLM client and prompts, settings, logging, generated code | none that matters here | | |

What is hard, part by part, and what makes the part correct:

- **Jobs across processes.** A row and its message are two records of one job in
  two systems, with no transaction around both. Correct: no message without a
  row; no job whose row is unfinished and whose message is gone; a job reported
  SUCCEEDED did its work; a job ends, and ends once.
- **At-least-once delivery.** The broker returns an unacknowledged message when
  a worker dies or its connection is lost, even while the handler is still at
  it. Correct: an ack settles the message of the job it belongs to; running a
  job twice, or twice at the same time, is as good as running it once.
- **Order.** Index and delete jobs on one document do not commute. Correct: they
  take effect in the order they were published.
- **The collection** is created by whichever worker comes first, in four round
  trips. Correct: it is created once, with its indexes.
- **Chunk ids** are computed, so indexing again overwrites. Correct: a document
  is one version of one file of one tenant.
- **Processes** start together, all of them creating the table of jobs, and the
  server stops with RPCs under way. Correct: nobody works without the table, a
  start that fails succeeds when it is repeated, a stop ends although RPCs hang,
  and none of them uses the publisher once it is closed.
- **Queries** read while workers write, share a semaphore and rebuild text from
  overlapping chunks. Correct: a query always gives the semaphore back; the text
  is the text that was indexed.

`PROJECT.json` lists the hazards line by line, with the properties that address
them.

## The modules

```
Identifiers            names, chunk_id_for
  JobRepository        the table                  rows request
    JobLifecycle       abstract: what a row may go through
  JobQueue             the queue                  published ahead ready channel redelivered backlog
  Points               the points of the store    points
    VectorStore        and their collection       collection late
  JobEffects           what a job leaves in the store (JobRepository, Points)
    OrderedDocuments   abstract: jobs are worked off in order, each try at once
      OrderedDocuments_proofs
    DocumentJobs       server + queue + workers over JobEffects, JobQueue and
                       VectorStore, properties; implements JobLifecycle
      DocumentOrder          DocumentJobs implements OrderedDocuments
      DocumentClaims         sentences of the documentation the code breaks
      DocumentJobs_proofs, JobOutcomes_proofs, DocumentOrder_proofs,
      DocumentClaims_proofs
      MCDocumentJobs, MCDocumentClaims
  VectorStore
    QueryDocuments     queries over the store, while workers write it
      QueryDocuments_proofs, MCQueryDocuments
Chunking               a text cut into overlapping chunks
  Assembly             and put together again
    Assembly_proofs, MCAssembly
QueueClient            the publisher's connection and channel
  MCQueueClient
  ServerProcess        processes from start to end, with the publisher's RPCs
    ServerProcess_proofs, MCServerProcess
```

**JobRepository.** `rows[j]` is the row of job `j`. `_transition` is a SELECT
and a later UPDATE in one session: `GetRow` (in `DocumentJobs`) loads the row,
and `Transition` is the commit. SQLAlchemy writes only the columns whose value
differs from the loaded one, which `Column` says; PostgreSQL runs the sessions at
READ COMMITTED, so another session may commit in between. `error_message` is one
token per cause of failure; `""` is NULL. The timestamps are left out.
`request[j]` is what the columns and the envelope say about the job.

**JobQueue.** A message is named by the job whose envelope it carries. The order
of the queue is kept as `ahead[j]`, the messages published before `j`; the broker
delivers a waiting message when none that is ahead of it waits. This makes
requeueing "to its old place", which is what RabbitMQ does, a set union.
`channel[w]` is the unacknowledged message of consumer `w`: one, because
`run_worker` asks for `prefetch=1`. `Discard` is both ends of
`process(requeue=False)`: to the broker, an ack and a nack without requeue are
the same, for no dead-letter exchange is declared. When a connection is lost, the
broker requeues what is unacknowledged (`Requeue`). A message that was delivered and
not yet taken stays in the buffer of aio_pika's iterator (`backlog[w]`, `Reconnect`),
which hands it to the handler all the same, although nobody takes its ack any more.

**Points**, **VectorStore.** `points` maps a chunk id to its payload. The payload's
`job` stands for the text and the vector: who wrote them. `collection` is `"absent"`,
`"created"` while some payload index is missing, then `"indexed"`: the three
`create_payload_index` calls are one step. `late` holds the requests whose client
gave up waiting and which Qdrant may still carry out, each once and at any time.

**DocumentJobs.** The composition. `handler[j]` is how far the RPC of job `j`
got; `pc[w]` is the next step of worker `w`. One step is one effect another
process can see. The steps of `handle` and of what it calls:

| code | actions |
|---|---|
| the consumer loop, `process()` | `DeliverTo`, `Take` or `TakeStale`, `Settle` |
| `mark_running`, `mark_succeeded`, `mark_failed` | `GetRow`, then `MarkRunning`, `MarkSucceeded`, `MarkFailed` or `DatabaseFails` |
| `extract_text`, `chunk`, `embed` | `Extract` |
| `ensure_collection` | `GetCollections`, `CreateMissing` or `CreateConflicts`, `CreateIndexes` |
| `upsert` | `UpsertChunks` |
| `delete_by_document` | `Count`, `DeletePoints` |
| any call in a thread raising | `BackendFails` |
| a Qdrant call timing out; Qdrant carrying it out afterwards | `CallTimesOut`; `TakesEffect` |
| IndexDocument, DeleteDocument | `IndexDocument` or `DeleteDocument`, then `PublishEnvelope` or `HandlerFails` |
| a worker process dying, being cancelled, losing its connection, being started | `Crash`, `Stop`, `ConnectionLost`, `Restart` |

`delivery[w]` says what became of the message under the handler: `"held"` (an ack
will reach the broker), `"lost"` (the channel died and the delivery tag with it)
or `"cancelled"` (the handler was cancelled; the message is gone, and the process
only waits for the thread that `asyncio.to_thread` cannot interrupt).

`Stop` is cancellation, as by Ctrl-C under `asyncio.run`. It makes `process()` reject
the message, except in the middle of the ack, when the message may also be left to
the broker, which requeues it. A worker killed by
SIGTERM or SIGKILL is a `Crash`: `worker.py` installs no handler.

**JobLifecycle** is what a client that polls GetIndexingJobStatus sees of a job,
whatever happens between the steps: QUEUED, RUNNING, then SUCCEEDED or FAILED, each
once. It names the two exceptions: a job that is tried again (`repeated`) may go
back and forth between the last three, and a success whose transaction raised after
its commit turns into a failure. `DocumentJobs` implements it with any number of
workers: `repeated` is `redelivered`, and every step that neither changes a row nor
puts a message back is a stutter.

**OrderedDocuments** is what a client is promised, without the queue, the workers
and the round trips: a published job is `pending` until it is settled; only the
oldest pending job is at work; it may be tried any number of times, each try
taking effect at once or not at all; and SUCCEEDED is reported only of work that
is in place (`InPlace` in `JobEffects`), as is "there is no collection" of a delete.
**DocumentOrder** shows that `DocumentJobs` implements it with one worker: its rows
and points are those of the abstract specification, and a job is pending while
its message is in the broker or a worker has it (`OnItsWay`).

**QueryDocuments.** The queries of one server process, on one event loop: a step
is what runs between two awaits, or one round trip to Qdrant. `pc[q]` is the await
a query is at; it holds a permit from `router` to `answer_*`, which is the
`async with self._sem` of `handle`.

| code | actions |
|---|---|
| validation, `acquire` | `Ask` (a refused request touches nothing and is no step) |
| `acquire` after a wait | `Resume` |
| the router's reply | `RouteFullDoc`, `RouteSection` |
| `list_chunks_for_corpora`, page by page | `Scroll` |
| `embed_one` and `search` | `Search` |
| the second LLM call, leaving `async with` | `Answer` |
| any of these raising; the call cancelled | `Fail`; `Cancel` |
| workers writing meanwhile, in time or late | `WorkerCreates`, `WorkerUpserts`, `WorkerDeletes` |

`asyncio.Semaphore` is modelled as CPython's: FIFO; a permit handed to a waiter is
taken at once, although the waiter's task runs later; a waiter cancelled in
between gives it back and passes it on; a newcomer queues behind anybody who still
waits or was just woken. `Cancel` is grpc.aio cancelling the task of a call whose
client is gone. A scroll reads the points in the order of their ids (`Rank`,
arbitrary, since the ids are hashes) from `next_offset` on. `found[q]` is what was
read, `steady[q]` a history variable: for each chunk that has been in scope ever
since the scroll began, the versions it has had. When a query ends its record is cleared, and its client may
ask again, so the model has no bound on the number of queries.

**Chunking.** Of a text the model keeps its length and where each separator ends
(`text.ends`): all that the chunker looks at. The recursion of
`_expand_oversized` is a stack of `frames`, and one step takes one piece: it
extends the window under way, starts the next, or opens a frame with the next
finer separator. `AddOverlap` is one round of the loop of `_add_overlap`. That the
slice of a frame is searched for separators as the whole text would be holds for
`_DEFAULT_SEPARATORS`: a slice begins after a coarser separator, so it never
begins in the middle of a `". "` or, below the top level, looks for `"\n\n"`.

**Assembly** adds the loop of `_assemble_documents` over the chunks of one
document, in the order of their indexes, and the spans of its citations. A
character is its position, so `built = <<1, ..., n>>` says that the text came out as
it went in.

**QueueClient.** `_channel_open`, `publish` and `close` of the publisher, whose
calls interleave at their awaits. `open` and `live` are the connections and
channels that exist; `connection` and `channel` are the two the object remembers.

**ServerProcess** is `serve` and `main` from start to end. All processes run
`bootstrap_schema` first: `create_all` looks for the table (`Inspect`), creates it
(`Create`, which waits for a transaction that creates it too and raises if that one
commits) and commits (`Commit`). The server then accepts RPCs (`Accept`), whose
publishes are the steps of `QueueClient` (`PublishStep`), until a `Signal`; it stops
when they have ended (`Drained`). After five seconds (`GraceOver`) grpc.aio cancels
those that have not; each may take more steps before the CancelledError reaches it
and ends it (`Cancelled`). That `Server.stop` returns only after the last has ended is
grpc.aio's part, and assumed. The server then closes the publisher and exits. Any process may `Crash` at any step
and be started again. What an RPC or a worker does besides is in the other modules:
here an RPC is a publish that may never come, may hang at any await, or ends.
The loading of the embedding model before that is left out.

Abstractions, each on the side of the data:

- A file always has the same number of chunks, or always fails to extract.
- `extract_text`, `chunk` and `embed` have no effect another process sees: one step.
- `_transition`'s LookupError is left out: theorem `EnvelopesHaveRows` shows it
  unreachable. So is the malformed envelope, which this program never publishes.
- A SELECT that raises is a `DatabaseFails` that changes nothing.
- A document id drawn by the server is written as the job itself, which is as fresh.
- A search returns any `TopK` points of its scope: the similarity is not modelled.
- A thread that reads for a query that was cancelled goes on reading after the
  permit is released. It changes nothing, so it is no part of the model; but it
  means that `max_concurrent_queries` caps calls of the LLM and not reads of the store.
- The prompts, the trimming of the history and the formatting of the answer are
  left out: they are pure and touch no state.

## The runs

All runs are exhaustive. `CHECK_DEADLOCK FALSE` everywhere: when every job is
done and every fault spent the system rightly stops.

| run | instance | what it shows |
|---|---|---|
| `order` | 3 jobs, 1 worker, 3 requests; of crash, stop, reconnect, database fault and failing call any three once each | `ImplementsOrder`: `DocumentJobs` implements `OrderedDocuments`; `AppliedInOrder`: what is in the store is what the jobs leave in the order of publishing; `FewJobsAreLost`: a database fault, a stop, or a crash together with a lost connection costs one job its message at most; `ImplementsLifecycle`, here with stopped workers and failing commits |
| `two_workers` | 2 jobs, 2 workers, 6 requests; of crash, reconnect, failing call and call timing out any three once each | `TypeOK`, `EnvelopeHasRow`, `ExclusiveHandling`, `SucceededIsStored`, `NoLostJob`; `LeftoversTrail`: of a document's versions each ends before the points of another begin; `ConflictsAreFew`: each worker loses the race to create the collection at most once, and one wins it, be it with a call it gave up; `ImplementsLifecycle`: `DocumentJobs` implements `JobLifecycle` |
| `liveness` | 2 jobs, 1 worker, 3 requests; every fault but the failing call and the call timing out once each; fairness | `FailedTellsWhy`: the error column tells FAILED from the rest for a job delivered once; `IndexesComplete`: a collection without all its payload indexes is being completed, or its worker was killed; `FinalUntilRedelivered`: only a redelivery, or a failing refresh, changes a final status; `EveryJobEnds`: a published job ends for good unless its message is given up; `QueueDrains`: no message stays in the broker |
| `chunking` | all texts up to 6 characters over newline, full stop, space, letter; all chunk sizes to 4 with all overlaps | `WindowsTile`: no gap, no overlap, none too long; `ChunksOverlap`: every window becomes a chunk with exactly its overlap; `RoundTrip`: what is assembled is the text; `CutsAreNatural`: a cut within a piece of a coarser separator is made only if that piece is too long; `ShortTextIsOneChunk`; `AnotherPiece`: the loop always has a piece to take, and a finer separator for one that is too long; `EveryStepCounts`: every step lowers a measure; `Ends`: the recursion ends |
| `queries` | 4 clients, 2 permits, pages of 2, at most 4 chunks a scan, 2 writes, fairness | `PermitsKept`; `FirstComeFirstServed`; `ScanComplete`: a scan has every chunk that stayed in its scope, in a version it had meanwhile, or is full and cut off before it; `PagesAreNew`: no page reads a chunk again; `EveryQueryEnds` |
| `server` | a server and 2 workers, the server and one worker started twice at most, 2 RPCs, fairness | `TableBeforeWork`; `FailsOnceAtMost`: the race to create the table is lost once by a process and never by all; `ClosedForGood`: no RPC uses a closed publisher; `StopEnds` |
| `claim_*` | 1 or 2 jobs or publishes, the one fault the claim needs | how the code departs from a sentence of its documentation (below) |

**The bounds.** Two jobs are enough for two attempts at one document and for an
attempt racing its own redelivery on a second worker; order needs a third (a
message that is ahead, one requeued, one behind). Files of 2, 1 and 0 chunks and
one that cannot be read give a shrinking document, an empty one and a failing one.
Two tenants share a document id. One occurrence per kind of fault, at any step,
already gives up to three attempts at a job. The failing call (`backend`) is in `order` and `two_workers`, the call timing out
(`timeout`) in `two_workers`, where a second worker gives it something to meet late;
both together with all else would not finish within minutes. A job also fails through
the unreadable file and the missing collection. These two runs allow three kinds of
fault in one behaviour (the constraint `ThreeFaults`): any three of them, in any order
and at any step. `SYMMETRY` permutes jobs and workers, in `two_workers` and `order`,
whose temporal properties `ImplementsOrder` and `ImplementsLifecycle` are safety
properties (step conditions that do not tell the names apart).

Six characters hold two paragraphs of two sentences or words, a piece that is
too long on each level, and both endings of a run of newlines; size 4 with overlap
3 makes a chunk reach back over several windows. Four queries on two permits
leave two in the queue, which is the least at which order matters and a woken
query can be overtaken. Documents of three chunks on pages of two give a scan with a page after the
first; a limit of four is reached when a second document is there too. Of the
writes one creates a document, and the other deletes it, replaces it, shortens
it, or takes it over for another tenant, at any point of a scan. `EveryQueryEnds`
watches one of the four clients, since they differ in nothing but their names.

A server and two workers are the least that has a process start while two race;
a second start shows what a failed or crashed one finds, and one worker is enough to
meet it. Two RPCs race to connect,
and one may hang while the other ends.

**`NoLostJob`** names its exceptions: after a database or a stop fault the code
does give a message up without a final status (the claim `DroppedIsFinished`),
and a handler whose message was lost with the connection may be the last to write
the row before its process dies. **`FewJobsAreLost`** has no exceptions and counts
instead: each of those faults costs the one job its worker was at, never another.

**`ScanComplete`** says what a scan that reaches its limit (10000 in the code) may
lack, for it drops the rest without a word: it is full, and every chunk it lacks comes
after all it has read. A chunk that is rewritten during the scan is read
in one of the versions it had meanwhile; two chunks may come from two versions of
their document, for the code takes no snapshot.

**`AppliedInOrder`** and `ImplementsOrder` are checked with one worker because they
hold with one worker: nothing in the code keeps a second one from overtaking the
first. Nor does anything keep a call that timed out from taking effect after a later
job, so they are checked without that fault too.

**`IndexesComplete`** excuses a worker that is killed, or whose call fails or times out, between
`create_collection` and `create_payload_index`: `ensure_collection` returns early
ever after, and the indexes are never made. It says that nothing else leads there:
neither a worker that is stopped, for its thread goes on, nor a second one.

**Fairness.** `FairSpec` assumes that the server goes on after its INSERT, that
the broker delivers waiting messages, that a live worker takes its next step
(its event loop and its threads are scheduled) and that a dead worker is
started again. The last is the operator's doing: `docker-compose.yml` runs the
backends only. A fault is never assumed to happen, nor to stop: its bound does that.
For queries, `FairSpec` of `QueryDocuments` assumes that a query that can go on
does: the LLM client has a timeout of 60 s (`llm/openrouter.py:24`), the Qdrant
client one of its own, and the event loop runs every ready task. Cancellation and
new queries are not fair. `ProcessFairSpec` assumes that a process that starts gets
its answers from PostgreSQL, that the timer of the grace period goes off, that the
event loop delivers a CancelledError to the task it is for, and that `close` returns.
It assumes nothing else of the RPCs: that is what the grace period is for. For the chunker it says that the loop runs.

**Claims.** `DocumentClaims` states what a comment, a docstring or the README
says, and each `claim_*` run shows how the code breaks it; PROJECT.json quotes
the lines. In short: a redelivered job keeps its old error text while it runs; a
stopped worker drops a message whose row stays RUNNING, and nobody records FAILED,
because a CancelledError is no Exception; chunk ids ignore the tenant; a shorter version of a
document leaves the tail of the longer one (and one indexed into a second corpus
leaves points in the first); `ensure_collection` races with itself, and does not
finish what a dead worker began; two publishes that race to open the connection
leave one that close cannot reach. One departure is an action without a run of its
own: a delete before the first index job fails (`Count`).

**Mutants.** Next to the definitions they change, the modules hold variants with
a plausible bug (a row inserted after its message is published, no prefetch
limit, an early ack, ...), marked `Mutant`. No specification uses them; each
shows that a property notices.

## The proofs

Every theorem assumes only the named assumptions of the modules it is about.

For any sets of jobs, workers, tenants, documents and files, any chunk counts and
any number of faults:

| `DocumentJobs_proofs` | |
|---|---|
| `TypeCorrect` | `Spec => []TypeOK` |
| `EnvelopesHaveRows` | `Spec => []EnvelopeHasRow` |
| `HandlingIsExclusive` | `Spec => []ExclusiveHandling` |
| `SucceededImpliesStored` | `Spec => []SucceededIsStored` |
| `AlwaysIInv` | the inductive invariant under the middle two |
| `AlwaysStored` | `Spec => []StoredInv`, which `SucceededImpliesStored` follows from |

They assume `NamesAssumption`, `EffectAssumption` and `DataAssumption`: the sets of names do not
overlap, and chunk counts are within `MaxChunks`.

The properties are not inductive. `EnvelopeHasRow` needs to know that an
unpublished job's handler has not replied and that a worker only holds published
jobs (`ServerInv`, `QueueInv`). `ExclusiveHandling` needs that a message is in one
place of the broker only (`QueueInv`) and what each program counter implies
about the job, the delivery and the session (`WorkerInv`). `IInv` is their
conjunction with `TypeOK`.

`SucceededIsStored` is the deep one: two attempts at one job may run at the same
time, and with `SELECT`, then `UPDATE`, a status may be written long after it was
decided. The strengthening says that a worker past its upsert (`StoredShape`)
has *covered* its job: every chunk is in the store as written by this job, or
another job on the document has begun. Covering is stable, because a point only
changes at the hands of a job that has begun, and a job that has begun stays so.

What becomes of a job, for the same constants and assumptions:

| `JobOutcomes_proofs` | |
|---|---|
| `EachFaultCostsOneJob` | `Spec => []FewJobsAreLost` |
| `NoJobIsLost` | `Spec => []NoLostJob` |
| `FailuresAreTold` | `Spec => []FailedTellsWhy` |
| `FinalStatusStays` | `Spec => FinalUntilRedelivered`, an action property |
| `IndexesAreCompleted` | `Spec => []IndexesComplete` |
| `LifecycleImplemented` | `Spec => ImplementsLifecycle`, a refinement |
| `FewLoseTheRace` | `Spec => []ConflictsAreFew`, if `Workers` is finite and not empty |

Neither `FewJobsAreLost` nor `NoLostJob` is inductive: a worker that holds a job may
be about to give it up. `Alive` says who is going to see to it, and `DeadInv` that the
jobs nobody sees to are no more than the faults that can cost one (`Toll`). A worker is `Responsible` for
the job it is at as long as it has a final status to write, which needs that the row
its session has loaded does not have that status yet (an UPDATE of an unchanged
column is not sent); a message is `Waiting` if it is ready or on the channel of a
worker that is not at it; and a worker without its message was cut off or cancelled
(`Attending`). Every step then keeps the living jobs alive, or it is a fault that
pays for the one job of its worker (`Costs`). A lost job is dead, so both properties
follow: the second is the case in which nothing was paid.

`FailedTellsWhy` and `FinalUntilRedelivered` rest on `OnceInv`, about a job that was
never put back: nobody has it while it waits (`Untaken`), one worker at most has it
after that, holding its message or cancelled in the thread, and its row is where
that worker left it, also as its session has loaded it (`FirstAttempt`). So its
commits write the whole row, and a worker with a status left to write never meets a
final one, except where the refresh after the commit of SUCCEEDED has raised.
`LifecycleImplemented` follows commit by commit: of a job that was never put back,
`FirstAttempt` says which row the commit meets and so which step of `JobLifecycle` it
is; of one that was, any row of a started job is allowed.

`ConflictsAreFew` compares jobs with workers, and is not inductive: a job that has
not failed yet may be about to. `RaceInv` counts both: once there is a collection, the
jobs that failed of it and the workers that are about to create it, or have been
refused, are together fewer than the workers, for the one that created it is none of
them and nobody joins them any more (`ensure_collection` returns early). If the
collection is the late effect of a call that timed out, they may be as many as the
workers.

The points of a document, and the conditions of the claims:

| `DocumentClaims_proofs` | |
|---|---|
| `LeftoversAlwaysTrail` | `Spec => []LeftoversTrail` |
| `ScopedIfNamesDiffer` | `Spec => ScopedByClient`, if no two tenants index a document by the same name |
| `OneVersionIfSizesAgree` | `Spec => []SingleVersion`, while workers run too, if the files indexed as one document have equally many chunks |
| `EnsureIsIdempotentAlone` | `Spec => []EnsureIsIdempotent`, if there is one worker and no call times out |
| `DroppedIsFinishedMostly` | `Spec => []DroppedIsFinished`, without stops, database faults, or both crashes and lost connections |
| `ErrorOnlyOnFailedAtFirst` | `Spec => []ErrorOnlyOnFailed`, without crashes, stops and lost connections |

The last five say of each sentence about the pipeline that a `claim_*` run refutes what
it takes for it to be true; whatever a condition does not mention may still happen.
They rest on what every point says of itself (`OwnedInv`: it names an index job, has
that job's tenant and is one of its chunks) and every job (`AskedInv`: somebody asked
for it; so two jobs on one document were asked for under its name, since ids that are
drawn do not collide). `LeftoversTrail` follows from an upsert writing a prefix: if it
reaches a point, it also writes all before it.

The refinement, with one worker and no call that times out (`ASSUME NEW w, Workers =
{w}, MaxFaults["timeout"] = 0`) and otherwise for any constants:

| | |
|---|---|
| `DocumentOrder_proofs!OneWorkerImplementsOrder` | `Spec => ImplementsOrder` |
| `OrderedDocuments_proofs!OrderKept` | `Spec => []AppliedInOrder`, of the abstract specification |
| `DocumentOrder_proofs!OneWorkerKeepsOrder` | `Spec => []AppliedInOrder`, of `DocumentJobs` |

Each action of `DocumentJobs` is one of `OrderedDocuments` or leaves its variables
alone. What makes it so is `OrderInv`: whatever the broker holds was published
after the job the worker is at (`Turn`), so that job is the oldest pending one; a
worker that is about to report success, or a missing collection, reports of work
that is in place, and the row it loaded is still the row (`Progress`: with one
worker no other session commits in between); and there are no points before
there is a collection (`NoPointsYet`). In the abstract specification
`AppliedInOrder` is nearly inductive by itself: it takes that `ahead` orders the
published jobs and that nothing pending is ahead of a finished job's effect. The
promise then carries over through an INSTANCE of the abstract theorems.

For any text, any list of separators, any chunk size and any overlap below it
(`ChunkingAssumption`, which is what `__init__` checks):

| `Assembly_proofs` | |
|---|---|
| `TypeCorrect` | `Spec => []TypeOK` |
| `WindowsAlwaysTile` | `Spec => []WindowsTile` |
| `ChunksAlwaysOverlap` | `Spec => []ChunksOverlap` |
| `RoundTripHolds` | `Spec => []RoundTrip` |
| `ShortTextStaysWhole` | `Spec => []ShortTextIsOneChunk` |
| `CutsAreAlwaysNatural` | `Spec => []CutsAreNatural` |
| `ThereIsAnotherPiece` | `Spec => []AnotherPiece` |
| `StepsCount` | `Spec => EveryStepCounts` |
| `AlwaysIInv` | the inductive invariant of the first four |

The invariant says that each frame lies within its caller's slice (`FramesInv`),
that the windows and the one under way reach from the beginning to `at`
(`TileInv`), and that every window so far has become one chunk (`ChunksInv`). The
last holds because windows are not empty: each chunk ends after the one before
it, so the guard of `_add_overlap` against chunks within their predecessor never
fires. `built = Slice(0, cursor)` then grows by exactly the missing slice, for a
chunk never begins after the cursor.

`CutsAreNatural` is about separators that are no longer on the stack, and needs what
a call has inherited (`NaturalInv`): within what is left of its slice, a separator
coarser than its own has no two cuts within a window of each other. That holds for
the pieces of an oversized piece, because the piece was too long and the separators
passed over do not occur in it, and for the first call if the text is longer than a
window; a shorter one is never cut (`ShortInv`).

`ThereIsAnotherPiece` and `StepsCount` are why the recursion ends. The next piece ends
at the least cut after `at`, which exists because the end of the slice is one (`Least`,
from the well-foundedness of the naturals); the last separator, the empty one, cuts
everywhere, so a piece longer than a window still has a finer separator. A step moves
on in the text, or stays there and tries a finer separator or leaves a call that is at
its end, or starts on the next window or chunk; all of these are bounded. `Ends` itself
adds the fairness, and that last step from the measure to the liveness is left to TLC.

For any number of queries, permits, points and writes, any page size and limit
(`QueryAssumption`; among others, `max_concurrent_queries` is not 0, which the
settings would allow and which makes every query wait for ever):

| `QueryDocuments_proofs` | |
|---|---|
| `TypeCorrect` | `Spec => []TypeOK` |
| `PermitsAlwaysKept` | `Spec => []PermitsKept` |
| `ServedInOrder` | `Spec => []FirstComeFirstServed` |
| `ScansAreComplete` | `Spec => []ScanComplete` |
| `PagesAreAlwaysNew` | `Spec => []PagesAreNew` |
| `AlwaysIInv` | the inductive invariant |

`FirstComeFirstServed` needs that nobody is counted as ahead who has left the
queue (`QueueInv`). `ScanComplete` needs what is true in the middle of a scan
(`Good`): a chunk that stayed in scope is in the store in the last version it had,
and if its id is below `next_offset` it has been read in one of them. `PagesAreNew`
needs the converse (`Unread`): what has been read is below `next_offset`, so a scan
that is cut off lacks only what comes after, which `ScanComplete` needs too. It also is
what allows the list that the code fills to be modelled as a function of the chunks.

For any processes, starts and RPCs (`ProcessAssumption`):

| `ServerProcess_proofs` | |
|---|---|
| `WorkHasTable` | `ProcessSpec => []TableBeforeWork` |
| `RaceIsLostOnce` | `ProcessSpec => []FailsOnceAtMost` |
| `NobodyOutlivesPublisher` | `ProcessSpec => []ClosedForGood` |
| `AlwaysIInv` | the inductive invariant |

One transaction at a time creates the table, and only while there is none; whoever
failed did so because there was one, and whoever committed it has not failed
(`BootInv`). RPCs publish only while the server serves or stops, and its publisher
is open that long (`StopInv`).

Every safety and action property of the passing runs is proved. What stays with TLC
is liveness (`EveryJobEnds`, `QueueDrains`, `EveryQueryEnds`, `StopEnds`, `Ends`),
which under fairness is out of TLAPS's reach, and the counterexamples to the sentences
the code breaks.

## Not modelled

The extractors and the embedder are stateless calls into libraries: they return or
they raise, and both are actions of `DocumentJobs`. The LLM client holds an HTTP
client and nothing else; the prompts are text. The settings, the log and the
generated code carry no state that these properties are about; the servicer passes
calls on and the converters map enums. The router's reply matters only for the
branch it selects; a reply that is JSON but not an object makes the query fail
(`Fail`). `_trim_history` keeps the last `2 * window` messages, which splits a pair
when the history is odd; its comment allows that.

A row whose message was never published (`HandlerFails`) stays QUEUED and its job
id is never told to anybody. The code does nothing about such rows and promises
nothing, so no property is about them.

## Plan

The order of work was the pipeline (`DocumentJobs` and its parts), then the chunker
and the queries, then the refinement by `OrderedDocuments` and the processes around
it all, then the proofs. Every part of the program that keeps state is modelled, every
safety property is proved, and so is a condition for every sentence about the pipeline
that the code breaks. A change of the code that adds a reconciler for rows left QUEUED or
RUNNING would be the next thing to model: `EveryJobEnds` could then lose its
exceptions.
