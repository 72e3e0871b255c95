--------------------------- MODULE QueryDocuments ---------------------------
(***************************************************************************)
(* QueryDocumentsHandler (src/doccontext/services/query_service.py): the   *)
(* queries of one server process share a semaphore, and read the vector    *)
(* store while workers write it.  One step is what the event loop runs     *)
(* between two awaits, or one round trip to Qdrant.                        *)
(*                                                                         *)
(* A query holds its permit from the router call to the answer, through    *)
(* both LLM calls and the retrieval between them.  It is cancelled when    *)
(* its client goes away or its deadline passes.                            *)
(***************************************************************************)
EXTENDS VectorStore, FiniteSets

CONSTANTS Queries,        \* the clients, each with one QueryDocuments call at a time
          QueryRequests,  \* what they may ask
          MaxConcurrent,  \* max_concurrent_queries
          TopK,           \* top_k
          ScanLimit,      \* limit of list_chunks_for_corpora (10000)
          PageSize,       \* points of a page (512)
          Rank,           \* the order of the point ids, which are hashes
          Writes,         \* the upserts of the workers
          MaxWrites       \* bound: how often the workers write

ASSUME QueryAssumption ==
    /\ IsFiniteSet(Queries) /\ IsFiniteSet(ChunkIds)
    /\ QueryRequests \subseteq [client : Clients \cup {None}, corpora : SUBSET Corpora]
    /\ {MaxConcurrent, TopK, ScanLimit, PageSize} \subseteq Nat \ {0}
    /\ Rank \in [ChunkIds -> Nat]
    /\ \A c, d \in ChunkIds : Rank[c] = Rank[d] => c = d
    /\ Writes \subseteq [doc : DocIds, chunks : 0 .. MaxChunks, payload : Payload]
    /\ MaxWrites \in Nat
    /\ None \notin Payload

VARIABLES
    permits,  \* the value of the semaphore
    pc,       \* query -> its next step
    ahead,    \* query -> the queries that wait longer for a permit
    request,  \* query -> what it asks
    found,    \* query -> the chunks it answers from, by chunk id
    offset,   \* query -> next_offset of its scroll, as a rank
    steady,   \* query -> history: per chunk id, the payloads it has had since the
              \* scroll began, if it was in the query's scope all the time
    writes    \* how often the workers wrote

semVars == <<permits, pc, ahead>>
readVars == <<request, found, offset, steady>>
vars == <<semVars, readVars, storeVars, writes>>

Holding == {"router", "list", "search", "answer_full", "answer_section"}
At(l)   == {q \in Queries : pc[q] = l}
Owners  == {q \in Queries : pc[q] \in Holding \cup {"woken"}}
Waiting == At("waiting")

Nothing    == [c \in ChunkIds |-> None]
NeverThere == [c \in ChunkIds |-> {}]

TypeOK ==
    /\ StoreTypeOK
    /\ permits \in 0 .. MaxConcurrent
    /\ pc \in [Queries -> Holding \cup {"idle", "waiting", "woken"}]
    /\ ahead \in [Queries -> SUBSET Queries]
    /\ request \in [Queries -> QueryRequests \cup {None}]
    /\ found \in [Queries -> [ChunkIds -> Payload \cup {None}]]
    /\ offset \in [Queries -> Nat]
    /\ steady \in [Queries -> [ChunkIds -> SUBSET Payload]]
    /\ writes \in 0 .. MaxWrites

Init ==
    /\ StoreInit
    /\ permits = MaxConcurrent
    /\ pc = [q \in Queries |-> "idle"]
    /\ ahead = [q \in Queries |-> {}]
    /\ request = [q \in Queries |-> None]
    /\ found = [q \in Queries |-> Nothing]
    /\ offset = [q \in Queries |-> 0]
    /\ steady = [q \in Queries |-> NeverThere]
    /\ writes = 0

Smallest(a, b) == IF a <= b THEN a ELSE b
-----------------------------------------------------------------------------
(* asyncio.Semaphore                                                        *)

\* Mutant: any n of those who wait.
AnyOf(W, waiting, n) ==
    W \subseteq waiting /\ Cardinality(W) = Smallest(n, Cardinality(waiting))

\* The first n of those who wait.
First(W, waiting, n) ==
    /\ W \subseteq waiting
    /\ Cardinality(W) = Smallest(n, Cardinality(waiting))
    /\ \A q \in W : ahead[q] \cap waiting \subseteq W

\* q goes on to label l; of the p permits that are free now, up to n go to the
\* first who wait.
GoOn(q, l, p, n) ==
    \E W \in SUBSET (Waiting \ {q}) :
        /\ First(W, Waiting \ {q}, n)
        /\ permits' = p - Cardinality(W)
        /\ pc' = [r \in Queries |-> IF r = q THEN l
                                    ELSE IF r \in W THEN "woken" ELSE pc[r]]
        /\ ahead' = [r \in Queries |-> IF r = q THEN {} ELSE ahead[r] \ {q}]

\* acquire: who finds no permit, or others who wait, waits too.
Acquire(q) ==
    LET queue == Waiting \cup At("woken")
    IN  IF permits > 0 /\ queue = {}
        THEN /\ permits' = permits - 1
             /\ pc' = [pc EXCEPT ![q] = "router"]
             /\ UNCHANGED ahead
        ELSE /\ pc' = [pc EXCEPT ![q] = "waiting"]
             /\ ahead' = [ahead EXCEPT ![q] = queue]
             /\ UNCHANGED permits

\* acquire returns to who was woken, and wakes others if permits are left.
Resume(q) ==
    /\ pc[q] = "woken"
    /\ GoOn(q, "router", permits, permits)
    /\ UNCHANGED <<readVars, storeVars, writes>>

\* Mutant: a query that ends wakes nobody.
ReleaseSilently(q) == pc[q] \in Holding /\ GoOn(q, "idle", permits + 1, 0)

\* release, on any way out of `async with`.
Release(q) == pc[q] \in Holding /\ GoOn(q, "idle", permits + 1, 1)
-----------------------------------------------------------------------------
(* The handler                                                              *)

\* The points a query may see.
Scope(r) ==
    {c \in ChunkIds : /\ points[c] # None
                      /\ points[c].client = r.client
                      /\ points[c].corpus \in r.corpora}

Payloads(C) == [c \in ChunkIds |-> IF c \in C THEN points[c] ELSE None]

\* The RPC ends, and what it has read goes with it.
Forget(q) ==
    /\ request' = [request EXCEPT ![q] = None]
    /\ found' = [found EXCEPT ![q] = Nothing]
    /\ steady' = [steady EXCEPT ![q] = NeverThere]
    /\ offset' = [offset EXCEPT ![q] = 0]
    /\ UNCHANGED <<storeVars, writes>>

\* A request that lacks a field is aborted before it touches anything.
Ask(q, r) ==
    /\ pc[q] = "idle"
    /\ request' = [request EXCEPT ![q] = r]
    /\ r.client # None /\ r.corpora # {}
    /\ Acquire(q)
    /\ UNCHANGED <<found, offset, steady, storeVars, writes>>

\* The router's reply is FULL_DOC: the scroll begins.
RouteFullDoc(q) ==
    /\ pc[q] = "router"
    /\ pc' = [pc EXCEPT ![q] = "list"]
    /\ steady' = [steady EXCEPT ![q] =
                     [c \in ChunkIds |-> IF c \in Scope(request[q]) THEN {points[c]} ELSE {}]]
    /\ UNCHANGED <<permits, ahead, request, found, offset, storeVars, writes>>

\* It is SECTION, another word or no JSON.
RouteSection(q) ==
    /\ pc[q] = "router"
    /\ pc' = [pc EXCEPT ![q] = "search"]
    /\ UNCHANGED <<permits, ahead, readVars, storeVars, writes>>

Count(f) == Cardinality({c \in ChunkIds : f[c] # None})

\* Mutant: as many points are skipped as were read.
RestByCount(q) ==
    {c \in Scope(request[q]) :
        Cardinality({d \in Scope(request[q]) : Rank[d] < Rank[c]}) >= Count(found[q])}

\* Mutant: next_offset is not handed on to the next call.
RestFromStart(q) == Scope(request[q])

\* What a page is taken from: the points from next_offset on.
Rest(q) == {c \in Scope(request[q]) : Rank[c] >= offset[q]}

\* One page of list_chunks_for_corpora.
Scroll(q) ==
    /\ pc[q] = "list" /\ collection # "absent"
    /\ LET todo == Rest(q)
           room == Smallest(PageSize, ScanLimit - Count(found[q]))
       IN  \E page \in SUBSET todo :
              /\ Cardinality(page) = Smallest(room, Cardinality(todo))
              /\ \A c \in page, d \in todo \ page : Rank[c] < Rank[d]
              /\ found' = [found EXCEPT ![q] =
                              [c \in ChunkIds |-> IF c \in page THEN points[c] ELSE @[c]]]
              /\ IF page = todo \/ Count(found'[q]) >= ScanLimit
                 THEN pc' = [pc EXCEPT ![q] = "answer_full"] /\ UNCHANGED offset
                 ELSE /\ \E next \in todo \ page :
                            /\ \A d \in todo \ page : Rank[next] <= Rank[d]
                            /\ offset' = [offset EXCEPT ![q] = Rank[next]]
                      /\ UNCHANGED pc
    /\ UNCHANGED <<permits, ahead, request, steady, storeVars, writes>>

\* embed_one and search: the best TopK points of the scope.
Search(q) ==
    /\ pc[q] = "search" /\ collection # "absent"
    /\ \E hits \in SUBSET Scope(request[q]) :
          /\ Cardinality(hits) = Smallest(TopK, Cardinality(Scope(request[q])))
          /\ found' = [found EXCEPT ![q] = Payloads(hits)]
    /\ pc' = [pc EXCEPT ![q] = "answer_section"]
    /\ UNCHANGED <<permits, ahead, request, offset, steady, storeVars, writes>>

\* The LLM answers: the permit is released, and then the answer is parsed.
Answer(q) ==
    /\ pc[q] \in {"answer_full", "answer_section"}
    /\ Release(q)
    /\ Forget(q)

\* Mutant: an exception leaves the permit taken.
FailHolding(q) ==
    /\ pc[q] \in Holding
    /\ pc' = [pc EXCEPT ![q] = "idle"]
    /\ UNCHANGED <<permits, ahead>>
    /\ Forget(q)

\* A call to the LLM, the embedder or Qdrant raises (without a collection
\* Qdrant always does), or the router's JSON is not an object.
Fail(q) ==
    /\ Release(q)
    /\ Forget(q)

\* Mutant: a query that waits gives back a permit it never had.
CancelReleasing(q) ==
    /\ \/ pc[q] \in {"waiting", "woken"} /\ GoOn(q, "idle", permits + 1, permits + 1)
       \/ Release(q)
    /\ Forget(q)

\* The client goes away: CancelledError, at whatever await the query is.
Cancel(q) ==
    /\ \/ pc[q] = "waiting" /\ GoOn(q, "idle", permits, permits)
       \/ pc[q] = "woken" /\ GoOn(q, "idle", permits + 1, permits + 1)
       \/ Release(q)
    /\ Forget(q)
-----------------------------------------------------------------------------
(* The workers (see DocumentJobs).  An upsert or a delete that Qdrant carries *)
(* out after its client gave up is no other write than these.               *)

Write ==
    /\ writes < MaxWrites /\ writes' = writes + 1
    /\ UNCHANGED <<semVars, request, found, offset>>
    /\ steady' = [q \in Queries |->
                    IF pc[q] = "list"
                    THEN LET scope == Scope(request[q])'
                         IN  [c \in ChunkIds |-> IF steady[q][c] # {} /\ c \in scope
                                                 THEN steady[q][c] \cup {points'[c]} ELSE {}]
                    ELSE steady[q]]

WorkerCreates ==
    /\ CreateCollection
    /\ UNCHANGED <<semVars, readVars, points, late, writes>>

WorkerUpserts ==
    /\ collection # "absent"
    /\ \E w \in Writes : Upsert(w.doc, w.chunks, w.payload)
    /\ Write
    /\ UNCHANGED <<collection, late>>

WorkerDeletes ==
    /\ collection # "absent"
    /\ \E w \in Writes : DeleteMatching(w.payload.client, w.doc)
    /\ Write
    /\ UNCHANGED <<collection, late>>
-----------------------------------------------------------------------------
Step(q) ==
    \/ Resume(q) \/ RouteFullDoc(q) \/ RouteSection(q)
    \/ Scroll(q) \/ Search(q) \/ Answer(q) \/ Fail(q)

Next ==
    \/ \E q \in Queries : Step(q) \/ Cancel(q) \/ \E r \in QueryRequests : Ask(q, r)
    \/ WorkerCreates \/ WorkerUpserts \/ WorkerDeletes

Spec == Init /\ [][Next]_vars

\* Every call of the LLM and of Qdrant returns or times out, and the event loop
\* runs every task that is ready.
FairSpec == Spec /\ \A q \in Queries : WF_vars(Step(q))
-----------------------------------------------------------------------------
\* No permit is lost or made up, whatever becomes of the queries: no more than
\* MaxConcurrent of them are ever at the LLM, and that many can be.
PermitsKept == permits + Cardinality(Owners) = MaxConcurrent

\* Permits go to those who wait longest, and none lies idle while somebody
\* waits, unless one who was given a permit is still to run and pass it on.
FirstComeFirstServed ==
    /\ \A q \in At("woken") : ahead[q] \cap Waiting = {}
    /\ permits > 0 /\ Waiting # {} => At("woken") # {}

\* A FULL_DOC answer misses no chunk that was in its scope from the first page
\* to the last, whatever was written, rewritten, deleted or taken over by another
\* tenant between the pages: it has each as it was at some time in between.  When
\* the limit cuts the scroll off, the answer has as many chunks as the limit
\* allows, and what it misses comes after all of them.  The versions of two
\* chunks may differ (query_service.py:118 takes no snapshot).
ScanComplete ==
    \A q \in At("answer_full"), c \in ChunkIds :
        steady[q][c] # {} =>
            \/ found[q][c] \in steady[q][c]
            \/ /\ found[q][c] = None
               /\ Count(found[q]) = ScanLimit
               /\ \A d \in ChunkIds : found[q][d] # None => Rank[d] < Rank[c]

\* A page brings nothing the pages before it brought, however the points were
\* inserted, rewritten and deleted meanwhile: the list that is filled has no chunk
\* twice.  And no page is asked for that has no room for a chunk, which would read
\* nothing and come again (qdrant.py:154-183).
PagesAreNew ==
    \A q \in At("list") :
        /\ Count(found[q]) < ScanLimit
        /\ \A c \in Rest(q) : found[q][c] = None

\* The query of q ends, however many others are asked meanwhile.
QueryEnds(q) == pc[q] # "idle" ~> pc[q] = "idle"
=============================================================================
