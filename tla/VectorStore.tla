---------------------------- MODULE VectorStore ----------------------------
(***************************************************************************)
(* The Qdrant collection as QdrantVectorStore                              *)
(* (src/doccontext/vector_stores/qdrant.py) creates and writes it.         *)
(***************************************************************************)
EXTENDS Points

VARIABLES
    collection,  \* "absent", "created", or "indexed": with its payload indexes
    late         \* the requests whose client gave up waiting and that Qdrant may
                 \* still carry out, numbered to tell them apart

storeVars == <<collection, points, late>>

StoreCalls == {"create_collection", "create_index", "upsert", "delete"}

StoreTypeOK ==
    /\ collection \in {"absent", "created", "indexed"}
    /\ points \in [ChunkIds -> Payload \cup {None}]
    /\ late \in SUBSET [call : StoreCalls, job : Jobs, nr : Nat]

StoreInit ==
    /\ collection = "absent"
    /\ points = [c \in ChunkIds |-> None]
    /\ late = {}

\* ensure_collection, between its round trips: the collection is created ...
CreateCollection == collection = "absent" /\ collection' = "created"

\* ... and then its three payload indexes.
CreatePayloadIndexes == collection' = "indexed"
=============================================================================
