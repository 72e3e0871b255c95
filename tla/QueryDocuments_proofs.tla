----------------------- MODULE QueryDocuments_proofs -----------------------
(***************************************************************************)
(* Theorems about QueryDocuments, for any number of queries, permits,      *)
(* points and writes.                                                      *)
(***************************************************************************)
EXTENDS QueryDocuments, FiniteSetTheorems, TLAPS

\* Only those in the queue are ahead of anybody.
QueueInv ==
    /\ \A q \in Queries : ahead[q] \subseteq Waiting \cup At("woken")
    /\ FirstComeFirstServed

\* What a query has read, by the step it is at: a chunk that stayed in scope is
\* still in the store, in a version it has had, and was read in one of those once
\* the scroll is past it.
Good(q) ==
    /\ pc[q] # "idle" => request[q] \in QueryRequests
    /\ pc[q] \notin {"list", "answer_full", "answer_section"} => found[q] = Nothing
    /\ pc[q] \notin {"list", "answer_full"} => steady[q] = NeverThere /\ offset[q] = 0
    /\ pc[q] = "list" =>
          /\ Count(found[q]) <= ScanLimit
          /\ \A c \in ChunkIds : steady[q][c] # {} =>
                /\ points[c] \in steady[q][c]
                /\ c \in Scope(request[q])
                /\ Rank[c] < offset[q] => found[q][c] \in steady[q][c]
    /\ pc[q] = "answer_full" =>
          \/ Count(found[q]) = ScanLimit
          \/ \A c \in ChunkIds : steady[q][c] # {} => found[q][c] \in steady[q][c]

IInv ==
    /\ TypeOK
    /\ PermitsKept /\ QueueInv
    /\ \A q \in Queries : Good(q)

Labels == Holding \cup {"idle", "waiting", "woken"}
-----------------------------------------------------------------------------
(* The semaphore                                                            *)

LEMMA FiniteQueries ==
  ASSUME NEW S \in SUBSET Queries
  PROVE  IsFiniteSet(S) /\ Cardinality(S) \in Nat
<1>1. IsFiniteSet(S)
  BY QueryAssumption, FS_Subset
<1> QED BY <1>1, FS_CardinalityType

\* Whoever goes on, a permit is with its owner or free.
LEMMA GoOnPermits ==
  ASSUME TypeOK, PermitsKept, NEW q \in Queries, NEW p \in Nat, NEW n \in Nat, n <= p,
         NEW l \in {"idle", "router"}, GoOn(q, l, p, n),
         p + Cardinality(Owners \ {q}) + (IF l = "router" THEN 1 ELSE 0) = MaxConcurrent
  PROVE  /\ permits' \in 0 .. MaxConcurrent
         /\ pc' \in [Queries -> Labels] /\ ahead' \in [Queries -> SUBSET Queries]
         /\ PermitsKept'
<1>1. PICK W \in SUBSET (Waiting \ {q}) :
         /\ First(W, Waiting \ {q}, n)
         /\ permits' = p - Cardinality(W)
         /\ pc' = [r \in Queries |-> IF r = q THEN l
                                     ELSE IF r \in W THEN "woken" ELSE pc[r]]
         /\ ahead' = [r \in Queries |-> IF r = q THEN {} ELSE ahead[r] \ {q}]
  BY DEF GoOn
<1>2. pc \in [Queries -> Labels] /\ ahead \in [Queries -> SUBSET Queries]
  BY DEF TypeOK, Labels
<1>3. pc' \in [Queries -> Labels] /\ ahead' \in [Queries -> SUBSET Queries]
  BY <1>1, <1>2 DEF Labels, Holding
<1> DEFINE A == Owners \ {q}
<1>4. /\ IsFiniteSet(A) /\ IsFiniteSet(W) /\ IsFiniteSet(A \cup W)
      /\ Cardinality(A) \in Nat /\ Cardinality(W) \in Nat
      /\ Cardinality(Waiting \ {q}) \in Nat
  <2>1. /\ A \in SUBSET Queries /\ W \in SUBSET Queries /\ A \cup W \in SUBSET Queries
        /\ Waiting \ {q} \in SUBSET Queries
    BY DEF Owners, Waiting, At
  <2> QED BY <2>1, FiniteQueries
<1>5. Cardinality(W) <= n
  BY <1>1, <1>4 DEF First, Smallest
<1>6. A \cap W = {} /\ q \notin A \cup W
  BY DEF Owners, Waiting, At, Holding
<1>7. Cardinality(A \cup W) = Cardinality(A) + Cardinality(W)
  <2>1. Cardinality(A \cup W) = Cardinality(A) + Cardinality(W) - Cardinality(A \cap W)
    BY ONLY <1>4, FS_Union
  <2>2. Cardinality(A \cap W) = 0
    BY ONLY <1>6, FS_EmptySet
  <2> QED BY <1>4, <2>1, <2>2
<1>8. Owners' = IF l = "router" THEN (A \cup W) \cup {q} ELSE A \cup W
  BY <1>1, <1>2 DEF Owners, Waiting, At, Holding
<1>9. Cardinality(Owners') = Cardinality(A) + Cardinality(W) + (IF l = "router" THEN 1 ELSE 0)
  <2>1. Cardinality((A \cup W) \cup {q}) = Cardinality(A \cup W) + 1
    <3> HIDE DEF A
    <3> QED BY ONLY <1>4, <1>6, FS_AddElement
  <2> QED BY <1>4, <1>7, <1>8, <2>1
<1>10. permits' \in Nat /\ MaxConcurrent \in Nat
  BY <1>1, <1>4, <1>5, QueryAssumption
<1> QED BY <1>1, <1>3, <1>4, <1>9, <1>10, QueryAssumption DEF PermitsKept

\* The queue stays in order, and nobody is left waiting for a permit that is free.
LEMMA GoOnQueue ==
  ASSUME TypeOK, QueueInv, NEW q \in Queries, NEW p \in Nat, NEW n \in Nat,
         NEW l \in {"idle", "router"}, GoOn(q, l, p, n),
         p > 0 => n > 0
  PROVE  QueueInv'
<1>1. PICK W \in SUBSET (Waiting \ {q}) :
         /\ First(W, Waiting \ {q}, n)
         /\ permits' = p - Cardinality(W)
         /\ pc' = [r \in Queries |-> IF r = q THEN l
                                     ELSE IF r \in W THEN "woken" ELSE pc[r]]
         /\ ahead' = [r \in Queries |-> IF r = q THEN {} ELSE ahead[r] \ {q}]
  BY DEF GoOn
<1>2. pc \in [Queries -> Labels] /\ ahead \in [Queries -> SUBSET Queries]
  BY DEF TypeOK, Labels
<1>3. /\ Waiting' = (Waiting \ {q}) \ W
      /\ At("woken")' = (At("woken") \ {q}) \cup W
  BY <1>1, <1>2 DEF Waiting, At
<1>4. \A r \in Queries : ahead'[r] \subseteq Waiting' \cup At("woken")'
  BY <1>1, <1>3 DEF QueueInv
<1>5. \A r \in At("woken")' : ahead'[r] \cap Waiting' = {}
  BY <1>1, <1>3 DEF QueueInv, FirstComeFirstServed, First, At
<1>6. permits' > 0 /\ Waiting' # {} => At("woken")' # {}
  <2> SUFFICES ASSUME permits' > 0, Waiting' # {}, W = {} PROVE FALSE
    BY <1>3
  <2>1. Cardinality(W) = 0
    BY FS_EmptySet
  <2>2. IsFiniteSet(Waiting \ {q}) /\ Cardinality(Waiting \ {q}) \in Nat
    BY FiniteQueries DEF Waiting, At
  <2>3. p > 0 /\ Cardinality(Waiting \ {q}) = 0
    BY <1>1, <2>1, <2>2 DEF First, Smallest
  <2> QED BY <1>3, <2>2, <2>3, FS_EmptySet
<1> QED BY <1>4, <1>5, <1>6 DEF QueueInv, FirstComeFirstServed

LEMMA AskSem ==
  ASSUME TypeOK, PermitsKept, QueueInv, NEW q \in Queries, pc[q] = "idle", Acquire(q)
  PROVE  /\ permits' \in 0 .. MaxConcurrent
         /\ pc' \in [Queries -> Labels] /\ ahead' \in [Queries -> SUBSET Queries]
         /\ pc'[q] \in {"router", "waiting"}
         /\ \A r \in Queries \ {q} : pc'[r] = pc[r]
         /\ PermitsKept' /\ QueueInv'
<1> DEFINE queue == Waiting \cup At("woken")
<1>1. /\ pc \in [Queries -> Labels] /\ ahead \in [Queries -> SUBSET Queries]
      /\ permits \in 0 .. MaxConcurrent /\ MaxConcurrent \in Nat
      /\ IsFiniteSet(Owners) /\ Cardinality(Owners) \in Nat
  <2>1. Owners \in SUBSET Queries
    BY DEF Owners
  <2> QED BY <2>1, FiniteQueries, QueryAssumption DEF TypeOK, Labels
<1>2. CASE permits > 0 /\ queue = {}
  <2>1. permits' = permits - 1 /\ pc' = [pc EXCEPT ![q] = "router"] /\ ahead' = ahead
    BY <1>2 DEF Acquire
  <2>2. Owners' = Owners \cup {q} /\ q \notin Owners
    BY <1>1, <2>1 DEF Owners, Holding
  <2>3. Cardinality(Owners') = Cardinality(Owners) + 1
    BY <1>1, <2>2, FS_AddElement
  <2>4. Waiting' = Waiting /\ At("woken")' = At("woken")
    BY <1>1, <2>1 DEF Waiting, At
  <2> QED BY <1>1, <1>2, <2>1, <2>3, <2>4
          DEF PermitsKept, QueueInv, FirstComeFirstServed, Labels, Holding
<1>3. CASE ~(permits > 0 /\ queue = {})
  <2>1. /\ permits' = permits /\ pc' = [pc EXCEPT ![q] = "waiting"]
        /\ ahead' = [ahead EXCEPT ![q] = queue]
    BY <1>3 DEF Acquire
  <2>2. Owners' = Owners
    BY <1>1, <2>1 DEF Owners, Holding
  <2>3. /\ Waiting' = Waiting \cup {q} /\ At("woken")' = At("woken")
        /\ q \notin Waiting \cup At("woken")
    BY <1>1, <2>1 DEF Waiting, At
  <2>4. \A r \in Queries : ahead'[r] \subseteq Waiting' \cup At("woken")'
    BY <1>1, <2>1, <2>3 DEF QueueInv
  <2>5. \A r \in At("woken")' : ahead'[r] \cap Waiting' = {}
    BY <1>1, <2>1, <2>3 DEF QueueInv, FirstComeFirstServed, At
  <2>6. permits' > 0 => At("woken")' # {}
    BY <1>3, <2>1, <2>3 DEF QueueInv, FirstComeFirstServed
  <2>7. pc' \in [Queries -> Labels] /\ ahead' \in [Queries -> SUBSET Queries]
    BY <1>1, <2>1 DEF Labels, Waiting, At
  <2> QED BY <1>1, <2>1, <2>2, <2>4, <2>5, <2>6, <2>7
          DEF PermitsKept, QueueInv, FirstComeFirstServed
<1> QED BY <1>2, <1>3

\* A query that only goes from one step to another keeps its permit.
LEMMA StaySem ==
  ASSUME TypeOK, PermitsKept, QueueInv, NEW q \in Queries, NEW l \in Holding,
         pc[q] \in Holding, pc' = [pc EXCEPT ![q] = l], UNCHANGED <<permits, ahead>>
  PROVE  /\ permits' \in 0 .. MaxConcurrent
         /\ pc' \in [Queries -> Labels] /\ ahead' \in [Queries -> SUBSET Queries]
         /\ PermitsKept' /\ QueueInv'
<1>1. /\ pc \in [Queries -> Labels] /\ ahead \in [Queries -> SUBSET Queries]
      /\ permits \in 0 .. MaxConcurrent
  BY DEF TypeOK, Labels
<1>2. Owners' = Owners /\ Waiting' = Waiting /\ At("woken")' = At("woken")
  BY <1>1 DEF Owners, Waiting, At, Holding
<1> QED BY <1>1, <1>2 DEF PermitsKept, QueueInv, FirstComeFirstServed, Labels

\* A query that ends gives its permit back, and so does one that is cancelled.
LEMMA EndSem ==
  ASSUME TypeOK, PermitsKept, QueueInv, NEW q \in Queries,
         \/ Release(q)
         \/ pc[q] = "waiting" /\ GoOn(q, "idle", permits, permits)
         \/ pc[q] = "woken" /\ GoOn(q, "idle", permits + 1, permits + 1)
  PROVE  /\ permits' \in 0 .. MaxConcurrent
         /\ pc' \in [Queries -> Labels] /\ ahead' \in [Queries -> SUBSET Queries]
         /\ PermitsKept' /\ QueueInv'
<1>1. /\ permits \in Nat /\ MaxConcurrent \in Nat
      /\ IsFiniteSet(Owners) /\ Cardinality(Owners) \in Nat
  <2>1. Owners \in SUBSET Queries
    BY DEF Owners
  <2> QED BY <2>1, FiniteQueries, QueryAssumption DEF TypeOK
<1>2. Cardinality(Owners \ {q}) = IF q \in Owners THEN Cardinality(Owners) - 1 ELSE Cardinality(Owners)
  BY ONLY <1>1, FS_RemoveElement
<1>3. CASE pc[q] = "waiting" /\ GoOn(q, "idle", permits, permits)
  <2>1. q \notin Owners
    BY <1>3 DEF Owners, Holding
  <2>2. permits + Cardinality(Owners \ {q}) + 0 = MaxConcurrent
    BY <1>1, <1>2, <2>1 DEF PermitsKept
  <2> QED BY <1>1, <1>3, <2>2, GoOnPermits, GoOnQueue
<1>4. CASE pc[q] = "woken" /\ GoOn(q, "idle", permits + 1, permits + 1)
  <2>1. q \in Owners
    BY <1>4 DEF Owners
  <2>2. permits + 1 + Cardinality(Owners \ {q}) + 0 = MaxConcurrent /\ permits + 1 \in Nat
    BY <1>1, <1>2, <2>1 DEF PermitsKept
  <2> QED BY <1>1, <1>4, <2>2, GoOnPermits, GoOnQueue
<1>5. CASE Release(q)
  <2>1. q \in Owners /\ GoOn(q, "idle", permits + 1, 1)
    BY <1>5 DEF Owners, Release
  <2>2. permits + 1 + Cardinality(Owners \ {q}) + 0 = MaxConcurrent /\ permits + 1 \in Nat
    BY <1>1, <1>2, <2>1 DEF PermitsKept
  <2> QED BY <1>1, <2>1, <2>2, GoOnPermits, GoOnQueue
<1> QED BY <1>3, <1>4, <1>5

\* The permit of a query that was woken becomes its own.
LEMMA ResumeSem ==
  ASSUME TypeOK, PermitsKept, QueueInv, NEW q \in Queries, Resume(q)
  PROVE  /\ permits' \in 0 .. MaxConcurrent
         /\ pc' \in [Queries -> Labels] /\ ahead' \in [Queries -> SUBSET Queries]
         /\ PermitsKept' /\ QueueInv'
<1>1. /\ permits \in Nat /\ MaxConcurrent \in Nat
      /\ IsFiniteSet(Owners) /\ Cardinality(Owners) \in Nat
  <2>1. Owners \in SUBSET Queries
    BY DEF Owners
  <2> QED BY <2>1, FiniteQueries, QueryAssumption DEF TypeOK
<1>2. q \in Owners /\ GoOn(q, "router", permits, permits)
  BY DEF Owners, Resume
<1>3. Cardinality(Owners \ {q}) = Cardinality(Owners) - 1
  BY ONLY <1>1, <1>2, FS_RemoveElement
<1>4. permits + Cardinality(Owners \ {q}) + 1 = MaxConcurrent
  BY <1>1, <1>3 DEF PermitsKept
<1> QED BY <1>1, <1>2, <1>4, GoOnPermits, GoOnQueue

-----------------------------------------------------------------------------
(* What is read                                                             *)

\* A query that does nothing but wait or be woken.
LEMMA SameGood ==
  ASSUME NEW q \in Queries, Good(q),
         pc'[q] = pc[q] \/ (pc[q] = "waiting" /\ pc'[q] = "woken"),
         request'[q] = request[q], found'[q] = found[q],
         offset'[q] = offset[q], steady'[q] = steady[q], points' = points
  PROVE  Good(q)'
BY DEF Good, Scope, Count

LEMMA GoOnOthers ==
  ASSUME NEW q \in Queries, NEW l, NEW p, NEW n, GoOn(q, l, p, n)
  PROVE  /\ pc'[q] = l
         /\ \A r \in Queries \ {q} :
               pc'[r] = pc[r] \/ (pc[r] = "waiting" /\ pc'[r] = "woken")
BY DEF GoOn, Waiting, At

LEMMA NeverThereType ==
  /\ NeverThere \in [ChunkIds -> SUBSET Payload]
  /\ \A c \in ChunkIds : NeverThere[c] = {}
BY DEF NeverThere

LEMMA EmptyCount == Count(Nothing) = 0
<1>1. {c \in ChunkIds : Nothing[c] # None} = {}
  BY DEF Nothing
<1> QED BY <1>1, FS_EmptySet DEF Count

\* A query that ends forgets what it has read.
LEMMA ForgetGood ==
  ASSUME TypeOK, NEW q \in Queries, Forget(q), pc'[q] = "idle",
         \A r \in Queries : Good(r),
         \A r \in Queries \ {q} :
            pc'[r] = pc[r] \/ (pc[r] = "waiting" /\ pc'[r] = "woken")
  PROVE  /\ \A r \in Queries : Good(r)'
         /\ request' \in [Queries -> QueryRequests \cup {None}]
         /\ found' \in [Queries -> [ChunkIds -> Payload \cup {None}]]
         /\ offset' \in [Queries -> Nat]
         /\ steady' \in [Queries -> [ChunkIds -> SUBSET Payload]]
         /\ UNCHANGED <<collection, points, late, writes>>
<1>1. Nothing \in [ChunkIds -> Payload \cup {None}] /\ \A c \in ChunkIds : Nothing[c] = None
  BY DEF Nothing
<1>2. /\ request' = [request EXCEPT ![q] = None] /\ found' = [found EXCEPT ![q] = Nothing]
      /\ steady' = [steady EXCEPT ![q] = NeverThere] /\ offset' = [offset EXCEPT ![q] = 0]
      /\ UNCHANGED <<collection, points, late, writes>>
  BY DEF Forget, storeVars
<1>3. /\ request \in [Queries -> QueryRequests \cup {None}]
      /\ found \in [Queries -> [ChunkIds -> Payload \cup {None}]]
      /\ offset \in [Queries -> Nat]
      /\ steady \in [Queries -> [ChunkIds -> SUBSET Payload]]
  BY DEF TypeOK
<1>4. Good(q)'
  BY <1>1, <1>2, <1>3, NeverThereType DEF Good
<1>5. ASSUME NEW r \in Queries \ {q} PROVE Good(r)'
  BY <1>2, <1>3, SameGood
<1> QED BY <1>1, <1>2, <1>3, <1>4, <1>5, NeverThereType

LEMMA AskIInv ==
  ASSUME IInv, NEW q \in Queries, NEW r \in QueryRequests, Ask(q, r)
  PROVE  IInv'
<1>1. /\ pc[q] = "idle" /\ Acquire(q) /\ request' = [request EXCEPT ![q] = r]
      /\ UNCHANGED <<found, offset, steady, collection, points, late, writes>>
  BY DEF Ask, storeVars
<1>2. /\ permits' \in 0 .. MaxConcurrent
      /\ pc' \in [Queries -> Labels] /\ ahead' \in [Queries -> SUBSET Queries]
      /\ pc'[q] \in {"router", "waiting"}
      /\ \A x \in Queries \ {q} : pc'[x] = pc[x]
      /\ PermitsKept' /\ QueueInv'
  BY <1>1, AskSem DEF IInv
<1>3. TypeOK'
  BY <1>1, <1>2 DEF IInv, TypeOK, StoreTypeOK, Labels
<1>4. Good(q)'
  <2>1. request'[q] = r /\ found'[q] = Nothing /\ steady'[q] = NeverThere /\ offset'[q] = 0
    BY <1>1 DEF IInv, TypeOK, Good
  <2> QED BY <1>2, <2>1, NeverThereType DEF Good, Nothing
<1>5. ASSUME NEW x \in Queries \ {q} PROVE Good(x)'
  <2>1. request'[x] = request[x]
    BY <1>1 DEF IInv, TypeOK
  <2> QED BY <1>1, <1>2, <2>1, SameGood DEF IInv
<1> QED BY <1>2, <1>3, <1>4, <1>5 DEF IInv

LEMMA EndIInv ==
  ASSUME IInv, NEW q \in Queries, Forget(q),
         \/ Release(q)
         \/ pc[q] = "waiting" /\ GoOn(q, "idle", permits, permits)
         \/ pc[q] = "woken" /\ GoOn(q, "idle", permits + 1, permits + 1)
  PROVE  IInv'
<1>1. /\ permits' \in 0 .. MaxConcurrent
      /\ pc' \in [Queries -> Labels] /\ ahead' \in [Queries -> SUBSET Queries]
      /\ PermitsKept' /\ QueueInv'
  BY EndSem DEF IInv
<1>2. /\ pc'[q] = "idle"
      /\ \A r \in Queries \ {q} :
            pc'[r] = pc[r] \/ (pc[r] = "waiting" /\ pc'[r] = "woken")
  BY GoOnOthers DEF Release
<1>3. /\ \A r \in Queries : Good(r)'
      /\ request' \in [Queries -> QueryRequests \cup {None}]
      /\ found' \in [Queries -> [ChunkIds -> Payload \cup {None}]]
      /\ offset' \in [Queries -> Nat]
      /\ steady' \in [Queries -> [ChunkIds -> SUBSET Payload]]
      /\ UNCHANGED <<collection, points, late, writes>>
  BY <1>2, ForgetGood DEF IInv
<1>4. TypeOK'
  BY <1>1, <1>3 DEF IInv, TypeOK, StoreTypeOK, Labels
<1> QED BY <1>1, <1>3, <1>4 DEF IInv

LEMMA ResumeIInv ==
  ASSUME IInv, NEW q \in Queries, Resume(q)
  PROVE  IInv'
<1>1. /\ permits' \in 0 .. MaxConcurrent
      /\ pc' \in [Queries -> Labels] /\ ahead' \in [Queries -> SUBSET Queries]
      /\ PermitsKept' /\ QueueInv'
  BY ResumeSem DEF IInv
<1>2. pc[q] = "woken" /\ UNCHANGED <<request, found, offset, steady, collection, points, late, writes>>
  BY DEF Resume, readVars, storeVars
<1>3. /\ pc'[q] = "router"
      /\ \A r \in Queries \ {q} :
            pc'[r] = pc[r] \/ (pc[r] = "waiting" /\ pc'[r] = "woken")
  BY GoOnOthers DEF Resume
<1>4. TypeOK'
  BY <1>1, <1>2 DEF IInv, TypeOK, StoreTypeOK, Labels
<1>5. Good(q)'
  BY <1>2, <1>3 DEF IInv, Good
<1>6. ASSUME NEW x \in Queries \ {q} PROVE Good(x)'
  BY <1>2, <1>3, SameGood DEF IInv
<1> QED BY <1>1, <1>4, <1>5, <1>6 DEF IInv

\* The scope is a set of points.
LEMMA ScopeType ==
  ASSUME TypeOK, NEW r, NEW C \in SUBSET Scope(r)
  PROVE  /\ C \in SUBSET ChunkIds
         /\ Payloads(C) \in [ChunkIds -> Payload \cup {None}]
         /\ \A c \in ChunkIds :
               /\ Payloads(C)[c] # None => c \in C
               /\ c \in C => /\ points[c] # None /\ Payloads(C)[c] = points[c]
BY DEF Scope, Payloads, TypeOK, StoreTypeOK

LEMMA RouteIInv ==
  ASSUME IInv, NEW q \in Queries, RouteFullDoc(q) \/ RouteSection(q)
  PROVE  IInv'
<1> DEFINE Now == [c \in ChunkIds |-> IF c \in Scope(request[q]) THEN {points[c]} ELSE {}]
<1>1. /\ pc[q] = "router" /\ pc' = [pc EXCEPT ![q] = IF RouteFullDoc(q) THEN "list" ELSE "search"]
      /\ steady' = IF RouteFullDoc(q)
                   THEN [steady EXCEPT ![q] = Now] ELSE steady
      /\ UNCHANGED <<permits, ahead, request, found, offset, collection, points, late, writes>>
  BY DEF RouteFullDoc, RouteSection, storeVars, readVars
<1>2. /\ permits' \in 0 .. MaxConcurrent
      /\ pc' \in [Queries -> Labels] /\ ahead' \in [Queries -> SUBSET Queries]
      /\ PermitsKept' /\ QueueInv'
  BY <1>1, StaySem DEF IInv, Holding
<1>3. steady' \in [Queries -> [ChunkIds -> SUBSET Payload]]
  <2>1. Now \in [ChunkIds -> SUBSET Payload]
    BY DEF Scope, IInv, TypeOK, StoreTypeOK
  <2> HIDE DEF Now
  <2> QED BY <1>1, <2>1 DEF IInv, TypeOK
<1>4. TypeOK'
  BY <1>1, <1>2, <1>3 DEF IInv, TypeOK, StoreTypeOK, Labels
<1>5. Good(q)'
  <2>1. /\ found[q] = Nothing /\ steady[q] = NeverThere /\ offset[q] = 0
        /\ request[q] \in QueryRequests /\ found' = found
        /\ \A c \in ChunkIds : Nothing[c] = None
    BY <1>1 DEF IInv, Good, Nothing
  <2>2. CASE RouteFullDoc(q)
    <3>1. /\ pc'[q] = "list" /\ steady'[q] = Now
      <4> HIDE DEF Now
      <4> QED BY <1>1, <2>2 DEF IInv, TypeOK
    <3>2. \A c \in ChunkIds : steady'[q][c] # {} =>
             points[c] \in steady'[q][c] /\ c \in Scope(request[q])
      BY <3>1
    <3>3. Count(found'[q]) <= ScanLimit
      BY <2>1, EmptyCount, QueryAssumption
    <3>4. \A c \in ChunkIds : ~(Rank[c] < 0)
      BY QueryAssumption
    <3> QED BY <1>1, <2>1, <3>1, <3>2, <3>3, <3>4 DEF Good, Scope
  <2>3. CASE ~RouteFullDoc(q)
    <3>1. pc'[q] = "search" /\ steady' = steady
      BY <1>1, <2>3 DEF IInv, TypeOK
    <3> QED BY <1>1, <2>1, <3>1, NeverThereType DEF Good
  <2> QED BY <2>2, <2>3
<1>6. ASSUME NEW x \in Queries \ {q} PROVE Good(x)'
  <2>1. pc'[x] = pc[x] /\ steady'[x] = steady[x]
    BY <1>1 DEF IInv, TypeOK
  <2> QED BY <1>1, <2>1, SameGood DEF IInv
<1> QED BY <1>2, <1>4, <1>5, <1>6 DEF IInv

LEMMA SearchIInv ==
  ASSUME IInv, NEW q \in Queries, Search(q)
  PROVE  IInv'
<1>1. PICK hits \in SUBSET Scope(request[q]) : found' = [found EXCEPT ![q] = Payloads(hits)]
  BY DEF Search
<1>2. /\ pc[q] = "search" /\ pc' = [pc EXCEPT ![q] = "answer_section"]
      /\ UNCHANGED <<permits, ahead, request, offset, steady, collection, points, late, writes>>
  BY DEF Search, storeVars
<1>3. /\ permits' \in 0 .. MaxConcurrent
      /\ pc' \in [Queries -> Labels] /\ ahead' \in [Queries -> SUBSET Queries]
      /\ PermitsKept' /\ QueueInv'
  BY <1>2, StaySem DEF IInv, Holding
<1>4. found' \in [Queries -> [ChunkIds -> Payload \cup {None}]]
  BY <1>1, ScopeType DEF IInv, TypeOK
<1>5. TypeOK'
  BY <1>2, <1>3, <1>4 DEF IInv, TypeOK, StoreTypeOK, Labels
<1>6. Good(q)'
  <2>1. pc'[q] = "answer_section" /\ found'[q] = Payloads(hits)
    BY <1>1, <1>2 DEF IInv, TypeOK
  <2> QED BY <1>2, <2>1 DEF IInv, Good
<1>7. ASSUME NEW x \in Queries \ {q} PROVE Good(x)'
  <2>1. pc'[x] = pc[x] /\ found'[x] = found[x]
    BY <1>1, <1>2 DEF IInv, TypeOK
  <2> QED BY <1>2, <2>1, SameGood DEF IInv
<1> QED BY <1>3, <1>5, <1>6, <1>7 DEF IInv

\* A page adds at most its own points to what was read.
LEMMA CountPage ==
  ASSUME NEW f, NEW g, NEW page \in SUBSET ChunkIds, NEW n \in Nat,
         Cardinality(page) <= n - Count(f), Count(f) <= n,
         \A c \in ChunkIds : c \notin page => g[c] = f[c]
  PROVE  Count(g) \in Nat /\ Count(g) <= n
<1> DEFINE F == {c \in ChunkIds : f[c] # None}
           G == {c \in ChunkIds : g[c] # None}
<1>1. /\ IsFiniteSet(F) /\ IsFiniteSet(page) /\ IsFiniteSet(G) /\ IsFiniteSet(F \cap page)
      /\ IsFiniteSet(F \cup page)
  <2>1. /\ F \in SUBSET ChunkIds /\ G \in SUBSET ChunkIds /\ F \cap page \in SUBSET ChunkIds
        /\ F \cup page \in SUBSET ChunkIds /\ IsFiniteSet(ChunkIds)
    BY QueryAssumption
  <2> HIDE DEF F, G
  <2> QED BY <2>1, FS_Subset
<1>2. /\ Cardinality(F) \in Nat /\ Cardinality(page) \in Nat /\ Cardinality(G) \in Nat
      /\ Cardinality(F \cap page) \in Nat /\ Cardinality(F \cup page) \in Nat
  <2> HIDE DEF F, G
  <2> QED BY ONLY <1>1, FS_CardinalityType
<1>3. Cardinality(F \cup page) = Cardinality(F) + Cardinality(page) - Cardinality(F \cap page)
  <2> HIDE DEF F
  <2> QED BY ONLY <1>1, FS_Union
<1>4. Cardinality(G) <= Cardinality(F \cup page)
  <2>1. G \in SUBSET (F \cup page)
    OBVIOUS
  <2> HIDE DEF F, G
  <2> QED BY ONLY <1>1, <2>1, FS_Subset
<1> QED BY <1>2, <1>3, <1>4 DEF Count

LEMMA ScrollIInv ==
  ASSUME IInv, NEW q \in Queries, Scroll(q)
  PROVE  IInv'
<1> DEFINE todo == Rest(q)
           f == found[q]
<1>1. PICK page \in SUBSET todo :
         /\ Cardinality(page) =
               Smallest(Smallest(PageSize, ScanLimit - Count(f)), Cardinality(todo))
         /\ \A c \in page, d \in todo \ page : Rank[c] < Rank[d]
         /\ found' = [found EXCEPT ![q] =
                         [c \in ChunkIds |-> IF c \in page THEN points[c] ELSE @[c]]]
         /\ IF page = todo \/ Count(found'[q]) >= ScanLimit
            THEN pc' = [pc EXCEPT ![q] = "answer_full"] /\ UNCHANGED offset
            ELSE /\ \E next \in todo \ page :
                       /\ \A d \in todo \ page : Rank[next] <= Rank[d]
                       /\ offset' = [offset EXCEPT ![q] = Rank[next]]
                 /\ UNCHANGED pc
  BY DEF Scroll
<1>2. /\ pc[q] = "list"
      /\ UNCHANGED <<permits, ahead, request, steady, collection, points, late, writes>>
  BY DEF Scroll, storeVars
<1>3. /\ pc \in [Queries -> Labels] /\ found \in [Queries -> [ChunkIds -> Payload \cup {None}]]
      /\ offset \in [Queries -> Nat] /\ points \in [ChunkIds -> Payload \cup {None}]
      /\ Rank \in [ChunkIds -> Nat] /\ ScanLimit \in Nat /\ PageSize \in Nat
  BY QueryAssumption DEF IInv, TypeOK, StoreTypeOK, Labels
<1>4. /\ todo \in SUBSET ChunkIds /\ page \in SUBSET ChunkIds
      /\ \A c \in page : c \in Scope(request[q]) /\ points[c] # None
  BY DEF Rest, Scope
<1>5. /\ found'[q] = [c \in ChunkIds |-> IF c \in page THEN points[c] ELSE f[c]]
      /\ \A x \in Queries \ {q} : found'[x] = found[x]
      /\ found' \in [Queries -> [ChunkIds -> Payload \cup {None}]]
  BY <1>1, <1>3, <1>4
<1>6. Count(found'[q]) \in Nat /\ Count(found'[q]) <= ScanLimit
  <2>1. /\ Count(f) \in Nat /\ Count(f) <= ScanLimit
        /\ Cardinality(todo) \in Nat
    <3>1. Count(f) <= ScanLimit
      BY <1>2 DEF IInv, Good
    <3>2. {c \in ChunkIds : f[c] # None} \in SUBSET ChunkIds /\ IsFiniteSet(ChunkIds)
      BY QueryAssumption
    <3>3. IsFiniteSet({c \in ChunkIds : f[c] # None}) /\ IsFiniteSet(todo)
      BY <1>4, <3>2, FS_Subset
    <3> QED BY <3>1, <3>3, FS_CardinalityType DEF Count
  <2>2. Cardinality(page) <= ScanLimit - Count(f)
    BY <1>1, <1>3, <2>1 DEF Smallest
  <2>3. \A c \in ChunkIds : c \notin page => found'[q][c] = f[c]
    BY <1>5
  <2> HIDE DEF f
  <2> QED BY <1>3, <1>4, <2>1, <2>2, <2>3, CountPage
<1>7. \E l \in Holding : pc' = [pc EXCEPT ![q] = l]
  <2>1. pc = [pc EXCEPT ![q] = "list"]
    BY <1>2, <1>3
  <2> QED BY <1>1, <2>1 DEF Holding
<1>8. /\ permits' \in 0 .. MaxConcurrent
      /\ pc' \in [Queries -> Labels] /\ ahead' \in [Queries -> SUBSET Queries]
      /\ PermitsKept' /\ QueueInv'
  BY <1>2, <1>7, StaySem DEF IInv, Holding
<1>9. /\ offset' \in [Queries -> Nat]
      /\ \A x \in Queries \ {q} : pc'[x] = pc[x] /\ offset'[x] = offset[x]
  BY <1>1, <1>3, <1>4
<1>10. TypeOK'
  BY <1>2, <1>5, <1>8, <1>9 DEF IInv, TypeOK, StoreTypeOK, Labels
<1>11. \A c \in ChunkIds : steady[q][c] # {} =>
          /\ points[c] \in steady[q][c]
          /\ c \in Scope(request[q])
          /\ Rank[c] < offset[q] => f[c] \in steady[q][c] /\ c \notin todo
          /\ Rank[c] >= offset[q] => c \in todo
  BY <1>2, <1>3 DEF IInv, Good, Rest
<1>12. Good(q)'
  <2>1. \A c \in ChunkIds : steady[q][c] # {} =>
           \/ found'[q][c] \in steady[q][c]
           \/ c \in todo \ page
    BY <1>3, <1>5, <1>11
  <2>3. request[q] \in QueryRequests
    BY <1>2 DEF IInv, Good
  <2>4. CASE page = todo \/ Count(found'[q]) >= ScanLimit
    <3>1. pc'[q] = "answer_full" /\ offset' = offset
      BY <1>1, <1>3, <2>4
    <3>2. \/ Count(found'[q]) = ScanLimit
          \/ \A c \in ChunkIds : steady[q][c] # {} => found'[q][c] \in steady[q][c]
      <4>1. CASE page = todo
        BY <2>1, <4>1
      <4>2. CASE Count(found'[q]) >= ScanLimit
        <5> DEFINE m == Count(found'[q])
        <5>1. m \in Nat /\ m <= ScanLimit /\ m >= ScanLimit
          BY <1>6, <4>2
        <5> HIDE DEF m
        <5>2. m = ScanLimit
          BY <1>3, <5>1
        <5> QED BY <5>2 DEF m
      <4> QED BY <2>4, <4>1, <4>2
    <3> QED BY <1>2, <2>3, <3>1, <3>2 DEF Good
  <2>5. CASE ~(page = todo \/ Count(found'[q]) >= ScanLimit)
    <3>1. PICK next \in todo \ page :
             /\ \A d \in todo \ page : Rank[next] <= Rank[d]
             /\ offset' = [offset EXCEPT ![q] = Rank[next]]
      BY <1>1, <2>5
    <3>2. pc'[q] = "list" /\ offset'[q] = Rank[next]
      BY <1>1, <1>2, <1>3, <2>5, <3>1
    <3>3. \A c \in ChunkIds : steady[q][c] # {} /\ Rank[c] < offset'[q] =>
             found'[q][c] \in steady[q][c]
      <4>1. ASSUME NEW c \in ChunkIds, Rank[c] < Rank[next] PROVE c \notin todo \ page
        <5>1. Rank[c] \in Nat /\ Rank[next] \in Nat
          BY <1>3, <1>4
        <5> QED BY <3>1, <4>1, <5>1
      <4> QED BY <2>1, <3>2, <4>1
    <3> QED BY <1>2, <1>6, <1>11, <2>3, <3>2, <3>3 DEF Good, Scope
  <2> QED BY <2>4, <2>5
<1>13. ASSUME NEW x \in Queries \ {q} PROVE Good(x)'
  BY <1>2, <1>5, <1>9, SameGood DEF IInv
<1> QED BY <1>8, <1>10, <1>12, <1>13 DEF IInv

\* A chunk that is still in scope after a write has its payload from then on.
LEMMA WriteIInv ==
  ASSUME IInv, Write, UNCHANGED <<collection, late>>, points' \in [ChunkIds -> Payload \cup {None}]
  PROVE  IInv'
<1>1. /\ writes' \in 0 .. MaxWrites
      /\ UNCHANGED <<permits, pc, ahead, request, found, offset, collection, late>>
  BY QueryAssumption DEF Write, semVars, IInv, TypeOK
<1>2. /\ steady' \in [Queries -> [ChunkIds -> SUBSET Payload]]
      /\ \A q \in Queries :
            /\ pc[q] # "list" => steady'[q] = steady[q]
            /\ pc[q] = "list" => \A c \in ChunkIds : steady'[q][c] # {} =>
                  /\ steady[q][c] # {} /\ steady'[q][c] = steady[q][c] \cup {points'[c]}
                  /\ c \in Scope(request[q])'
  <2>1. /\ steady \in [Queries -> [ChunkIds -> SUBSET Payload]]
        /\ \A q \in Queries, c \in ChunkIds : c \in Scope(request[q])' => points'[c] \in Payload
    BY DEF IInv, TypeOK, Scope
  <2>2. steady' = [q \in Queries |->
                     IF pc[q] = "list"
                     THEN [c \in ChunkIds |-> IF steady[q][c] # {} /\ c \in Scope(request[q])'
                                              THEN steady[q][c] \cup {points'[c]} ELSE {}]
                     ELSE steady[q]]
    BY DEF Write
  <2>3. \A q \in Queries : steady'[q] \in [ChunkIds -> SUBSET Payload]
    BY <2>1, <2>2
  <2> QED BY <2>1, <2>2, <2>3
<1>3. TypeOK'
  BY <1>1, <1>2 DEF IInv, TypeOK, StoreTypeOK
<1>4. PermitsKept' /\ QueueInv'
  BY <1>1 DEF IInv, PermitsKept, QueueInv, FirstComeFirstServed, Owners, Waiting, At
<1>5. ASSUME NEW q \in Queries PROVE Good(q)'
  <2>1. Good(q)
    BY DEF IInv
  <2>2. CASE pc[q] # "list"
    BY <1>1, <1>2, <2>1, <2>2 DEF Good
  <2>3. CASE pc[q] = "list"
    BY <1>1, <1>2, <2>1, <2>3 DEF Good, Scope
  <2> QED BY <2>2, <2>3
<1> QED BY <1>3, <1>4, <1>5 DEF IInv

LEMMA WorkersIInv ==
  ASSUME IInv, WorkerCreates \/ WorkerUpserts \/ WorkerDeletes
  PROVE  IInv'
<1>1. CASE WorkerCreates
  <2>1. collection' = "created" /\ UNCHANGED <<permits, pc, ahead, request, found, offset, steady, points, late, writes>>
    BY <1>1 DEF WorkerCreates, CreateCollection, semVars, readVars
  <2>2. TypeOK' /\ PermitsKept' /\ QueueInv'
    BY <2>1 DEF IInv, TypeOK, StoreTypeOK, PermitsKept, QueueInv, FirstComeFirstServed,
                Owners, Waiting, At
  <2>3. \A q \in Queries : Good(q)'
    BY <2>1, SameGood DEF IInv
  <2> QED BY <2>2, <2>3 DEF IInv
<1>2. CASE WorkerUpserts
  <2>1. PICK w \in Writes : Upsert(w.doc, w.chunks, w.payload)
    BY <1>2 DEF WorkerUpserts
  <2>2. w.payload \in Payload
    BY QueryAssumption
  <2>3. points' \in [ChunkIds -> Payload \cup {None}]
    BY <2>1, <2>2 DEF Upsert, IInv, TypeOK, StoreTypeOK
  <2> QED BY <1>2, <2>3, WriteIInv DEF WorkerUpserts
<1>3. CASE WorkerDeletes
  <2>1. points' \in [ChunkIds -> Payload \cup {None}]
    BY <1>3 DEF WorkerDeletes, DeleteMatching, IInv, TypeOK, StoreTypeOK
  <2> QED BY <1>3, <2>1, WriteIInv DEF WorkerDeletes
<1> QED BY <1>1, <1>2, <1>3

LEMMA InitIInv == Init => IInv
<1> SUFFICES ASSUME Init PROVE IInv
  OBVIOUS
<1>1. /\ StoreInit /\ permits = MaxConcurrent /\ pc = [q \in Queries |-> "idle"]
      /\ ahead = [q \in Queries |-> {}] /\ request = [q \in Queries |-> None]
      /\ found = [q \in Queries |-> Nothing] /\ offset = [q \in Queries |-> 0]
      /\ steady = [q \in Queries |-> NeverThere] /\ writes = 0
  BY DEF Init
<1>2. Nothing \in [ChunkIds -> Payload \cup {None}] /\ \A c \in ChunkIds : Nothing[c] = None
  BY DEF Nothing
<1>3. TypeOK
  BY <1>1, <1>2, NeverThereType, QueryAssumption DEF TypeOK, StoreTypeOK, StoreInit
<1>4. Owners = {} /\ Waiting = {} /\ At("woken") = {}
  BY <1>1 DEF Owners, Waiting, At, Holding
<1>5. PermitsKept
  BY <1>1, <1>4, FS_EmptySet, QueryAssumption DEF PermitsKept
<1>6. QueueInv
  BY <1>1, <1>4 DEF QueueInv, FirstComeFirstServed
<1>7. \A q \in Queries : Good(q)
  BY <1>1, <1>2, NeverThereType DEF Good
<1> QED BY <1>3, <1>5, <1>6, <1>7 DEF IInv

LEMMA NextIInv == IInv /\ [Next]_vars => IInv'
<1> SUFFICES ASSUME IInv, [Next]_vars PROVE IInv'
  OBVIOUS
<1>1. ASSUME NEW q \in Queries, Step(q) PROVE IInv'
  BY <1>1, ResumeIInv, RouteIInv, ScrollIInv, SearchIInv, EndIInv DEF Step, Answer, Fail
<1>2. ASSUME NEW q \in Queries, Cancel(q) PROVE IInv'
  BY <1>2, EndIInv DEF Cancel
<1>3. CASE WorkerCreates \/ WorkerUpserts \/ WorkerDeletes
  BY <1>3, WorkersIInv
<1>4. CASE UNCHANGED vars
  <2>1. UNCHANGED <<permits, pc, ahead, request, found, offset, steady, collection, points, late, writes>>
    BY <1>4 DEF vars, semVars, readVars, storeVars
  <2>2. TypeOK' /\ PermitsKept' /\ QueueInv'
    BY <2>1 DEF IInv, TypeOK, StoreTypeOK, PermitsKept, QueueInv, FirstComeFirstServed,
                Owners, Waiting, At
  <2>3. \A q \in Queries : Good(q)'
    BY <2>1, SameGood DEF IInv
  <2> QED BY <2>2, <2>3 DEF IInv
<1> QED BY <1>1, <1>2, <1>3, <1>4, AskIInv DEF Next

-----------------------------------------------------------------------------
(* The theorems                                                             *)

\* The inductive invariant: types, the permits and the queue for them, and what
\* every query has read.
THEOREM AlwaysIInv == Spec => []IInv
<1>1. IInv /\ [Next]_vars => IInv'
  BY NextIInv
<1> QED BY <1>1, InitIInv, PTL DEF Spec

\* Every variable keeps to its type.
THEOREM TypeCorrect == Spec => []TypeOK
<1>1. IInv => TypeOK
  BY DEF IInv
<1> QED BY <1>1, AlwaysIInv, PTL

\* However queries end, no permit is lost or made up: at most MaxConcurrent of
\* them are at the LLM at any time.
THEOREM PermitsAlwaysKept == Spec => []PermitsKept
<1>1. IInv => PermitsKept
  BY DEF IInv
<1> QED BY <1>1, AlwaysIInv, PTL

\* Permits are handed out in the order of the queue, and none lies idle.
THEOREM ServedInOrder == Spec => []FirstComeFirstServed
<1>1. IInv => FirstComeFirstServed
  BY DEF IInv, QueueInv
<1> QED BY <1>1, AlwaysIInv, PTL

-----------------------------------------------------------------------------
(* The pages of a scroll                                                    *)

\* What a scroll under way has read has ids below next_offset, and it is not
\* enough yet.  What a scroll that was cut off has not read comes after what it has.
Unread(q) ==
    /\ pc[q] = "list" => /\ Count(found[q]) < ScanLimit
                         /\ \A c \in ChunkIds : found[q][c] # None => Rank[c] < offset[q]
    /\ pc[q] = "answer_full" =>
          \A c \in ChunkIds : steady[q][c] # {} =>
             \/ found[q][c] \in steady[q][c]
             \/ found[q][c] = None /\ \A d \in ChunkIds : found[q][d] # None => Rank[d] < Rank[c]

LEMMA ScrollUnread ==
  ASSUME IInv, NEW q \in Queries, Scroll(q), Unread(q)
  PROVE  Unread(q)'
<1>1. /\ pc \in [Queries -> Labels] /\ found \in [Queries -> [ChunkIds -> Payload \cup {None}]]
      /\ offset \in [Queries -> Nat] /\ Rank \in [ChunkIds -> Nat] /\ ScanLimit \in Nat
      /\ pc[q] = "list" /\ steady' = steady
  BY QueryAssumption DEF IInv, TypeOK, Labels, Scroll
<1>2. PICK page \in SUBSET Rest(q) :
         /\ \A c \in page, d \in Rest(q) \ page : Rank[c] < Rank[d]
         /\ found' = [found EXCEPT ![q] =
                         [c \in ChunkIds |-> IF c \in page THEN points[c] ELSE @[c]]]
         /\ IF page = Rest(q) \/ Count(found'[q]) >= ScanLimit
            THEN pc' = [pc EXCEPT ![q] = "answer_full"]
            ELSE /\ \E next \in Rest(q) \ page : offset' = [offset EXCEPT ![q] = Rank[next]]
                 /\ UNCHANGED pc
  BY DEF Scroll
<1>3. ASSUME NEW c \in ChunkIds, found'[q][c] # None, NEW d \in Rest(q) \ page
      PROVE  Rank[c] < Rank[d]
  <2>1. d \in ChunkIds /\ Rank[d] \in Nat /\ Rank[d] >= offset[q] /\ Rank[c] \in Nat
        /\ offset[q] \in Nat
    BY <1>1 DEF Rest, Scope
  <2>2. CASE c \in page
    BY <1>2, <2>2
  <2>3. CASE c \notin page
    <3>1. found[q][c] # None
      BY <1>1, <1>2, <1>3, <2>3
    <3>2. Rank[c] < offset[q]
      BY <1>1, <3>1 DEF Unread
    <3> QED BY <2>1, <3>2
  <2> QED BY <2>2, <2>3
<1>4. CASE page = Rest(q) \/ Count(found'[q]) >= ScanLimit
  <2>1. pc'[q] = "answer_full"
    BY <1>1, <1>2, <1>4
  <2> SUFFICES ASSUME NEW c \in ChunkIds, steady[q][c] # {}
               PROVE  \/ found'[q][c] \in steady[q][c]
                      \/ /\ found'[q][c] = None
                         /\ \A d \in ChunkIds : found'[q][d] # None => Rank[d] < Rank[c]
    BY <1>1, <2>1 DEF Unread
  <2>2. /\ points[c] \in steady[q][c] /\ c \in Scope(request[q])
        /\ Rank[c] < offset[q] => found[q][c] \in steady[q][c]
        /\ Rank[c] \in Nat /\ offset[q] \in Nat
    BY <1>1 DEF IInv, Good
  <2>3. CASE c \in page
    BY <1>1, <1>2, <2>2, <2>3
  <2>4. CASE c \notin page /\ Rank[c] < offset[q]
    BY <1>1, <1>2, <2>2, <2>4
  <2>5. CASE c \notin page /\ ~(Rank[c] < offset[q])
    <3>1. c \in Rest(q) \ page
      BY <2>2, <2>5 DEF Rest
    <3>2. found'[q][c] = None
      BY <1>3, <2>2, <3>1
    <3> QED BY <1>3, <3>1, <3>2
  <2> QED BY <2>3, <2>4, <2>5
<1>5. CASE ~(page = Rest(q) \/ Count(found'[q]) >= ScanLimit)
  <2>1. PICK next \in Rest(q) \ page : offset'[q] = Rank[next]
    BY <1>1, <1>2, <1>5
  <2>2. \A c \in ChunkIds : found'[q][c] # None => Rank[c] < offset'[q]
    BY <1>3, <2>1
  <2>3. Count(found'[q]) \in Nat
    <3>1. {c \in ChunkIds : found'[q][c] # None} \in SUBSET ChunkIds /\ IsFiniteSet(ChunkIds)
      BY QueryAssumption
    <3> QED BY <3>1, FS_Subset, FS_CardinalityType DEF Count
  <2>4. pc'[q] = "list"
    BY <1>1, <1>2, <1>5
  <2> QED BY <1>1, <1>5, <2>2, <2>3, <2>4 DEF Unread, Count
<1> QED BY <1>4, <1>5

UnreadInv == \A q \in Queries : Unread(q)

LEMMA NextUnread == IInv /\ UnreadInv /\ [Next]_vars => UnreadInv'
<1> SUFFICES ASSUME IInv, \A q \in Queries : Unread(q), [Next]_vars, NEW x \in Queries
             PROVE  Unread(x)'
  BY DEF UnreadInv
<1>1. ASSUME pc'[x] \in {"list", "answer_full"} =>
                /\ pc'[x] = pc[x] /\ found'[x] = found[x] /\ offset'[x] = offset[x]
                /\ pc[x] = "answer_full" => steady'[x] = steady[x]
      PROVE  Unread(x)'
  BY <1>1 DEF Unread, Count
<1>2. /\ pc \in [Queries -> Labels] /\ request \in [Queries -> QueryRequests \cup {None}]
      /\ found \in [Queries -> [ChunkIds -> Payload \cup {None}]] /\ offset \in [Queries -> Nat]
      /\ steady \in [Queries -> [ChunkIds -> SUBSET Payload]]
  BY DEF IInv, TypeOK, Labels
<1>3. ASSUME NEW q \in Queries, Scroll(q) PROVE Unread(x)'
  <2>1. CASE x = q
    BY <1>3, <2>1, ScrollUnread
  <2>2. CASE x # q
    <3>1. pc'[x] = pc[x] /\ found'[x] = found[x] /\ offset'[x] = offset[x]
          /\ steady'[x] = steady[x]
      BY <1>2, <1>3, <2>2 DEF Scroll
    <3> QED BY <1>1, <3>1
  <2> QED BY <2>1, <2>2
<1>4. ASSUME NEW q \in Queries, RouteFullDoc(q) PROVE Unread(x)'
  <2>1. CASE x = q
    <3>1. pc[q] = "router" /\ found' = found
      BY <1>4 DEF RouteFullDoc
    <3>2. found'[q] = Nothing
      BY <3>1 DEF IInv, Good
    <3>3. Count(found'[q]) < ScanLimit /\ \A c \in ChunkIds : found'[q][c] = None
      BY <3>2, EmptyCount, QueryAssumption DEF Nothing
    <3>4. pc'[q] = "list"
      BY <1>2, <1>4 DEF RouteFullDoc
    <3> QED BY <2>1, <3>3, <3>4 DEF Unread, Count
  <2>2. CASE x # q
    BY <1>1, <1>2, <1>4, <2>2 DEF RouteFullDoc
  <2> QED BY <2>1, <2>2
<1>5. ASSUME NEW q \in Queries, RouteSection(q) \/ Search(q) PROVE Unread(x)'
  BY <1>1, <1>2, <1>5 DEF RouteSection, Search, readVars
<1>6. ASSUME NEW q \in Queries, NEW l \in {"idle", "router"}, NEW p, NEW n, GoOn(q, l, p, n),
             (UNCHANGED <<found[x], offset[x], steady[x]>>) \/ x = q
      PROVE  Unread(x)'
  BY <1>1, <1>6, GoOnOthers
<1>7. ASSUME NEW q \in Queries, Forget(q),
             \/ Release(q)
             \/ pc[q] = "waiting" /\ GoOn(q, "idle", permits, permits)
             \/ pc[q] = "woken" /\ GoOn(q, "idle", permits + 1, permits + 1)
      PROVE  Unread(x)'
  <2>1. (UNCHANGED <<found[x], offset[x], steady[x]>>) \/ x = q
    BY <1>2, <1>7 DEF Forget
  <2> QED BY <1>6, <1>7, <2>1 DEF Release
<1>8. ASSUME NEW q \in Queries, Resume(q) PROVE Unread(x)'
  BY <1>6, <1>8 DEF Resume, readVars
<1>9. ASSUME NEW q \in Queries, NEW r \in QueryRequests, Ask(q, r) PROVE Unread(x)'
  <2>1. /\ UNCHANGED <<found, offset, steady>>
        /\ pc'[x] \in {"list", "answer_full"} => pc'[x] = pc[x]
    BY <1>2, <1>9 DEF Ask, Acquire
  <2> QED BY <1>1, <2>1
<1>10. CASE WorkerCreates \/ WorkerUpserts \/ WorkerDeletes \/ UNCHANGED vars
  BY <1>1, <1>10 DEF WorkerCreates, WorkerUpserts, WorkerDeletes, Write, vars, semVars, readVars
<1>11. ASSUME NEW q \in Queries, Step(q) \/ Cancel(q) PROVE Unread(x)'
  BY <1>3, <1>4, <1>5, <1>7, <1>8, <1>11 DEF Step, Cancel, Answer, Fail
<1> QED BY <1>9, <1>10, <1>11 DEF Next

LEMMA AlwaysUnread == Spec => []UnreadInv
<1>1. Init => UnreadInv
  BY DEF Init, Unread, UnreadInv
<1> QED BY <1>1, NextUnread, AlwaysIInv, PTL DEF Spec

\* However workers write between the pages, no chunk is read twice, and no page is
\* asked for without room for one (qdrant.py:154-183).
THEOREM PagesAreAlwaysNew == Spec => []PagesAreNew
<1>1. IInv /\ UnreadInv => PagesAreNew
  <2> SUFFICES ASSUME IInv, \A q \in Queries : Unread(q), NEW q \in Queries, pc[q] = "list",
                      NEW c \in Rest(q)
               PROVE  Count(found[q]) < ScanLimit /\ found[q][c] = None
    BY DEF PagesAreNew, At, Unread, UnreadInv
  <2>1. c \in ChunkIds /\ Rank[c] >= offset[q]
    BY DEF Rest, Scope
  <2>2. Rank[c] \in Nat /\ offset[q] \in Nat
    BY <2>1, QueryAssumption DEF IInv, TypeOK
  <2> QED BY <2>1, <2>2 DEF Unread
<1> QED BY <1>1, AlwaysUnread, AlwaysIInv, PTL

\* A FULL_DOC answer misses no chunk that stayed in its scope, and has each in a
\* version it had during the scan, whatever the workers write and delete between
\* its pages; cut off at the limit, it misses the last of them and no others.
THEOREM ScansAreComplete == Spec => []ScanComplete
<1>1. IInv /\ UnreadInv => ScanComplete
  BY DEF IInv, Good, UnreadInv, Unread, ScanComplete, At
<1> QED BY <1>1, AlwaysUnread, AlwaysIInv, PTL
=============================================================================
