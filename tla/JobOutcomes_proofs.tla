------------------------- MODULE JobOutcomes_proofs -------------------------
(***************************************************************************)
(* What becomes of a job in DocumentJobs: it is not lost, its row tells    *)
(* how it ended, and it stays that way.  For any number of jobs, workers,  *)
(* tenants and documents and any fault bounds.                             *)
(***************************************************************************)
EXTENDS DocumentJobs_proofs, FiniteSetTheorems

\* A fault that has struck has struck for good.
LEMMA Struck ==
    ASSUME NEW f \in Faults, faults \in [Faults -> Nat], Strike(f)
    PROVE  Injected(f)' /\ \A g \in Faults : Injected(g) => Injected(g)'
BY DEF Strike, Injected

LEMMA FaultStep ==
    ASSUME [Next]_vars
    PROVE  UNCHANGED faults \/ \E f \in Faults : Strike(f)
<1>1. CASE \E j \in Jobs : Server(j)
  BY <1>1
     DEF Server, IndexDocument, DeleteDocument, Accept, PublishEnvelope, HandlerFails, Faults
<1>2. CASE \E w \in Workers, j \in Jobs : DeliverTo(w, j)
  BY <1>2 DEF DeliverTo
<1>3. ASSUME NEW w \in Workers, Work(w) \/ Restart(w) PROVE UNCHANGED faults
  BY <1>3 DEF Work, Restart, Take, TakeStale, Settle, GetRow, MarkRunning, MarkSucceeded, MarkFailed, Extract,
              GetCollections, CreateMissing, CreateConflicts, CreateIndexes, UpsertChunks, Count,
              DeletePoints
<1>4. ASSUME NEW w \in Workers, WorkerFault(w) PROVE \E f \in Faults : Strike(f)
  BY <1>4 DEF WorkerFault, DatabaseFails, BackendFails, CallTimesOut, Crash, Stop, ConnectionLost, Faults
<1>5. CASE UNCHANGED vars
  BY <1>5 DEF vars
<1>6. CASE \E e \in late : TakesEffect(e)
  BY <1>6 DEF TakesEffect
<1> QED BY <1>1, <1>2, <1>3, <1>4, <1>5, <1>6 DEF Next

LEMMA FaultsGrow ==
    ASSUME IInv, [Next]_vars
    PROVE  \A g \in Faults : Injected(g) => Injected(g)'
<1>1. faults \in [Faults -> Nat]
  BY DEF IInv, TypeOK
<1>2. CASE UNCHANGED faults
  BY <1>2 DEF Injected
<1> QED BY <1>1, <1>2, FaultStep, Struck

\* Nothing is late before a call has timed out.
LateTold == late # {} => Injected("timeout")

LEMMA LateToldKept == IInv /\ LateTold /\ [Next]_vars => LateTold'
<1> SUFFICES ASSUME IInv, LateTold, [Next]_vars PROVE LateTold'
  OBVIOUS
<1>1. CASE late' \subseteq late
  BY <1>1, FaultsGrow DEF LateTold, Faults
<1>2. ASSUME NEW w \in Workers, CallTimesOut(w) PROVE LateTold'
  BY <1>2, Struck DEF CallTimesOut, LateTold, Faults, IInv, TypeOK
<1> QED BY <1>1, <1>2, LateGrows

LEMMA AlwaysLateTold == Spec => []LateTold
<1>1. Init => LateTold
  BY DEF Init, StoreInit, LateTold
<1> QED BY <1>1, LateToldKept, AlwaysIInv, PTL DEF Spec
-----------------------------------------------------------------------------
(* The steps of a worker, as far as they matter here.                       *)

\* What a thread does leaves the table and the queue alone; afterwards the
\* worker is at its job still, or it was cancelled and its process ends.
LEMMA ThreadEffect ==
    ASSUME IInv, NEW w \in Workers,
           \/ Extract(w) \/ GetCollections(w) \/ CreateMissing(w) \/ CreateConflicts(w)
           \/ CreateIndexes(w) \/ UpsertChunks(w) \/ Count(w) \/ DeletePoints(w)
           \/ BackendFails(w) \/ CallTimesOut(w)
    PROVE  /\ pc[w] \in Thread /\ UNCHANGED <<rows, queueVars, serverVars>> /\ OthersKeep(w)
           /\ \/ /\ delivery[w] = "cancelled"
                 /\ pc'[w] = "down" /\ job'[w] = None /\ delivery'[w] = "none"
              \/ /\ pc'[w] \in Thread \cup {"get_succeeded", "get_failed"}
                 /\ job'[w] = job[w] /\ delivery'[w] = delivery[w]
<1>1. WorkerTypeOK
  BY DEF IInv, TypeOK
<1>2. pc[w] \in Thread /\ UNCHANGED <<rows, queueVars, serverVars>>
  BY DEF Extract, GetCollections, CreateMissing, CreateConflicts, CreateIndexes,
         UpsertChunks, Count, DeletePoints, BackendFails, CallTimesOut, StoreCalls, Thread
<1> DEFINE Done ==
        /\ OthersKeep(w)
        /\ \/ /\ delivery[w] = "cancelled"
              /\ pc'[w] = "down" /\ job'[w] = None /\ delivery'[w] = "none"
           \/ /\ pc'[w] \in Thread \cup {"get_succeeded", "get_failed"}
              /\ job'[w] = job[w] /\ delivery'[w] = delivery[w]
<1>3. ASSUME NEW error \in Errors, Raise(w, error) PROVE Done
  BY <1>1, <1>3, RaiseEffect
<1>4. ASSUME NEW label \in Thread \cup {"get_succeeded"}, Return(w, label) PROVE Done
  <2>1. label \in Labels
    BY <1>4 DEF Labels, Busy, Get
  <2> QED BY <1>1, <1>4, <2>1, ReturnEffect
<1>5. ASSUME NEW label \in Thread, Goto(w, label), UNCHANGED <<job, delivery, loaded, exc>>
      PROVE  Done
  <2>1. label \in Labels
    BY <1>5 DEF Labels, Busy
  <2> QED BY <1>1, <1>5, <2>1, GotoEffect DEF OthersKeep
<1>6. {"get_collections", "create_collection", "create_index", "upsert", "delete"} \subseteq Thread
      /\ {"extract", "conflict", "missing", "backend"} \subseteq Errors
  BY DEF Thread, Errors
<1> SUFFICES Done
  BY <1>2
<1> HIDE DEF Done
<1>7. CASE Extract(w)
  BY <1>3, <1>4, <1>6, <1>7 DEF Extract
<1>8. CASE GetCollections(w)
  BY <1>4, <1>5, <1>6, <1>8 DEF GetCollections
<1>9. CASE CreateMissing(w)
  BY <1>5, <1>6, <1>9 DEF CreateMissing
<1>10. CASE CreateConflicts(w)
  BY <1>3, <1>6, <1>10 DEF CreateConflicts
<1>11. CASE CreateIndexes(w)
  BY <1>4, <1>6, <1>11 DEF CreateIndexes
<1>12. CASE UpsertChunks(w)
  BY <1>4, <1>12 DEF UpsertChunks
<1>13. CASE Count(w)
  BY <1>3, <1>4, <1>5, <1>6, <1>13 DEF Count
<1>14. CASE DeletePoints(w)
  BY <1>4, <1>14 DEF DeletePoints
<1>15. CASE BackendFails(w) \/ CallTimesOut(w)
  BY <1>3, <1>6, <1>15 DEF BackendFails, CallTimesOut
<1> QED BY <1>7, <1>8, <1>9, <1>10, <1>11, <1>12, <1>13, <1>14, <1>15

\* A commit writes the row of the worker's job and nothing else; afterwards the
\* worker goes on with the job or is done with it.
LEMMA CommitEffect ==
    ASSUME IInv, NEW w \in Workers,
           MarkRunning(w) \/ MarkSucceeded(w) \/ MarkFailed(w) \/ DatabaseFails(w)
    PROVE  /\ pc[w] \in Commit /\ UNCHANGED <<queueVars, storeVars, serverVars>> /\ OthersKeep(w)
           /\ job'[w] = job[w] /\ delivery'[w] = delivery[w] /\ loaded'[w] = Absent
           /\ MarkRunning(w) => pc'[w] \in {"extract", "count"}
           /\ MarkSucceeded(w) \/ MarkFailed(w) => pc'[w] = "settle"
           /\ DatabaseFails(w) => pc'[w] = IF pc[w] = "commit_succeeded" THEN "get_failed" ELSE "settle"
<1>1. WorkerTypeOK /\ {"extract", "count", "settle", "get_failed"} \subseteq Labels
  BY DEF IInv, TypeOK, Labels, Busy, Get, Thread
<1>2. /\ MarkRunning(w) => \E label \in {"extract", "count"} : CloseSession(w, label)
      /\ MarkSucceeded(w) \/ MarkFailed(w) => CloseSession(w, "settle")
      /\ DatabaseFails(w) =>
             CloseSession(w, IF pc[w] = "commit_succeeded" THEN "get_failed" ELSE "settle")
  BY DEF MarkRunning, MarkSucceeded, MarkFailed, DatabaseFails
<1>3. pc[w] \in Commit /\ UNCHANGED <<queueVars, storeVars, serverVars>>
      /\ \A v \in Workers \ {w} : exc'[v] = exc[v]
  BY <1>1 DEF MarkRunning, MarkSucceeded, MarkFailed, DatabaseFails, Commit, WorkerTypeOK
<1>4. ASSUME NEW label \in {"extract", "count", "settle", "get_failed"}, CloseSession(w, label)
      PROVE  OthersKeep(w) /\ pc'[w] = label /\ loaded'[w] = Absent /\ UNCHANGED <<job, delivery>>
  BY <1>1, <1>3, <1>4, CloseSessionEffect DEF OthersKeep
<1> QED BY <1>2, <1>3, <1>4

\* The worker forgets its job.
LEMMA LeaveEffect ==
    ASSUME IInv, NEW w \in Workers, Settle(w) \/ Crash(w) \/ (Stop(w) /\ pc[w] \notin Thread)
    PROVE  /\ OthersKeep(w) /\ UNCHANGED <<rows, storeVars, serverVars, published>>
           /\ pc'[w] \in {"idle", "down"} /\ job'[w] = None /\ delivery'[w] = "none"
           /\ \A v \in Workers \ {w} : channel'[v] = channel[v]
<1>1. WorkerTypeOK /\ {"idle", "down"} \subseteq Labels /\ QueueTypeOK
  BY DEF IInv, TypeOK, Labels
<1>2. Rest(w, "idle") \/ Rest(w, "down")
  BY DEF Settle, Crash, Stop
<1>3. UNCHANGED <<rows, storeVars, serverVars, published>>
      /\ \A v \in Workers \ {w} : channel'[v] = channel[v]
  BY <1>1 DEF Settle, Crash, Stop, Discard, Requeue, PutBack, queueVars, QueueTypeOK
<1> QED BY <1>1, <1>2, <1>3, RestEffect
-----------------------------------------------------------------------------
(* The payload indexes.                                                     *)

LEMMA IndexesKept == IInv /\ LateTold /\ IndexesComplete /\ [Next]_vars => IndexesComplete'
<1> SUFFICES ASSUME IInv, LateTold, IndexesComplete, [Next]_vars
             PROVE  IndexesComplete'
  OBVIOUS
<1>1. Injected("crash") \/ Injected("backend") \/ Injected("timeout") => IndexesComplete'
  BY FaultsGrow DEF Faults, IndexesComplete
<1>2. ASSUME NEW f \in {"crash", "backend", "timeout"}, Strike(f) PROVE IndexesComplete'
  <2>1. f \in Faults /\ faults \in [Faults -> Nat]
    BY <1>2 DEF Faults, IInv, TypeOK
  <2> QED BY <1>2, <2>1, Struck DEF IndexesComplete
<1>3. ASSUME UNCHANGED collection, UNCHANGED pc PROVE IndexesComplete'
  BY <1>1, <1>3 DEF IndexesComplete
<1>4. ASSUME UNCHANGED collection, NEW w \in Workers, OthersKeep(w), pc[w] # "create_index"
      PROVE  IndexesComplete'
  <2> SUFFICES ASSUME collection = "created", NEW v \in Workers, pc[v] = "create_index"
               PROVE  pc'[v] = "create_index"
    BY <1>1, <1>4 DEF IndexesComplete
  <2> QED BY <1>4 DEF OthersKeep
<1>5. CASE \E j \in Jobs : Server(j)
  BY <1>3, <1>5 DEF Server, IndexDocument, DeleteDocument, Accept, PublishEnvelope, HandlerFails,
                    storeVars, workerVars
<1>6. CASE \E w \in Workers, j \in Jobs : DeliverTo(w, j)
  BY <1>3, <1>6 DEF DeliverTo, storeVars, workerVars
<1>7. ASSUME NEW w \in Workers, Take(w) \/ TakeStale(w) \/ Restart(w) \/ GetRow(w) PROVE IndexesComplete'
  <2>1. WorkerTypeOK
    BY DEF IInv, TypeOK
  <2>2. UNCHANGED collection /\ pc[w] # "create_index" /\ \E label : Goto(w, label)
    BY <1>7 DEF Take, TakeStale, Restart, GetRow, Get, storeVars
  <2>3. \A v \in Workers \ {w} : pc'[v] = pc[v]
    BY <2>1, <2>2 DEF Goto, WorkerTypeOK
  <2> QED BY <1>1, <2>2, <2>3 DEF IndexesComplete
<1>8. ASSUME NEW w \in Workers, Settle(w) \/ (Stop(w) /\ pc[w] \notin Thread) PROVE IndexesComplete'
  BY <1>4, <1>8, LeaveEffect DEF Settle, Thread, storeVars
<1>9. ASSUME NEW w \in Workers, (Stop(w) /\ pc[w] \in Thread) \/ ConnectionLost(w)
      PROVE  IndexesComplete'
  BY <1>3, <1>9 DEF Stop, ConnectionLost, storeVars
<1>10. ASSUME NEW w \in Workers, MarkRunning(w) \/ MarkSucceeded(w) \/ MarkFailed(w) \/ DatabaseFails(w)
       PROVE  IndexesComplete'
  BY <1>4, <1>10, CommitEffect DEF Commit, storeVars
<1>11. ASSUME NEW w \in Workers, Extract(w) \/ GetCollections(w) \/ CreateConflicts(w)
                                 \/ UpsertChunks(w) \/ Count(w) \/ DeletePoints(w)
       PROVE  IndexesComplete'
  <2>1. UNCHANGED collection /\ pc[w] # "create_index"
    BY <1>11 DEF Extract, GetCollections, CreateConflicts, UpsertChunks, Count, DeletePoints, storeVars
  <2> QED BY <1>4, <1>11, <2>1, ThreadEffect
<1>12. ASSUME NEW w \in Workers, CreateMissing(w) PROVE IndexesComplete'
  <2>1. pc'[w] = "create_index"
    BY <1>12, GotoEffect DEF CreateMissing, IInv, TypeOK, Labels, Busy, Thread
  <2> QED BY <2>1 DEF IndexesComplete
<1>13. ASSUME NEW w \in Workers, CreateIndexes(w) PROVE IndexesComplete'
  BY <1>13 DEF CreateIndexes, CreatePayloadIndexes, IndexesComplete
<1>14. ASSUME NEW w \in Workers, BackendFails(w) \/ CallTimesOut(w) \/ Crash(w) PROVE IndexesComplete'
  BY <1>2, <1>14 DEF BackendFails, CallTimesOut, Crash
<1>15. CASE UNCHANGED vars
  BY <1>3, <1>15 DEF vars, storeVars, workerVars
<1>16. CASE \E e \in late : TakesEffect(e)
  <2>1. late # {}
    BY <1>16
  <2> QED BY <1>1, <2>1 DEF LateTold
<1> QED BY <1>16, <1>5, <1>6, <1>7, <1>8, <1>9, <1>10, <1>11, <1>12, <1>13, <1>14, <1>15
        DEF Next, Work, WorkerFault

\* For any number of workers: a collection lacks its payload indexes for good
\* only if a worker died, or a call failed or timed out, between create_collection and
\* create_payload_index (qdrant.py:43-55).
THEOREM IndexesAreCompleted == Spec => []IndexesComplete
<1>1. Init => IndexesComplete
  BY DEF Init, StoreInit, IndexesComplete
<1> QED BY <1>1, IndexesKept, AlwaysIInv, AlwaysLateTold, PTL DEF Spec
-----------------------------------------------------------------------------
(* The race to create the collection.                                       *)

\* The workers that are about to lose it, and those that have just lost it.
Racing == {w \in Workers : pc[w] = "create_collection" \/ exc[w] = "conflict"}

\* Nobody loses before somebody has won; the winner is not among the losers,
\* unless he gave up on the request that won.
Winner == IF Injected("timeout") THEN 0 ELSE 1

RaceInv ==
    /\ IsFiniteSet(Conflicted)
    /\ collection = "absent" => Conflicted = {} /\ \A w \in Workers : exc[w] # "conflict"
    /\ collection # "absent" =>
           Cardinality(Conflicted) + Cardinality(Racing) <= Cardinality(Workers) - Winner

\* What w may do to the race in one step: enter it while there is no collection,
\* lose it while there is one, win it, and turn a loss into a row.
RaceStep(w) ==
    /\ \A v \in Workers \ {w} : pc'[v] = pc[v] /\ exc'[v] = exc[v]
    /\ pc'[w] = "create_collection" => pc[w] = "create_collection" \/ collection = "absent"
    /\ exc'[w] = "conflict" => \/ exc[w] = "conflict"
                               \/ pc[w] = "create_collection" /\ collection # "absent"
    /\ collection' = "absent" => collection = "absent"
    /\ collection' # collection => pc'[w] # "create_collection"
    /\ \/ Conflicted' \subseteq Conflicted
       \/ /\ exc[w] = "conflict" /\ exc'[w] # "conflict" /\ pc'[w] # "create_collection"
          /\ Conflicted' \subseteq Conflicted \cup {job[w]}

LEMMA RaceCommit ==
    ASSUME IInv, NEW w \in Workers,
           MarkRunning(w) \/ MarkSucceeded(w) \/ MarkFailed(w) \/ DatabaseFails(w)
    PROVE  RaceStep(w)
<1>1. /\ OthersKeep(w) /\ UNCHANGED collection
      /\ pc'[w] # "create_collection"
      /\ pc[w] \in Commit
  BY CommitEffect DEF storeVars
<1>2. WorkerTypeOK /\ RepoTypeOK
  BY DEF IInv, TypeOK
<1>3. exc'[w] = "conflict" => exc[w] = "conflict" /\ pc[w] # "commit_failed"
  BY <1>1, <1>2 DEF MarkRunning, MarkSucceeded, MarkFailed, DatabaseFails, WorkerTypeOK, Commit
<1>4. \/ UNCHANGED rows
      \/ pc[w] = "commit_running" /\ CommitRow(w, Running(loaded[w]))
      \/ pc[w] = "commit_succeeded" /\ CommitRow(w, Succeeded(loaded[w]))
      \/ pc[w] = "commit_failed" /\ CommitRow(w, Failed(loaded[w], exc[w]))
  BY DEF MarkRunning, MarkSucceeded, MarkFailed, DatabaseFails
<1>5. ASSUME NEW new, CommitRow(w, new), new.error # "conflict" \/ new.error = loaded[w].error
      PROVE  Conflicted' \subseteq Conflicted
  <2>1. \A j \in Jobs \ {job[w]} : rows'[j] = rows[j]
    BY <1>2, <1>5 DEF CommitRow, Transition, RepoTypeOK
  <2>2. rows'[job[w]].error = Column(loaded[w].error, new.error, rows[job[w]].error)
    BY <1>1, <1>2, <1>5, BusyJob DEF CommitRow, Transition, RepoTypeOK, Busy
  <2> QED BY <1>5, <2>1, <2>2 DEF Conflicted, Column
<1>6. CASE pc[w] # "commit_failed" \/ exc[w] # "conflict"
  <2>1. loaded[w] \in Row
    BY <1>2 DEF WorkerTypeOK
  <2>2. Running(loaded[w]).error = loaded[w].error
    BY <2>1 DEF Running, Row
  <2>3. Succeeded(loaded[w]).error = "" /\ Failed(loaded[w], exc[w]).error = exc[w]
    BY DEF Succeeded, Failed
  <2>4. Conflicted' \subseteq Conflicted
    BY <1>4, <1>5, <1>6, <2>2, <2>3 DEF Conflicted
  <2> QED BY <1>1, <1>3, <2>4 DEF RaceStep, OthersKeep
<1>7. CASE pc[w] = "commit_failed" /\ exc[w] = "conflict"
  <2>1. \A j \in Jobs \ {job[w]} : rows'[j] = rows[j]
    BY <1>2, <1>4 DEF CommitRow, Transition, RepoTypeOK
  <2>2. Conflicted' \subseteq Conflicted \cup {job[w]}
    BY <2>1 DEF Conflicted
  <2> QED BY <1>1, <1>3, <1>7, <2>2 DEF RaceStep, OthersKeep
<1> QED BY <1>6, <1>7

LEMMA RaceThread ==
    ASSUME IInv, NEW w \in Workers,
           \/ Extract(w) \/ GetCollections(w) \/ CreateMissing(w) \/ CreateConflicts(w)
           \/ CreateIndexes(w) \/ UpsertChunks(w) \/ Count(w) \/ DeletePoints(w)
           \/ BackendFails(w) \/ CallTimesOut(w)
    PROVE  RaceStep(w)
<1>1. OthersKeep(w) /\ UNCHANGED rows
  BY ThreadEffect
<1>2. WorkerTypeOK /\ collection \in {"absent", "created", "indexed"}
  BY DEF IInv, TypeOK, StoreTypeOK
<1>3. /\ Conflicted' = Conflicted
      /\ \A v \in Workers \ {w} : pc'[v] = pc[v] /\ exc'[v] = exc[v]
  BY <1>1 DEF Conflicted, OthersKeep
<1> DEFINE Leaves(e) == pc'[w] # "create_collection" /\ exc'[w] \in {exc[w], "", e}
<1>4. ASSUME NEW label \in Labels \ {"create_collection"}, Return(w, label) PROVE Leaves("")
  BY <1>2, <1>4 DEF Return, Rest, Goto, WorkerTypeOK
<1>5. ASSUME NEW error \in Errors, Raise(w, error) PROVE Leaves(error)
  BY <1>2, <1>5 DEF Raise, Rest, Goto, WorkerTypeOK
<1>6. ASSUME NEW label \in Labels \ {"create_collection"}, Goto(w, label), UNCHANGED exc
      PROVE  Leaves("")
  BY <1>2, <1>6 DEF Goto, WorkerTypeOK
<1>7. /\ {"get_collections", "create_index", "upsert", "delete", "get_succeeded"}
             \subseteq Labels \ {"create_collection"}
      /\ {"extract", "conflict", "missing", "backend"} \subseteq Errors
  BY DEF Labels, Busy, Thread, Get, Errors
<1>8. ASSUME Leaves("") \/ Leaves("extract") \/ Leaves("missing") \/ Leaves("backend"),
             collection' = "absent" => collection = "absent"
      PROVE  RaceStep(w)
  BY <1>3, <1>8 DEF RaceStep
<1>9. CASE CreateConflicts(w)
  <2>1. Leaves("conflict")
    BY <1>5, <1>7, <1>9 DEF CreateConflicts
  <2> QED BY <1>3, <1>9, <2>1 DEF RaceStep, CreateConflicts, storeVars
<1>10. CASE GetCollections(w) /\ collection = "absent"
  <2>1. UNCHANGED <<exc, collection>>
    BY <1>10 DEF GetCollections, storeVars
  <2> QED BY <1>3, <1>10, <2>1 DEF RaceStep
<1> HIDE DEF Leaves
<1>11. CASE GetCollections(w) /\ collection # "absent"
  BY <1>4, <1>7, <1>8, <1>11 DEF GetCollections, storeVars
<1>12. CASE Extract(w)
  BY <1>4, <1>5, <1>7, <1>8, <1>12 DEF Extract, storeVars
<1>13. CASE CreateMissing(w)
  BY <1>6, <1>7, <1>8, <1>13 DEF CreateMissing, CreateCollection
<1>14. CASE CreateIndexes(w)
  BY <1>4, <1>7, <1>8, <1>14 DEF CreateIndexes, CreatePayloadIndexes
<1>15. CASE UpsertChunks(w) \/ DeletePoints(w)
  BY <1>4, <1>7, <1>8, <1>15 DEF UpsertChunks, DeletePoints
<1>16. CASE Count(w)
  BY <1>4, <1>5, <1>6, <1>7, <1>8, <1>16 DEF Count, storeVars
<1>17. CASE BackendFails(w) \/ CallTimesOut(w)
  <2>1. collection' = "absent" => collection = "absent"
    BY <1>17 DEF BackendFails, CallTimesOut, Effect, CreateCollection, CreatePayloadIndexes, storeVars
  <2> QED BY <1>5, <1>7, <1>8, <1>17, <2>1 DEF BackendFails, CallTimesOut
<1> QED BY <1>9, <1>10, <1>11, <1>12, <1>13, <1>14, <1>15, <1>16, <1>17

\* Nobody else has a part in it.
LEMMA RaceOther ==
    ASSUME IInv, [Next]_vars
    PROVE  \/ UNCHANGED <<pc, exc, collection>> /\ Conflicted' \subseteq Conflicted
           \/ \E w \in Workers : RaceStep(w)
           \/ late # {} /\ UNCHANGED <<pc, exc>> /\ Conflicted' = Conflicted
              /\ (collection' = "absent" => collection = "absent")
<1>1. ASSUME UNCHANGED rows PROVE Conflicted' = Conflicted
  BY <1>1 DEF Conflicted
<1>2. CASE \E j \in Jobs : Server(j)
  <2>1. UNCHANGED <<pc, exc, collection>> /\ (UNCHANGED rows \/ \E j \in Jobs : Create(j))
    BY <1>2 DEF Server, IndexDocument, DeleteDocument, Accept, PublishEnvelope, HandlerFails,
                storeVars, workerVars
  <2>2. ASSUME NEW j \in Jobs, Create(j) PROVE Conflicted' \subseteq Conflicted
    BY <2>2 DEF Create, Conflicted, IInv, TypeOK, RepoTypeOK
  <2> QED BY <1>1, <2>1, <2>2
<1>3. ASSUME \/ \E w \in Workers, j \in Jobs : DeliverTo(w, j)
             \/ \E w \in Workers : ConnectionLost(w) \/ (Stop(w) /\ pc[w] \in Thread)
             \/ UNCHANGED vars
      PROVE  UNCHANGED <<pc, exc, collection>> /\ Conflicted' = Conflicted
  <2>1. UNCHANGED <<rows, pc, exc, collection>>
    BY <1>3 DEF DeliverTo, ConnectionLost, Stop, vars, storeVars, workerVars
  <2> QED BY <1>1, <2>1
<1>4. ASSUME NEW w \in Workers,
             \/ Take(w) \/ TakeStale(w) \/ GetRow(w) \/ Restart(w)
             \/ Settle(w) \/ Crash(w) \/ (Stop(w) /\ pc[w] \notin Thread)
      PROVE  RaceStep(w)
  <2>1. WorkerTypeOK
    BY DEF IInv, TypeOK
  <2>2. UNCHANGED <<rows, collection>>
    BY <1>4 DEF Take, TakeStale, GetRow, Restart, Settle, Crash, Stop, storeVars
  <2>3. /\ \A v \in Workers \ {w} : pc'[v] = pc[v] /\ exc'[v] = exc[v]
        /\ pc'[w] # "create_collection" /\ exc'[w] \in {exc[w], ""}
    BY <1>4, <2>1 DEF Take, TakeStale, GetRow, Restart, Settle, Crash, Stop, Rest, Goto, WorkerTypeOK, Get
  <2> QED BY <1>1, <2>2, <2>3 DEF RaceStep
<1>5. ASSUME NEW e \in late, TakesEffect(e)
      PROVE  /\ late # {} /\ UNCHANGED <<pc, exc>> /\ Conflicted' = Conflicted
             /\ (collection' = "absent" => collection = "absent")
  BY <1>1, <1>5 DEF TakesEffect, Effect, CreateCollection, CreatePayloadIndexes, workerVars
<1> QED BY <1>2, <1>3, <1>4, <1>5, RaceCommit, RaceThread DEF Next, Work, WorkerFault

\* The count.
LEMMA RaceKept ==
    ASSUME IsFiniteSet(Workers), Workers # {}, RaceInv, NEW w \in Workers, RaceStep(w),
           Injected("timeout") => Injected("timeout")'
    PROVE  RaceInv'
<1>1. /\ IsFiniteSet(Workers \ {w}) /\ Cardinality(Workers) \in Nat
      /\ Cardinality(Workers \ {w}) = Cardinality(Workers) - 1
  BY FS_RemoveElement, FS_CardinalityType
<1>2. IsFiniteSet(Conflicted \cup {job[w]}) /\ IsFiniteSet(Racing) /\ IsFiniteSet(Racing \ {w})
  <2>1. Racing \in SUBSET Workers /\ IsFiniteSet(Conflicted)
    BY DEF Racing, RaceInv
  <2> QED BY <2>1, FS_Subset, FS_AddElement, FS_RemoveElement
<1>3. IsFiniteSet(Conflicted') /\ IsFiniteSet(Racing')
  <2>1. Conflicted' \in SUBSET (Conflicted \cup {job[w]}) /\ Racing' \in SUBSET Workers
    BY DEF RaceStep, Racing
  <2> QED BY <1>2, <2>1, FS_Subset
<1>4. /\ Cardinality(Conflicted) \in Nat /\ Cardinality(Conflicted') \in Nat
      /\ Cardinality(Racing) \in Nat /\ Cardinality(Racing') \in Nat
  BY <1>2, <1>3, FS_CardinalityType DEF RaceInv
<1>9. Winner \in {0, 1} /\ Winner' \in {0, 1} /\ Winner' <= Winner
  BY DEF Winner
<1>5. CASE collection = "absent" /\ collection' = "absent"
  BY <1>3, <1>5 DEF RaceInv, RaceStep
<1>6. CASE collection = "absent" /\ collection' # "absent"
  <2>1. Conflicted' = {} /\ Cardinality(Conflicted') = 0
    <3>1. Conflicted' = {}
      BY <1>6 DEF RaceInv, RaceStep
    <3> QED BY <3>1, FS_EmptySet
  <2>2. Racing' \in SUBSET (Workers \ {w})
    BY <1>6 DEF RaceInv, RaceStep, Racing
  <2>3. Cardinality(Racing') <= Cardinality(Workers) - 1
    BY <1>1, <2>2, FS_Subset
  <2> QED BY <1>1, <1>3, <1>4, <1>6, <1>9, <2>1, <2>3 DEF RaceInv
<1>7. CASE collection # "absent" /\ Conflicted' \subseteq Conflicted
  <2>1. Racing' \in SUBSET Racing /\ Conflicted' \in SUBSET Conflicted /\ collection' # "absent"
    BY <1>7 DEF RaceStep, Racing
  <2>2. Cardinality(Racing') <= Cardinality(Racing)
    BY <1>2, <2>1, FS_Subset
  <2>3. Cardinality(Conflicted') <= Cardinality(Conflicted)
    BY <2>1, FS_Subset DEF RaceInv
  <2> QED BY <1>1, <1>3, <1>4, <1>7, <1>9, <2>1, <2>2, <2>3 DEF RaceInv
<1>8. CASE collection # "absent" /\ ~(Conflicted' \subseteq Conflicted)
  <2>1. /\ Racing' \in SUBSET (Racing \ {w}) /\ w \in Racing
        /\ Conflicted' \in SUBSET (Conflicted \cup {job[w]}) /\ collection' # "absent"
    BY <1>8 DEF RaceStep, Racing
  <2>2. Cardinality(Racing') <= Cardinality(Racing) - 1
    <3>1. Cardinality(Racing \ {w}) = Cardinality(Racing) - 1
      BY <1>2, <2>1, FS_RemoveElement
    <3> QED BY <1>2, <2>1, <3>1, FS_Subset
  <2>3. Cardinality(Conflicted') <= Cardinality(Conflicted) + 1
    <3>1. Cardinality(Conflicted \cup {job[w]}) \in {Cardinality(Conflicted), Cardinality(Conflicted) + 1}
      BY FS_AddElement DEF RaceInv
    <3>2. Cardinality(Conflicted') <= Cardinality(Conflicted \cup {job[w]})
      BY <1>2, <2>1, FS_Subset
    <3> QED BY <1>4, <3>1, <3>2
  <2> QED BY <1>1, <1>3, <1>4, <1>8, <1>9, <2>1, <2>2, <2>3 DEF RaceInv
<1> QED BY <1>5, <1>6, <1>7, <1>8

LEMMA RaceNext ==
    ASSUME IsFiniteSet(Workers), Workers # {}
    PROVE  IInv /\ LateTold /\ RaceInv /\ [Next]_vars => RaceInv'
<1> SUFFICES ASSUME IInv, LateTold, RaceInv, [Next]_vars PROVE RaceInv'
  OBVIOUS
<1>2. Injected("timeout") => Injected("timeout")'
  BY FaultsGrow DEF Faults
<1>1. ASSUME UNCHANGED <<pc, exc, collection>>, Conflicted' \subseteq Conflicted
      PROVE  \E w \in Workers : RaceStep(w)
  BY <1>1 DEF RaceStep
<1>3. ASSUME late # {}, UNCHANGED <<pc, exc>>, Conflicted' = Conflicted,
             collection' = "absent" => collection = "absent"
      PROVE  RaceInv'
  <2>1. Winner = 0 /\ Winner' = 0
    BY <1>2, <1>3 DEF LateTold, Winner
  <2>2. Racing' = Racing /\ Racing \in SUBSET Workers
    BY <1>3 DEF Racing
  <2>3. Cardinality(Racing) <= Cardinality(Workers)
        /\ Cardinality(Racing) \in Nat /\ Cardinality(Workers) \in Nat
    BY <2>2, FS_Subset, FS_CardinalityType
  <2>4. Conflicted = {} => Cardinality(Conflicted) = 0
    BY FS_EmptySet
  <2>5. IsFiniteSet(Conflicted')
    BY <1>3 DEF RaceInv
  <2>6. CASE collection = "absent"
    BY <1>3, <2>1, <2>2, <2>3, <2>4, <2>5, <2>6 DEF RaceInv
  <2>7. CASE collection # "absent"
    BY <1>3, <2>1, <2>2, <2>5, <2>7 DEF RaceInv
  <2> QED BY <2>6, <2>7
<1> QED BY <1>1, <1>2, <1>3, RaceOther, RaceKept

LEMMA AlwaysRace ==
    ASSUME IsFiniteSet(Workers), Workers # {}
    PROVE  Spec => []RaceInv
<1>1. Init => RaceInv
  <2> SUFFICES ASSUME Init PROVE RaceInv
    OBVIOUS
  <2>1. \A j \in Jobs : rows[j] = Absent /\ Absent.error = ""
    BY DEF Init, RepoInit, Absent
  <2>2. Conflicted = {}
    BY <2>1 DEF Conflicted
  <2>3. collection = "absent" /\ \A w \in Workers : exc[w] # "conflict"
    BY DEF Init, StoreInit
  <2> QED BY <2>2, <2>3, FS_EmptySet DEF RaceInv
<1> QED BY <1>1, RaceNext, AlwaysIInv, AlwaysLateTold, PTL DEF Spec

\* For any number of workers: fewer jobs than there are workers, or as many once
\* a call has timed out, fail because the collection was there already, whatever
\* else fails and however often jobs are delivered (qdrant.py:40-43).
THEOREM FewLoseTheRace ==
    ASSUME IsFiniteSet(Workers), Workers # {}
    PROVE  Spec => []ConflictsAreFew
<1>1. RaceInv => ConflictsAreFew
  <2> SUFFICES ASSUME RaceInv PROVE ConflictsAreFew
    OBVIOUS
  <2>1. Racing \in SUBSET Workers
    BY DEF Racing
  <2>2. /\ Cardinality(Racing) \in Nat /\ Cardinality(Conflicted) \in Nat
        /\ Cardinality(Workers) \in Nat
    BY <2>1, FS_Subset, FS_CardinalityType DEF RaceInv
  <2>3. Cardinality(Workers) # 0
    BY FS_EmptySet
  <2>4. Conflicted = {} => Cardinality(Conflicted) = 0
    BY FS_EmptySet
  <2> QED BY <2>2, <2>3, <2>4 DEF RaceInv, ConflictsAreFew, Winner
<1> QED BY <1>1, AlwaysRace, PTL
-----------------------------------------------------------------------------
(* Few jobs are lost.  A published job that is not finished has a message   *)
(* that a worker is still to take, or a worker that is going to finish it,  *)
(* or one of the faults that can cost a job has cost this one.              *)

\* What became of the message of a worker at work, and why.
Attending(w) ==
    /\ pc[w] \in Busy => delivery[w] # "none"
    /\ delivery[w] = "lost" => Injected("connection")
    /\ delivery[w] = "cancelled" => Injected("stop")
    /\ backlog[w] # <<>> => Injected("connection")

AttendInv == \A w \in Workers : Attending(w)

Waiting(j) == j \in ready \/ \E w \in Workers : channel[w] = j /\ delivery[w] # "held"

\* w is going to write a final status: what its session has loaded, which it
\* would not write again, is not that status.
Responsible(w, j) ==
    /\ job[w] = j /\ pc[w] \in Busy \ {"settle"} /\ delivery[w] # "cancelled"
    /\ pc[w] = "commit_succeeded" => loaded[w].status # "SUCCEEDED"
    /\ pc[w] = "commit_failed" => loaded[w].status # "FAILED"

Alive(j) == Finished(j) \/ Waiting(j) \/ \E w \in Workers : Responsible(w, j)
Dead     == {j \in published : ~Alive(j)}

\* What the faults so far may have cost.
Toll == faults["database"] + faults["stop"]
        + (IF Injected("connection") THEN faults["crash"] ELSE 0)

DeadInv == IsFiniteSet(Dead) /\ Cardinality(Dead) <= Toll

\* A step costs no job, or it costs the one its worker was at and is paid for.
Spares   == Dead' \subseteq Dead
Costs(w) == Dead' \subseteq Dead \cup {job[w]} /\ Toll' >= Toll + 1

LEMMA TollGrows ==
    ASSUME IInv, [Next]_vars
    PROVE  /\ Toll \in Nat /\ Toll' \in Nat /\ Toll' >= Toll
           /\ \/ Strike("database") \/ Strike("stop")
              \/ Strike("crash") /\ Injected("connection")
              => Toll' >= Toll + 1
<1>1. faults \in [Faults -> Nat] /\ {"database", "stop", "crash", "connection"} \subseteq Faults
  BY DEF IInv, TypeOK, Faults
<1>2. CASE UNCHANGED faults
  <2>1. ~Strike("database") /\ ~Strike("stop") /\ ~Strike("crash")
    BY <1>1, <1>2 DEF Strike
  <2> QED BY <1>1, <1>2, <2>1 DEF Toll, Injected
<1>3. ASSUME NEW f \in Faults, Strike(f)
      PROVE  /\ Toll \in Nat /\ Toll' \in Nat /\ Toll' >= Toll
             /\ f = "database" \/ f = "stop" \/ (f = "crash" /\ Injected("connection"))
                => Toll' >= Toll + 1
  <2>1. /\ faults'[f] = faults[f] + 1
        /\ \A g \in Faults \ {f} : faults'[g] = faults[g]
    BY <1>1, <1>3 DEF Strike
  <2> QED BY <1>1, <2>1 DEF Toll, Injected
<1>4. ASSUME NEW f \in {"database", "stop", "crash"}, Strike(f) PROVE f \in Faults
  BY <1>1, <1>4
<1> QED BY <1>2, <1>3, <1>4, FaultStep

\* A step of w keeps a job alive if what w has to do with the job is kept.
LEMMA AliveKept ==
    ASSUME IInv, [Next]_vars, NEW w \in Workers, OthersKeep(w),
           \A v \in Workers \ {w} : channel'[v] = channel[v],
           NEW j \in published, Alive(j),
           j \in ready => Alive(j)',
           channel[w] = j /\ delivery[w] # "held" => Alive(j)',
           Responsible(w, j) => Alive(j)',
           Finished(j) => Alive(j)'
    PROVE  Alive(j)'
<1>2. ASSUME NEW v \in Workers \ {w}, channel[v] = j, delivery[v] # "held" PROVE Alive(j)'
  BY <1>2 DEF OthersKeep, Alive, Waiting
<1>3. ASSUME NEW v \in Workers \ {w}, Responsible(v, j) PROVE Alive(j)'
  BY <1>3 DEF OthersKeep, Alive, Responsible
<1> QED BY <1>2, <1>3 DEF Alive, Waiting

LEMMA AttendingKept ==
    ASSUME IInv, [Next]_vars, AttendInv, NEW w \in Workers, OthersKeep(w),
           \A v \in Workers : backlog'[v] \in {backlog[v], <<>>},
           \/ pc'[w] \notin Busy /\ delivery'[w] = "none"
           \/ pc[w] \in Busy /\ delivery'[w] = delivery[w]
           \/ delivery'[w] = "held"
    PROVE  AttendInv'
<1>1. Attending(w)'
  BY FaultsGrow DEF AttendInv, Attending, Faults
<1>2. ASSUME NEW v \in Workers \ {w} PROVE Attending(v)'
  BY <1>2, FaultsGrow DEF AttendInv, Attending, Faults, OthersKeep
<1> QED BY <1>1, <1>2 DEF AttendInv

LEMMA AliveServer ==
    ASSUME IInv, [Next]_vars, AttendInv, NEW j \in Jobs, Server(j)
    PROVE  AttendInv' /\ Spares
<1>1. UNCHANGED <<workerVars, channel, backlog>>
  BY DEF Server, IndexDocument, DeleteDocument, Accept, PublishEnvelope, HandlerFails, Publish, queueVars
<1>2. AttendInv'
  BY <1>1, FaultsGrow DEF AttendInv, Attending, Faults, workerVars
<1>3. UNCHANGED queueVars \/ Publish(j)
  BY DEF Server, IndexDocument, DeleteDocument, Accept, PublishEnvelope, HandlerFails
<1>4. ASSUME NEW k \in published, Alive(k) PROVE Alive(k)'
  <2>1. Finished(k) => Finished(k)'
    <3>1. CASE UNCHANGED rows
      BY <3>1 DEF Finished
    <3>2. CASE Create(j)
      <4>1. k # j
        <5>1. k \in Jobs /\ handler[k] \in {"created", "replied", "failed"}
          BY <1>4 DEF IInv, ServerInv, TypeOK, QueueTypeOK, ServerTypeOK
        <5>2. Absent.status = "ABSENT"
          BY DEF Absent
        <5>3. rows[k].status # "ABSENT"
          BY <5>1 DEF IInv, ServerInv
        <5>4. rows[j] = Absent
          BY <3>2 DEF Create
        <5> QED BY <5>2, <5>3, <5>4
      <4>2. rows'[k] = rows[k]
        BY <1>4, <3>2, <4>1 DEF Create, IInv, TypeOK, RepoTypeOK, QueueTypeOK
      <4> QED BY <4>2 DEF Finished
    <3> QED BY <3>1, <3>2
            DEF Server, IndexDocument, DeleteDocument, Accept, PublishEnvelope, HandlerFails
  <2>2. Waiting(k) => Waiting(k)'
    BY <1>1, <1>3 DEF Waiting, Publish, queueVars, workerVars
  <2>3. \A w \in Workers : Responsible(w, k) => Responsible(w, k)'
    BY <1>1 DEF Responsible, workerVars
  <2> QED BY <1>4, <2>1, <2>2, <2>3 DEF Alive
<1>5. \A k \in published' : k \in published \/ k \in ready'
  BY <1>3 DEF Publish, queueVars
<1>6. \A k \in published' : (k \in published /\ ~Alive(k)) \/ Alive(k)'
  BY <1>4, <1>5 DEF Alive, Waiting
<1> QED BY <1>2, <1>6 DEF Spares, Dead

LEMMA AliveLoop ==
    ASSUME IInv, [Next]_vars, AttendInv, NEW w \in Workers,
           \/ Take(w) \/ TakeStale(w) \/ Settle(w) \/ Restart(w)
           \/ \E j \in Jobs : DeliverTo(w, j)
    PROVE  AttendInv' /\ Spares
<1>1. WorkerTypeOK /\ WorkerShape(w) /\ QueueTypeOK /\ {"idle", "get_running"} \subseteq Labels
  BY DEF IInv, TypeOK, WorkerInv, Labels, Busy, Get
<1>2. CASE Take(w)
  <2>1. /\ pc[w] = "idle" /\ pc'[w] = "get_running" /\ job'[w] = channel[w] /\ delivery'[w] = "held"
        /\ OthersKeep(w) /\ UNCHANGED <<rows, queueVars>>
    <3>1. pc'[w] = "get_running" /\ \A v \in Workers \ {w} : pc'[v] = pc[v]
      BY <1>1, <1>2, GotoEffect DEF Take
    <3> QED BY <1>1, <1>2, <3>1 DEF Take, WorkerTypeOK, OthersKeep
  <2>2. AttendInv'
    BY <2>1, AttendingKept DEF queueVars
  <2>3. ASSUME NEW j \in published, Alive(j) PROVE Alive(j)'
    <3>1. j \in ready => Waiting(j)'
      BY <2>1 DEF Waiting, queueVars
    <3>2. channel[w] = j => Responsible(w, j)'
      BY <2>1 DEF Responsible, Busy, Get
    <3>3. ~Responsible(w, j)
      BY <2>1 DEF Responsible, Busy, Thread, Get, Commit
    <3>4. Finished(j) => Finished(j)'
      BY <2>1 DEF Finished
    <3>5. \A v \in Workers \ {w} : channel'[v] = channel[v]
      BY <2>1 DEF queueVars
    <3> QED BY <2>1, <2>3, <3>1, <3>2, <3>3, <3>4, <3>5, AliveKept DEF Alive
  <2> QED BY <2>1, <2>2, <2>3 DEF Spares, Dead, queueVars
<1>3. CASE TakeStale(w)
  <2>1. /\ pc[w] = "idle" /\ pc'[w] = "get_running" /\ delivery'[w] = "lost"
        /\ backlog[w] # <<>> /\ \A v \in Workers \ {w} : backlog'[v] = backlog[v]
        /\ OthersKeep(w) /\ UNCHANGED <<rows, published, ready, channel>>
    <3>1. pc'[w] = "get_running" /\ \A v \in Workers \ {w} : pc'[v] = pc[v]
      BY <1>1, <1>3, GotoEffect DEF TakeStale
    <3> QED BY <1>1, <1>3, <3>1 DEF TakeStale, WorkerTypeOK, OthersKeep, QueueTypeOK
  <2>2. AttendInv'
    <3>1. Injected("connection")'
      BY <2>1, FaultsGrow DEF AttendInv, Attending, Faults
    <3>2. Attending(w)'
      BY <2>1, <3>1 DEF Attending
    <3>3. ASSUME NEW v \in Workers \ {w} PROVE Attending(v)'
      BY <2>1, <3>3, FaultsGrow DEF AttendInv, Attending, Faults, OthersKeep
    <3> QED BY <3>2, <3>3 DEF AttendInv
  <2>3. ASSUME NEW j \in published, Alive(j) PROVE Alive(j)'
    <3>1. Waiting(j) => Waiting(j)'
      BY <2>1 DEF Waiting, OthersKeep
    <3>2. ~Responsible(w, j)
      BY <2>1 DEF Responsible, Busy, Thread, Get, Commit
    <3>3. Finished(j) => Finished(j)'
      BY <2>1 DEF Finished
    <3> QED BY <2>1, <2>3, <3>1, <3>2, <3>3, AliveKept DEF Alive, Waiting
  <2> QED BY <2>1, <2>2, <2>3 DEF Spares, Dead
<1>4. CASE Settle(w)
  <2>1. /\ OthersKeep(w) /\ UNCHANGED <<rows, published>> /\ pc[w] = "settle"
        /\ pc'[w] \in {"idle", "down"} /\ job'[w] = None /\ delivery'[w] = "none"
        /\ \A v \in Workers \ {w} : channel'[v] = channel[v]
    BY <1>4, LeaveEffect DEF Settle
  <2>2. ready' = ready /\ backlog' = backlog /\ (delivery[w] # "held" => channel' = channel)
    BY <1>4 DEF Settle, Discard, queueVars
  <2>3. AttendInv'
    BY <2>1, <2>2, AttendingKept DEF Busy, Thread, Get, Commit
  <2>4. ASSUME NEW j \in published, Alive(j) PROVE Alive(j)'
    <3>1. j \in ready => Waiting(j)'
      BY <2>2 DEF Waiting
    <3>2. channel[w] = j /\ delivery[w] # "held" => Waiting(j)'
      BY <2>1, <2>2 DEF Waiting
    <3>3. ~Responsible(w, j)
      BY <2>1 DEF Responsible
    <3>4. Finished(j) => Finished(j)'
      BY <2>1 DEF Finished
    <3> QED BY <2>1, <2>4, <3>1, <3>2, <3>3, <3>4, AliveKept DEF Alive
  <2> QED BY <2>1, <2>3, <2>4 DEF Spares, Dead
<1>5. CASE Restart(w)
  <2>1. /\ pc[w] = "down" /\ pc'[w] = "idle" /\ UNCHANGED <<rows, queueVars, job, delivery>> /\ OthersKeep(w)
    <3>1. pc'[w] = "idle" /\ \A v \in Workers \ {w} : pc'[v] = pc[v]
      BY <1>1, <1>5, GotoEffect DEF Restart
    <3> QED BY <1>5, <3>1 DEF Restart, OthersKeep
  <2>2. pc[w] \notin Busy /\ pc'[w] \notin Busy
    BY <2>1 DEF Busy, Thread, Get, Commit
  <2>3. AttendInv'
    BY <1>1, <2>1, <2>2, AttendingKept DEF WorkerShape, queueVars
  <2>4. ASSUME NEW j \in published, Alive(j) PROVE Alive(j)'
    <3>1. Waiting(j) => Waiting(j)'
      BY <2>1 DEF Waiting, queueVars
    <3>2. ~Responsible(w, j)
      BY <2>2 DEF Responsible
    <3>3. Finished(j) => Finished(j)'
      BY <2>1 DEF Finished
    <3>4. \A v \in Workers \ {w} : channel'[v] = channel[v]
      BY <2>1 DEF queueVars
    <3> QED BY <2>1, <2>4, <3>1, <3>2, <3>3, <3>4, AliveKept DEF Alive, Waiting
  <2> QED BY <2>1, <2>3, <2>4 DEF Spares, Dead, queueVars
<1>6. ASSUME NEW k \in Jobs, DeliverTo(w, k) PROVE AttendInv' /\ Spares
  <2>1. /\ UNCHANGED <<rows, published, backlog, pc, job, delivery, loaded, exc>>
        /\ channel[w] = None /\ ready' = ready \ {k} /\ channel' = [channel EXCEPT ![w] = k]
    BY <1>6 DEF DeliverTo, Deliver, workerVars
  <2>2. AttendInv'
    BY <2>1, FaultsGrow DEF AttendInv, Attending, Faults
  <2>3. delivery[w] # "held"
    <3>1. delivery[w] = "held" => job[w] \in Jobs
      BY <1>1, BusyJob DEF WorkerShape
    <3> QED BY <1>1, <2>1, <3>1, NoneIsNoName DEF WorkerShape
  <2>4. ASSUME NEW j \in published, Alive(j) PROVE Alive(j)'
    <3>1. Waiting(j) => Waiting(j)'
      <4>1. channel'[w] = k /\ \A v \in Workers \ {w} : channel'[v] = channel[v]
        BY <1>1, <2>1 DEF QueueTypeOK
      <4>2. CASE j = k
        BY <2>1, <2>3, <4>1, <4>2 DEF Waiting
      <4>3. CASE j # k /\ j \in ready
        BY <2>1, <4>3 DEF Waiting
      <4>4. ASSUME NEW v \in Workers, channel[v] = j, delivery[v] # "held" PROVE Waiting(j)'
        <5>1. v # w
          BY <1>1, <2>1, <4>4, NoneIsNoName DEF QueueTypeOK
        <5> QED BY <2>1, <4>1, <4>4, <5>1 DEF Waiting
      <4> QED BY <4>2, <4>3, <4>4 DEF Waiting
    <3>2. \A v \in Workers : Responsible(v, j) => Responsible(v, j)'
      BY <2>1 DEF Responsible
    <3>3. Finished(j) => Finished(j)'
      BY <2>1 DEF Finished
    <3> QED BY <2>4, <3>1, <3>2, <3>3 DEF Alive
  <2> QED BY <2>1, <2>2, <2>4 DEF Spares, Dead
<1> QED BY <1>2, <1>3, <1>4, <1>5, <1>6

LEMMA AliveRows ==
    ASSUME IInv, [Next]_vars, AttendInv, NEW w \in Workers,
           GetRow(w) \/ MarkRunning(w) \/ MarkSucceeded(w) \/ MarkFailed(w) \/ DatabaseFails(w)
    PROVE  AttendInv' /\ (Spares \/ Costs(w))
<1>1. WorkerTypeOK /\ rows \in [Jobs -> Row] /\ Get \cup Commit \subseteq Busy
  BY DEF IInv, TypeOK, RepoTypeOK, Busy
<1>2. CASE GetRow(w)
  <2>1. PICK label \in Commit :
            /\ Goto(w, label)
            /\ label = "commit_succeeded" => pc[w] = "get_succeeded"
            /\ label = "commit_failed" => pc[w] = "get_failed"
    BY <1>2 DEF GetRow, Get, Commit
  <2>2. /\ pc'[w] = label /\ OthersKeep(w) /\ pc[w] \in Get /\ loaded'[w] = rows[job[w]]
        /\ UNCHANGED <<rows, queueVars, job, delivery>>
    <3>1. pc'[w] = label /\ \A v \in Workers \ {w} : pc'[v] = pc[v]
      BY <1>1, <2>1, GotoEffect DEF Labels
    <3> QED BY <1>1, <1>2, <3>1 DEF GetRow, OthersKeep, WorkerTypeOK
  <2>3. AttendInv'
    BY <1>1, <2>2, AttendingKept DEF queueVars
  <2>4. ASSUME NEW j \in published, Alive(j) PROVE Alive(j)'
    <3>1. Waiting(j) => Waiting(j)'
      BY <2>2 DEF Waiting, queueVars
    <3>2. Finished(j) => Finished(j)'
      BY <2>2 DEF Finished
    <3>3. Responsible(w, j) => Responsible(w, j)' \/ Finished(j)
      BY <1>1, <2>2 DEF Responsible, Finished, Busy, Commit
    <3>4. \A v \in Workers \ {w} : channel'[v] = channel[v]
      BY <2>2 DEF queueVars
    <3> QED BY <2>2, <2>4, <3>1, <3>2, <3>3, <3>4, AliveKept DEF Alive, Waiting
  <2> QED BY <2>2, <2>3, <2>4 DEF Spares, Dead, queueVars
<1>3. ASSUME MarkRunning(w) \/ MarkSucceeded(w) \/ MarkFailed(w) \/ DatabaseFails(w)
      PROVE  /\ pc[w] \in Commit /\ UNCHANGED queueVars /\ OthersKeep(w)
             /\ job'[w] = job[w] /\ delivery'[w] = delivery[w]
             /\ AttendInv'
             /\ \A j \in published \ {job[w]} : Alive(j) => Alive(j)'
  <2>1. /\ pc[w] \in Commit /\ UNCHANGED queueVars /\ OthersKeep(w)
        /\ job'[w] = job[w] /\ delivery'[w] = delivery[w]
    BY <1>3, CommitEffect
  <2>2. AttendInv'
    BY <1>1, <2>1, AttendingKept DEF queueVars
  <2>3. job[w] \in Jobs
    BY <1>1, <2>1, BusyJob
  <2>4. ASSUME NEW j \in published \ {job[w]}, Alive(j) PROVE Alive(j)'
    <3>1. j \in Jobs
      BY DEF IInv, TypeOK, QueueTypeOK
    <3>2. rows'[j] = rows[j]
      BY <1>1, <1>3, <2>3, <3>1
         DEF MarkRunning, MarkSucceeded, MarkFailed, DatabaseFails, CommitRow, Transition
    <3>3. ~Responsible(w, j)
      BY DEF Responsible
    <3>4. Finished(j) => Finished(j)'
      BY <3>2 DEF Finished
    <3>5. Waiting(j) => Waiting(j)'
      BY <2>1 DEF Waiting, queueVars, OthersKeep
    <3> QED BY <2>1, <2>4, <3>3, <3>4, <3>5, AliveKept DEF Alive, Waiting, queueVars
  <2> QED BY <2>1, <2>2, <2>4
<1>4. CASE DatabaseFails(w)
  <2>1. Toll' >= Toll + 1
    BY <1>4, TollGrows DEF DatabaseFails
  <2> QED BY <1>3, <1>4, <2>1 DEF Costs, Dead, queueVars
<1>5. CASE MarkRunning(w) \/ MarkSucceeded(w) \/ MarkFailed(w)
  <2>1. job[w] \in Jobs /\ job[w] \in published
    BY <1>1, <1>3, <1>5, BusyJob
  <2>2. ASSUME NEW j \in published, j = job[w], Alive(j) PROVE Alive(j)'
    <3>1. Waiting(j) => Waiting(j)'
      BY <1>3, <1>5 DEF Waiting, queueVars, OthersKeep
    <3>2. CASE MarkRunning(w)
      <4>1. pc'[w] \in {"extract", "count"}
        BY <3>2, CommitEffect
      <4>2. delivery[w] # "cancelled"
        BY <1>3, <1>5 DEF IInv, WorkerInv, WorkerShape, Commit, Thread
      <4>3. Responsible(w, j)'
        BY <1>3, <1>5, <2>2, <4>1, <4>2 DEF Responsible, Busy, Thread
      <4> QED BY <4>3 DEF Alive
    <3>3. CASE MarkSucceeded(w)
      <4>1. rows'[j].status = Column(loaded[w].status, "SUCCEEDED", rows[j].status)
        BY <1>1, <2>1, <2>2, <3>3 DEF MarkSucceeded, CommitRow, Transition, Succeeded
      <4>2. Finished(j) \/ Responsible(w, j) => Finished(j)'
        BY <2>2, <3>3, <4>1 DEF Finished, Responsible, MarkSucceeded, Column
      <4> QED BY <1>3, <1>5, <2>2, <3>1, <4>2, AliveKept DEF Alive, Waiting, queueVars
    <3>4. CASE MarkFailed(w)
      <4>1. rows'[j].status = Column(loaded[w].status, "FAILED", rows[j].status)
        BY <1>1, <2>1, <2>2, <3>4 DEF MarkFailed, CommitRow, Transition, Failed
      <4>2. Finished(j) \/ Responsible(w, j) => Finished(j)'
        BY <2>2, <3>4, <4>1 DEF Finished, Responsible, MarkFailed, Column
      <4> QED BY <1>3, <1>5, <2>2, <3>1, <4>2, AliveKept DEF Alive, Waiting, queueVars
    <3> QED BY <1>5, <3>2, <3>3, <3>4
  <2> QED BY <1>3, <1>5, <2>2 DEF Spares, Dead, queueVars
<1> QED BY <1>2, <1>4, <1>5

LEMMA AliveWork ==
    ASSUME IInv, [Next]_vars, AttendInv, NEW w \in Workers,
           \/ Extract(w) \/ GetCollections(w) \/ CreateMissing(w) \/ CreateConflicts(w)
           \/ CreateIndexes(w) \/ UpsertChunks(w) \/ Count(w) \/ DeletePoints(w)
           \/ BackendFails(w) \/ CallTimesOut(w)
    PROVE  AttendInv' /\ Spares
<1>1. /\ pc[w] \in Busy /\ UNCHANGED <<rows, queueVars>> /\ OthersKeep(w)
      /\ \/ delivery[w] = "cancelled" /\ pc'[w] = "down" /\ delivery'[w] = "none"
         \/ /\ pc'[w] \in Thread \cup {"get_succeeded", "get_failed"}
            /\ job'[w] = job[w] /\ delivery'[w] = delivery[w]
  BY ThreadEffect DEF Busy
<1>2. AttendInv'
  BY <1>1, AttendingKept DEF Busy, Thread, Get, Commit, queueVars
<1>3. ASSUME NEW j \in published, Alive(j) PROVE Alive(j)'
  <2>1. channel[w] = j /\ delivery[w] # "held" => Waiting(j)'
    BY <1>1 DEF Waiting, queueVars
  <2>2. Finished(j) => Finished(j)'
    BY <1>1 DEF Finished
  <2>3. Responsible(w, j) => Responsible(w, j)'
    BY <1>1 DEF Responsible, Busy, Thread, Get, Commit
  <2>4. j \in ready => Waiting(j)'
    BY <1>1 DEF Waiting, queueVars
  <2>5. \A v \in Workers \ {w} : channel'[v] = channel[v]
    BY <1>1 DEF queueVars
  <2> QED BY <1>1, <1>3, <2>1, <2>2, <2>3, <2>4, <2>5, AliveKept DEF Alive
<1> QED BY <1>1, <1>2, <1>3 DEF Spares, Dead, queueVars

LEMMA AliveFaults ==
    ASSUME IInv, [Next]_vars, AttendInv, NEW w \in Workers, Crash(w) \/ Stop(w) \/ ConnectionLost(w)
    PROVE  AttendInv' /\ (Spares \/ Costs(w))
<1>1. WorkerTypeOK /\ WorkerShape(w) /\ QueueTypeOK /\ faults \in [Faults -> Nat]
  BY DEF IInv, TypeOK, WorkerInv
<1>2. {"crash", "stop", "connection"} \subseteq Faults
  BY DEF Faults
<1>3. /\ published' = published
      /\ Crash(w) \/ Stop(w) => \A v \in Workers : backlog'[v] \in {backlog[v], <<>>}
  BY <1>1 DEF Crash, Stop, ConnectionLost, Discard, Requeue, Reconnect, PutBack, QueueTypeOK
<1>4. ASSUME Crash(w) \/ (Stop(w) /\ pc[w] \notin Thread)
      PROVE  /\ OthersKeep(w) /\ UNCHANGED rows
             /\ \A v \in Workers \ {w} : channel'[v] = channel[v]
             /\ AttendInv'
  <2>1. /\ OthersKeep(w) /\ UNCHANGED rows
        /\ pc'[w] \in {"idle", "down"} /\ job'[w] = None /\ delivery'[w] = "none"
        /\ \A v \in Workers \ {w} : channel'[v] = channel[v]
    BY <1>4, LeaveEffect
  <2>2. pc'[w] \notin Busy
    BY <2>1 DEF Busy, Thread, Get, Commit
  <2> QED BY <1>3, <1>4, <2>1, <2>2, AttendingKept
<1>5. ASSUME NEW j \in published, j \in ready' PROVE Alive(j)'
  BY <1>5 DEF Alive, Waiting
<1>6. ASSUME NEW j \in published PROVE j # None
  BY NoneIsNoName DEF IInv, TypeOK, QueueTypeOK
<1>7. CASE Crash(w)
  <2>1. ready' = ready \cup ({channel[w]} \ {None})
    BY <1>7 DEF Crash, Requeue, PutBack
  <2>2. ASSUME NEW j \in published, Alive(j), Responsible(w, j) => Alive(j)' PROVE Alive(j)'
    <3>1. j \in ready \/ channel[w] = j => Alive(j)'
      BY <1>5, <1>6, <2>1
    <3>2. Finished(j) => Finished(j)'
      BY <1>4, <1>7 DEF Finished
    <3> QED BY <1>4, <1>7, <2>2, <3>1, <3>2, AliveKept DEF Alive
  <2>3. CASE delivery[w] = "lost"
    <3>1. Injected("connection")
      BY <2>3 DEF AttendInv, Attending
    <3>2. Toll' >= Toll + 1
      BY <1>7, <3>1, TollGrows DEF Crash
    <3>3. \A j \in published \ {job[w]} : ~Responsible(w, j)
      BY DEF Responsible
    <3>4. Costs(w)
      BY <1>3, <2>2, <3>2, <3>3 DEF Costs, Dead
    <3> QED BY <1>4, <1>7, <3>4
  <2>4. CASE delivery[w] # "lost"
    <3>1. ASSUME NEW j \in published, Responsible(w, j) PROVE Alive(j)'
      <4>1. delivery[w] = "held"
        BY <1>1, <2>4, <3>1 DEF Responsible, AttendInv, Attending, WorkerTypeOK
      <4>2. channel[w] = j
        BY <1>1, <3>1, <4>1 DEF WorkerShape, Responsible
      <4> QED BY <1>5, <1>6, <2>1, <4>2
    <3> QED BY <1>3, <1>4, <1>7, <2>2, <3>1 DEF Spares, Dead
  <2> QED BY <2>3, <2>4
<1>8. CASE Stop(w)
  <2>1. Toll' >= Toll + 1
    BY <1>8, TollGrows DEF Stop
  <2>2. /\ OthersKeep(w) /\ UNCHANGED rows
        /\ \A v \in Workers \ {w} : channel'[v] = channel[v]
        /\ AttendInv'
    <3>1. CASE pc[w] \notin Thread
      BY <1>4, <1>8, <3>1
    <3>2. CASE pc[w] \in Thread
      <4>1. UNCHANGED <<rows, pc, job, loaded, exc>> /\ delivery' = [delivery EXCEPT ![w] = "cancelled"]
        BY <1>8, <3>2 DEF Stop
      <4>2. OthersKeep(w) /\ delivery'[w] = "cancelled"
        BY <1>1, <4>1 DEF OthersKeep, WorkerTypeOK
      <4>3. \A v \in Workers \ {w} : channel'[v] = channel[v]
        BY <1>1, <1>8 DEF Stop, Discard, Requeue, PutBack, QueueTypeOK
      <4>4. Injected("stop")'
        BY <1>1, <1>2, <1>8, Struck DEF Stop
      <4>5. ASSUME NEW v \in Workers PROVE Attending(v)'
        <5>1. Attending(v) /\ backlog'[v] \in {backlog[v], <<>>}
          BY <1>3, <1>8 DEF AttendInv
        <5> QED BY <1>2, <4>1, <4>2, <4>4, <5>1, FaultsGrow DEF Attending, OthersKeep
      <4> QED BY <4>1, <4>2, <4>3, <4>5 DEF AttendInv
    <3> QED BY <3>1, <3>2
  <2>3. \/ delivery[w] = "held" /\ ready' = ready
        \/ ready' = ready \cup ({channel[w]} \ {None})
    BY <1>8 DEF Stop, Discard, Requeue, PutBack
  <2>4. ASSUME NEW j \in published \ {job[w]}, Alive(j) PROVE Alive(j)'
    <3>1. j \in ready \/ (channel[w] = j /\ delivery[w] # "held") => Alive(j)'
      BY <1>5, <1>6, <2>3
    <3>2. Finished(j) => Alive(j)'
      BY <2>2 DEF Finished, Alive
    <3>3. ~Responsible(w, j)
      BY DEF Responsible
    <3> QED BY <2>2, <2>4, <3>1, <3>2, <3>3, AliveKept
  <2> QED BY <1>3, <2>1, <2>2, <2>4 DEF Costs, Dead
<1>9. CASE ConnectionLost(w)
  <2>1. Injected("connection")'
    BY <1>1, <1>2, <1>9, Struck DEF ConnectionLost
  <2>2. /\ UNCHANGED <<rows, pc, job, loaded>> /\ ready' = ready \cup ({channel[w]} \ {None})
        /\ delivery' = [delivery EXCEPT ![w] = IF @ = "held" THEN "lost" ELSE @]
        /\ \A v \in Workers \ {w} : channel'[v] = channel[v] /\ backlog'[v] = backlog[v]
    BY <1>1, <1>9 DEF ConnectionLost, Reconnect, PutBack, QueueTypeOK
  <2>3. ASSUME NEW v \in Workers PROVE Attending(v)'
    BY <1>1, <1>2, <2>1, <2>2, FaultsGrow DEF AttendInv, Attending, WorkerTypeOK
  <2>4. ASSUME NEW j \in published, Alive(j) PROVE Alive(j)'
    <3>1. ASSUME NEW v \in Workers, channel[v] = j, delivery[v] # "held" PROVE Waiting(j)'
      BY <1>1, <1>6, <2>2, <3>1 DEF Waiting, WorkerTypeOK
    <3>2. Waiting(j) => Waiting(j)'
      BY <2>2, <3>1 DEF Waiting
    <3>3. \A v \in Workers : Responsible(v, j) => Responsible(v, j)'
      BY <1>1, <2>2 DEF Responsible, WorkerTypeOK
    <3>4. Finished(j) => Finished(j)'
      BY <2>2 DEF Finished
    <3> QED BY <2>4, <3>2, <3>3, <3>4 DEF Alive
  <2> QED BY <1>3, <2>3, <2>4 DEF AttendInv, Spares, Dead
<1> QED BY <1>7, <1>8, <1>9

LEMMA AliveNext ==
    ASSUME IInv, AttendInv, [Next]_vars
    PROVE  AttendInv' /\ (Spares \/ \E w \in Workers : Costs(w))
<1>1. CASE \E j \in Jobs : Server(j)
  BY <1>1, AliveServer
<1>2. CASE \E w \in Workers, j \in Jobs : DeliverTo(w, j)
  BY <1>2, AliveLoop
<1>3. ASSUME NEW w \in Workers, Work(w) \/ WorkerFault(w) \/ Restart(w)
      PROVE  AttendInv' /\ (Spares \/ Costs(w))
  BY <1>3, AliveLoop, AliveRows, AliveWork, AliveFaults DEF Work, WorkerFault
<1>4. CASE UNCHANGED vars \/ \E e \in late : TakesEffect(e)
  <2>1. UNCHANGED <<rows, queueVars, workerVars, faults>>
    BY <1>4 DEF vars, TakesEffect
  <2> QED BY <2>1 DEF queueVars, workerVars, AttendInv, Attending, Spares, Dead, Alive, Waiting,
                      Responsible, Finished, Injected
<1> QED BY <1>1, <1>2, <1>3, <1>4 DEF Next

LEMMA DeadNext == IInv /\ AttendInv /\ DeadInv /\ [Next]_vars => DeadInv'
<1> SUFFICES ASSUME IInv, AttendInv, DeadInv, [Next]_vars PROVE DeadInv'
  OBVIOUS
<1>1. /\ Toll \in Nat /\ Toll' \in Nat /\ Toll' >= Toll /\ IsFiniteSet(Dead)
      /\ Cardinality(Dead) \in Nat /\ Cardinality(Dead) <= Toll
  BY TollGrows, FS_CardinalityType DEF DeadInv
<1>2. CASE Spares
  <2>1. Dead' \in SUBSET Dead
    BY <1>2 DEF Spares
  <2>2. IsFiniteSet(Dead') /\ Cardinality(Dead') <= Cardinality(Dead) /\ Cardinality(Dead') \in Nat
    BY <1>1, <2>1, FS_Subset, FS_CardinalityType
  <2> QED BY <1>1, <2>2 DEF DeadInv
<1>3. ASSUME NEW w \in Workers, Costs(w) PROVE DeadInv'
  <2>1. /\ IsFiniteSet(Dead \cup {job[w]})
        /\ Cardinality(Dead \cup {job[w]}) \in Nat
        /\ Cardinality(Dead \cup {job[w]}) <= Cardinality(Dead) + 1
    <3>1. /\ IsFiniteSet(Dead \cup {job[w]})
          /\ \/ Cardinality(Dead \cup {job[w]}) = Cardinality(Dead)
             \/ Cardinality(Dead \cup {job[w]}) = Cardinality(Dead) + 1
      BY <1>1, FS_AddElement
    <3> QED BY <1>1, <3>1
  <2>2. Dead' \in SUBSET (Dead \cup {job[w]})
    BY <1>3 DEF Costs
  <2>3. IsFiniteSet(Dead') /\ Cardinality(Dead') <= Cardinality(Dead \cup {job[w]})
        /\ Cardinality(Dead') \in Nat
    BY <2>1, <2>2, FS_Subset, FS_CardinalityType
  <2> QED BY <1>1, <1>3, <2>1, <2>3 DEF DeadInv, Costs
<1> QED BY <1>2, <1>3, AliveNext

LEMMA AlwaysDead == Spec => [](IInv /\ DeadInv)
<1>1. Init => AttendInv
  <2> SUFFICES ASSUME Init, NEW w \in Workers PROVE Attending(w)
    BY DEF AttendInv
  <2>1. pc[w] = "idle" /\ delivery[w] = "none" /\ backlog[w] = <<>>
    BY DEF Init, QueueInit
  <2> QED BY <2>1 DEF Attending, Busy, Thread, Get, Commit
<1>2. Init => DeadInv
  <2> SUFFICES ASSUME Init PROVE DeadInv
    OBVIOUS
  <2>1. Dead = {}
    BY DEF Init, QueueInit, Dead
  <2>2. Toll = 0
    <3>1. {"database", "stop", "connection"} \subseteq Faults
      BY DEF Faults
    <3>2. faults = [f \in Faults |-> 0]
      BY DEF Init
    <3>3. faults["database"] = 0 /\ faults["stop"] = 0 /\ faults["connection"] = 0
      BY <3>1, <3>2
    <3> QED BY <3>3 DEF Toll, Injected
  <2> QED BY <2>1, <2>2, FS_EmptySet DEF DeadInv
<1>3. IInv /\ AttendInv /\ [Next]_vars => AttendInv'
  BY AliveNext
<1> QED BY <1>1, <1>2, <1>3, DeadNext, AlwaysIInv, PTL DEF Spec

LEMMA LostIsDead == LostJobs \subseteq Dead
<1>1. \A j \in published : Waiting(j) => InBroker(j)
  BY DEF Waiting, InBroker
<1>2. \A j \in published, w \in Workers : Responsible(w, j) => AtWork(j)
  BY DEF Responsible, AtWork
<1> QED BY <1>1, <1>2 DEF LostJobs, Dead, Alive

\* For any number of jobs and workers: a job is lost only to a failing commit, to a
\* stop, or to a crash after a lost connection, and each of these costs at most
\* the one job its worker was at (document_worker.py:45-81, rabbitmq.py:60-76).
THEOREM EachFaultCostsOneJob == Spec => []FewJobsAreLost
<1>1. IInv /\ DeadInv => FewJobsAreLost
  <2> SUFFICES ASSUME IInv, DeadInv PROVE FewJobsAreLost
    OBVIOUS
  <2>1. Toll \in Nat
    BY DEF IInv, TypeOK, Toll, Faults
  <2>2. /\ Cardinality(LostJobs) <= Cardinality(Dead)
        /\ Cardinality(LostJobs) \in Nat /\ Cardinality(Dead) \in Nat
    BY LostIsDead, FS_Subset, FS_CardinalityType DEF DeadInv
  <2> QED BY <2>1, <2>2 DEF FewJobsAreLost, DeadInv, Toll
<1> QED BY <1>1, AlwaysDead, PTL

\* For any number of jobs and workers: a published job that is not finished is
\* with the broker or with a worker, unless the code gave its message up
\* (document_worker.py:45-81 and rabbitmq.py, process(requeue=False)).
THEOREM NoJobIsLost == Spec => []NoLostJob
<1>1. IInv /\ DeadInv => NoLostJob
  <2> SUFFICES ASSUME IInv, DeadInv, ~MessageGivenUp PROVE Dead = {}
    BY LostIsDead DEF NoLostJob, LostJobs
  <2>1. Toll = 0
    BY DEF IInv, TypeOK, Toll, Faults, MessageGivenUp, Injected
  <2>2. Cardinality(Dead) = 0
    BY <2>1, FS_CardinalityType DEF DeadInv
  <2> QED BY <2>2, FS_EmptySet DEF DeadInv
<1> QED BY <1>1, AlwaysDead, PTL
-----------------------------------------------------------------------------
(* A job that was never put back.  One worker handles it, once, and nobody  *)
(* writes its row meanwhile.                                                *)

Untaken(j) ==
    j \notin published \/ j \in ready \/ \E w \in Workers : channel[w] = j /\ job[w] # j

\* The row of the job w is at is where w left it.
FirstAttempt(w) ==
    /\ delivery[w] \in {"held", "cancelled"}
    /\ pc[w] \in Commit => loaded[w] = rows[job[w]]
    /\ pc[w] \in {"get_running", "commit_running"} =>
           rows[job[w]].status = "QUEUED" /\ rows[job[w]].error = ""
    /\ pc[w] \in Busy \ {"get_running", "commit_running", "settle"} =>
           /\ rows[job[w]].error = ""
           /\ \/ rows[job[w]].status = "RUNNING"
              \/ /\ rows[job[w]].status = "SUCCEEDED" /\ Injected("database")
                 /\ pc[w] \in {"get_failed", "commit_failed"} /\ exc[w] = "database"

Truthful(j) == rows[j].status = "FAILED" <=> rows[j].error # ""

Once(j) ==
    /\ Truthful(j)
    /\ Untaken(j) => rows[j].status \in {"ABSENT", "QUEUED"} /\ \A w \in Workers : job[w] # j
    /\ \A w \in Workers : job[w] = j => FirstAttempt(w)
    /\ \A v, w \in Workers : job[v] = j /\ job[w] = j => v = w

OnceInv == \A j \in Jobs \ redelivered : Once(j)

\* What a step of w must show of a job: it does not hand it out again, and if w
\* goes on with it, its row is still where w left it.
LEMMA OnceStep ==
    ASSUME IInv, [Next]_vars, NEW w \in Workers, OthersKeep(w), NEW j \in Jobs, Once(j),
           Untaken(j)' => Untaken(j),
           job'[w] = j => job[w] = j /\ FirstAttempt(w)' /\ Truthful(j)',
           job'[w] # j => rows'[j] = rows[j]
    PROVE  Once(j)'
<1>1. job[w] # j => rows'[j] = rows[j]
  OBVIOUS
<1>2. Truthful(j)'
  BY DEF Once, Truthful
<1>3. Untaken(j)' => rows'[j].status \in {"ABSENT", "QUEUED"} /\ \A v \in Workers : job'[v] # j
  BY <1>1 DEF Once, OthersKeep
<1>4. ASSUME NEW v \in Workers, job'[v] = j PROVE FirstAttempt(v)'
  <2>1. CASE v = w
    BY <1>4, <2>1
  <2>2. CASE v # w
    <3>1. job[v] = j /\ FirstAttempt(v) /\ rows'[j] = rows[j]
      BY <1>1, <1>4, <2>2 DEF Once, OthersKeep
    <3> QED BY <1>4, <2>2, <3>1, FaultsGrow DEF FirstAttempt, OthersKeep, Faults
  <2> QED BY <2>1, <2>2
<1>5. \A v \in Workers : job'[v] = j => job[v] = j
  BY DEF OthersKeep
<1> QED BY <1>2, <1>3, <1>4, <1>5 DEF Once

\* The worker variables and the row stay; the job is not handed out again.
LEMMA OnceFrame ==
    ASSUME IInv, [Next]_vars, NEW j \in Jobs, Once(j), UNCHANGED workerVars, rows'[j] = rows[j],
           Untaken(j)' => Untaken(j)
    PROVE  Once(j)'
<1>1. ASSUME NEW v \in Workers, job[v] = j PROVE FirstAttempt(v)'
  <2>1. FirstAttempt(v)
    BY <1>1 DEF Once
  <2> QED BY <1>1, <2>1, FaultsGrow DEF FirstAttempt, workerVars, Faults
<1> QED BY <1>1 DEF Once, Truthful, workerVars

LEMMA OnceServer ==
    ASSUME IInv, [Next]_vars, OnceInv, NEW j \in Jobs, Server(j)
    PROVE  OnceInv'
<1> SUFFICES ASSUME NEW k \in Jobs \ redelivered PROVE Once(k)'
  BY DEF OnceInv, Server, IndexDocument, DeleteDocument, Accept, PublishEnvelope, HandlerFails,
         Publish, queueVars
<1>1. Once(k) /\ UNCHANGED <<workerVars, channel>>
  BY DEF OnceInv, Server, IndexDocument, DeleteDocument, Accept, PublishEnvelope, HandlerFails,
         Publish, queueVars
<1>2. Untaken(j)
  BY DEF Server, IndexDocument, DeleteDocument, Accept, PublishEnvelope, HandlerFails,
         IInv, ServerInv, Untaken
<1>3. Untaken(k)' => Untaken(k)
  BY <1>1, <1>2 DEF Server, IndexDocument, DeleteDocument, Accept, PublishEnvelope, HandlerFails,
         Publish, queueVars, workerVars, Untaken
<1>4. CASE rows'[k] = rows[k]
  BY <1>1, <1>3, <1>4, OnceFrame
<1>5. CASE rows'[k] # rows[k]
  <2>1. Create(j) /\ k = j
    BY <1>5 DEF Server, IndexDocument, DeleteDocument, Accept, PublishEnvelope, HandlerFails,
                Create, IInv, TypeOK, RepoTypeOK
  <2>2. rows'[k].status = "QUEUED" /\ rows'[k].error = ""
    BY <2>1 DEF Create, IInv, TypeOK, RepoTypeOK
  <2>3. \A w \in Workers : job[w] # k
    BY <1>1, <1>2, <2>1 DEF Once
  <2> QED BY <1>1, <2>2, <2>3 DEF Once, Truthful, workerVars
<1> QED BY <1>4, <1>5

LEMMA OnceDeliver ==
    ASSUME IInv, [Next]_vars, OnceInv, NEW w \in Workers, NEW k \in Jobs, DeliverTo(w, k)
    PROVE  OnceInv'
<1> SUFFICES ASSUME NEW j \in Jobs \ redelivered PROVE Once(j)'
  BY DEF OnceInv, DeliverTo, Deliver
<1>1. /\ Once(j) /\ UNCHANGED <<workerVars, rows, published>>
      /\ k \in ready /\ ready' = ready \ {k} /\ channel' = [channel EXCEPT ![w] = k]
  BY DEF OnceInv, DeliverTo, Deliver
<1>2. Untaken(j)' => Untaken(j)
  BY <1>1 DEF Untaken, workerVars, IInv, TypeOK, QueueTypeOK
<1> QED BY <1>1, <1>2, OnceFrame

LEMMA OnceTake ==
    ASSUME IInv, [Next]_vars, OnceInv, NEW w \in Workers, Take(w)
    PROVE  OnceInv'
<1> SUFFICES ASSUME NEW j \in Jobs \ redelivered PROVE Once(j)'
  BY DEF OnceInv, Take, queueVars
<1>1. WorkerTypeOK /\ WorkerShape(w) /\ "get_running" \in Labels
  BY DEF IInv, TypeOK, WorkerInv, Labels, Busy, Get
<1>2. /\ pc[w] = "idle" /\ pc'[w] = "get_running" /\ job'[w] = channel[w] /\ delivery'[w] = "held"
      /\ OthersKeep(w) /\ UNCHANGED <<rows, queueVars, loaded>>
  <2>1. pc'[w] = "get_running" /\ \A v \in Workers \ {w} : pc'[v] = pc[v]
    BY <1>1, GotoEffect DEF Take
  <2> QED BY <1>1, <2>1 DEF Take, WorkerTypeOK, OthersKeep
<1>3. Once(j) /\ job[w] = None /\ j # None
  BY <1>1, <1>2, NoneIsNoName DEF OnceInv, WorkerShape, Busy, Thread, Get, Commit
<1>4. CASE channel[w] # j
  <2>1. Untaken(j)' => Untaken(j)
    BY <1>2, <1>4 DEF Untaken, OthersKeep, queueVars
  <2> QED BY <1>2, <1>3, <1>4, <2>1, OnceStep
<1>5. CASE channel[w] = j
  <2>1. Untaken(j)
    BY <1>3, <1>5 DEF Untaken
  <2>2. ~Untaken(j)'
    <3>1. j \in published /\ j \notin ready /\ \A v \in Workers \ {w} : channel[v] # j
      BY <1>3, <1>5 DEF IInv, QueueInv
    <3> QED BY <1>2, <1>5, <3>1 DEF Untaken, queueVars
  <2>3. rows[j].status = "QUEUED" /\ rows[j].error = ""
    <3>1. j \in published
      BY <1>3, <1>5 DEF IInv, QueueInv
    <3>2. rows[j].status # "ABSENT"
      BY <3>1 DEF IInv, ServerInv, TypeOK, ServerTypeOK
    <3> QED BY <1>3, <2>1, <3>2 DEF Once, Truthful
  <2>4. \A v \in Workers \ {w} : job'[v] # j
    BY <1>2, <1>3, <2>1 DEF Once, OthersKeep
  <2>5. FirstAttempt(w)'
    BY <1>2, <1>5, <2>3 DEF FirstAttempt, Commit
  <2> QED BY <1>2, <2>2, <2>3, <2>4, <2>5 DEF Once, Truthful
<1> QED BY <1>4, <1>5

\* What an iterator holds of a dead channel was put back.
LEMMA OnceTakeStale ==
    ASSUME IInv, [Next]_vars, OnceInv, NEW w \in Workers, TakeStale(w)
    PROVE  OnceInv'
<1> SUFFICES ASSUME NEW j \in Jobs \ redelivered PROVE Once(j)'
  BY DEF OnceInv, TakeStale
<1>1. WorkerTypeOK /\ QueueTypeOK /\ "get_running" \in Labels
  BY DEF IInv, TypeOK, Labels, Busy, Get
<1>2. Head(backlog[w]) \in redelivered
  <2>1. backlog[w] \in Seq(Jobs) /\ backlog[w] # <<>>
    BY <1>1 DEF TakeStale, QueueTypeOK
  <2>2. 1 \in 1 .. Len(backlog[w]) /\ Head(backlog[w]) = backlog[w][1]
    BY <2>1
  <2> QED BY <2>2 DEF IInv, QueueInv
<1>3. /\ job'[w] # j /\ OthersKeep(w) /\ UNCHANGED <<rows, published, ready, channel>>
  <2>1. \A v \in Workers \ {w} : pc'[v] = pc[v]
    BY <1>1, GotoEffect DEF TakeStale
  <2> QED BY <1>1, <1>2, <2>1 DEF TakeStale, WorkerTypeOK, OthersKeep
<1>4. Once(j) /\ job[w] # j
  <2>1. pc[w] \notin Busy
    BY DEF TakeStale, Busy, Thread, Get, Commit
  <2> QED BY <2>1, NoneIsNoName DEF OnceInv, IInv, WorkerInv, WorkerShape
<1>5. Untaken(j)' => Untaken(j)
  BY <1>3, <1>4 DEF Untaken, OthersKeep
<1> QED BY <1>3, <1>4, <1>5, OnceStep

\* The steps after which w has forgotten its job.
LEMMA OnceLeave ==
    ASSUME IInv, [Next]_vars, OnceInv, NEW w \in Workers,
           Settle(w) \/ Crash(w) \/ (Stop(w) /\ pc[w] \notin Thread)
    PROVE  OnceInv'
<1>1. WorkerTypeOK /\ WorkerShape(w) /\ QueueTypeOK
  BY DEF IInv, TypeOK, WorkerInv
<1>2. /\ OthersKeep(w) /\ UNCHANGED <<rows, published>> /\ job'[w] = None
      /\ \A v \in Workers \ {w} : channel'[v] = channel[v]
  BY LeaveEffect
<1>3. \/ /\ delivery[w] = "held" /\ channel'[w] = None
         /\ ready' = ready /\ redelivered' = redelivered
      \/ /\ pc[w] = "settle" /\ delivery[w] # "held" /\ UNCHANGED queueVars
      \/ /\ channel'[w] = None /\ ready' = ready \cup ({channel[w]} \ {None})
         /\ redelivered' = redelivered \cup ({channel[w]} \ {None})
  BY <1>1 DEF Settle, Crash, Stop, Discard, Requeue, PutBack, QueueTypeOK
<1>4. ASSUME NEW j \in Jobs \ redelivered' PROVE Once(j)'
  <2>1. j \notin redelivered /\ Once(j) /\ j # None
    BY <1>3, <1>4, NoneIsNoName DEF OnceInv, queueVars
  <2>2. Untaken(j)' => Untaken(j)
    <3> SUFFICES ASSUME Untaken(j)', ~Untaken(j) PROVE FALSE
      OBVIOUS
    <3>1. j \in published /\ j \notin ready /\ \A v \in Workers \ {w} : channel'[v] = j => job'[v] = j
      BY <1>2 DEF Untaken, OthersKeep
    <3>2. j \in ready' \/ channel'[w] = j
      BY <1>2, <3>1 DEF Untaken
    <3>3. j \notin ready'
      BY <1>3, <1>4, <3>1 DEF queueVars
    <3>4. channel'[w] = j /\ channel[w] = j /\ pc[w] = "settle" /\ delivery[w] # "held"
      BY <1>3, <2>1, <3>2, <3>3 DEF queueVars
    <3>5. job[w] = j
      BY <3>4 DEF Untaken
    <3>6. delivery[w] = "cancelled"
      BY <2>1, <3>4, <3>5 DEF Once, FirstAttempt
    <3> QED BY <1>1, <3>4, <3>6 DEF WorkerShape, Thread
  <2> QED BY <1>2, <2>1, <2>2, OnceStep
<1> QED BY <1>4 DEF OnceInv
\* Steps that leave the table and the queue alone, and w at its job.
LEMMA OnceQuiet ==
    ASSUME IInv, [Next]_vars, OnceInv, NEW w \in Workers, OthersKeep(w),
           UNCHANGED <<rows, queueVars>>, job'[w] = job[w],
           NEW j \in Jobs \ redelivered, job[w] = j => FirstAttempt(w)'
    PROVE  Once(j)'
<1>1. Once(j)
  BY DEF OnceInv
<1>2. Untaken(j)' => Untaken(j)
  BY DEF Untaken, OthersKeep, queueVars
<1>3. Truthful(j)'
  BY <1>1 DEF Once, Truthful
<1> QED BY <1>1, <1>2, <1>3, OnceStep

\* The row a commit leaves behind, if the job was never put back.
LEMMA OnceCommit ==
    ASSUME IInv, OnceInv, NEW w \in Workers, pc[w] \in Commit, job[w] \notin redelivered,
           NEW new \in Row, CommitRow(w, new)
    PROVE  rows' = [rows EXCEPT ![job[w]] = new]
<1>1. job[w] \in Jobs /\ rows \in [Jobs -> Row]
  BY BusyJob DEF Busy, IInv, TypeOK, RepoTypeOK
<1>2. loaded[w] = rows[job[w]]
  BY <1>1 DEF OnceInv, Once, FirstAttempt
<1> QED BY <1>1, <1>2, FreshCommit DEF CommitRow

LEMMA OnceRows ==
    ASSUME IInv, [Next]_vars, OnceInv, NEW w \in Workers,
           GetRow(w) \/ MarkRunning(w) \/ MarkSucceeded(w) \/ MarkFailed(w) \/ DatabaseFails(w)
    PROVE  OnceInv'
<1> SUFFICES ASSUME NEW j \in Jobs \ redelivered PROVE Once(j)'
  BY DEF OnceInv, GetRow, MarkRunning, MarkSucceeded, MarkFailed, DatabaseFails, queueVars
<1>1. WorkerTypeOK /\ WorkerShape(w) /\ rows \in [Jobs -> Row] /\ Once(j)
  BY DEF IInv, TypeOK, RepoTypeOK, WorkerInv, OnceInv
<1>2. CASE GetRow(w)
  <2>1. PICK label \in Commit :
            /\ Goto(w, label) /\ (label = "commit_running" <=> pc[w] = "get_running")
            /\ label = "commit_failed" <=> pc[w] = "get_failed"
    BY <1>2 DEF GetRow, Get, Commit
  <2>2. /\ pc'[w] = label /\ OthersKeep(w) /\ pc[w] \in Get /\ loaded'[w] = rows[job[w]]
        /\ UNCHANGED <<rows, queueVars, job, delivery, exc>>
    <3>1. pc'[w] = label /\ \A v \in Workers \ {w} : pc'[v] = pc[v]
      BY <1>1, <2>1, GotoEffect DEF Labels, Busy
    <3> QED BY <1>1, <1>2, <3>1 DEF GetRow, OthersKeep, WorkerTypeOK
  <2>3. ASSUME job[w] = j PROVE FirstAttempt(w)'
    <3>1. FirstAttempt(w)
      BY <1>1, <2>3 DEF Once
    <3>2. pc[w] \in Busy \ {"commit_running", "settle"} /\ label \in Busy \ {"get_running", "settle"}
      BY <2>2 DEF Busy, Get, Commit
    <3>3. label = "commit_failed" <=> pc[w] = "get_failed"
      BY <2>1
    <3>4. pc[w] \in Get /\ label \in Commit /\ (label = "commit_running" <=> pc[w] = "get_running")
      BY <2>1, <2>2
    <3>5. Injected("database") => Injected("database")'
      BY FaultsGrow DEF Faults
    <3> QED BY <2>2, <2>3, <3>1, <3>2, <3>3, <3>4, <3>5 DEF FirstAttempt, Get
  <2> QED BY <2>2, <2>3, OnceQuiet
<1>3. CASE MarkRunning(w) \/ MarkSucceeded(w) \/ MarkFailed(w) \/ DatabaseFails(w)
  <2>1. /\ pc[w] \in Commit /\ UNCHANGED queueVars /\ OthersKeep(w)
        /\ job'[w] = job[w] /\ delivery'[w] = delivery[w]
    BY <1>3, CommitEffect
  <2>2. job[w] \in Jobs /\ pc[w] \in Busy
    BY <2>1, BusyJob DEF Busy
  <2>3. Untaken(j)' => Untaken(j)
    BY <2>1 DEF Untaken, OthersKeep, queueVars
  <2>4. CASE job[w] # j
    <3>1. rows'[j] = rows[j]
      BY <1>1, <1>3, <2>2, <2>4
         DEF MarkRunning, MarkSucceeded, MarkFailed, DatabaseFails, CommitRow, Transition
    <3> QED BY <1>1, <2>1, <2>3, <2>4, <3>1, OnceStep
  <2>5. CASE job[w] = j
    <3>1. /\ loaded[w] = rows[j] /\ loaded[w] \in Row
          /\ delivery[w] \in {"held", "cancelled"}
          /\ pc[w] = "commit_running" => rows[j].status = "QUEUED" /\ rows[j].error = ""
          /\ pc[w] # "commit_running" =>
                /\ rows[j].error = ""
                /\ \/ rows[j].status = "RUNNING"
                   \/ rows[j].status = "SUCCEEDED" /\ Injected("database")
      <4>1. FirstAttempt(w)
        BY <1>1, <2>5 DEF Once
      <4> QED BY <1>1, <2>1, <2>5, <4>1 DEF FirstAttempt, WorkerTypeOK, Busy, Commit, Get, Thread
    <3>2. /\ pc[w] = "commit_failed" => exc[w] \in Errors \ {""}
          /\ "" \notin Errors
      BY <1>1 DEF WorkerTypeOK, WorkerShape, Errors
    <3>3. /\ CommitRow(w, Running(loaded[w])) =>
                rows'[j].status = "RUNNING" /\ rows'[j].error = rows[j].error
          /\ CommitRow(w, Succeeded(loaded[w])) =>
                rows'[j].status = "SUCCEEDED" /\ rows'[j].error = ""
          /\ pc[w] = "commit_failed" /\ CommitRow(w, Failed(loaded[w], exc[w])) =>
                rows'[j].status = "FAILED" /\ rows'[j].error = exc[w]
      <4>1. /\ Running(loaded[w]) \in Row /\ Running(loaded[w]).status = "RUNNING"
            /\ Running(loaded[w]).error = rows[j].error
        BY <3>1 DEF Running, Row, Statuses
      <4>2. /\ Succeeded(loaded[w]) \in Row /\ Succeeded(loaded[w]).status = "SUCCEEDED"
            /\ Succeeded(loaded[w]).error = ""
        BY DEF Succeeded, Row, Statuses
      <4>3. pc[w] = "commit_failed" =>
               /\ Failed(loaded[w], exc[w]) \in Row /\ Failed(loaded[w], exc[w]).status = "FAILED"
               /\ Failed(loaded[w], exc[w]).error = exc[w]
        BY <3>2 DEF Failed, Row, Statuses
      <4>4. ASSUME NEW new \in Row, CommitRow(w, new) PROVE rows'[j] = new
        BY <1>1, <2>1, <2>2, <2>5, <4>4, OnceCommit
      <4> QED BY <4>1, <4>2, <4>3, <4>4
    <3>4. CASE MarkRunning(w)
      <4>1. /\ rows'[j].status = "RUNNING" /\ rows'[j].error = ""
            /\ pc'[w] \in Thread
        BY <3>1, <3>3, <3>4, CommitEffect DEF MarkRunning, Thread
      <4>2. Truthful(j)'
        BY <4>1 DEF Truthful
      <4>3. FirstAttempt(w)'
        <5>1. pc'[w] \notin Commit \cup {"get_running", "commit_running"}
          BY <4>1 DEF Commit, Thread
        <5> QED BY <2>1, <2>5, <3>1, <4>1, <5>1 DEF FirstAttempt
      <4> QED BY <1>1, <2>1, <2>3, <2>5, <4>2, <4>3, OnceStep
    <3>5. CASE MarkSucceeded(w) \/ MarkFailed(w)
      <4>1. pc'[w] = "settle"
        BY <3>5, CommitEffect
      <4>2. Truthful(j)'
        BY <3>2, <3>3, <3>5 DEF MarkSucceeded, MarkFailed, Truthful
      <4>3. FirstAttempt(w)'
        BY <2>1, <3>1, <4>1 DEF FirstAttempt, Commit
      <4> QED BY <1>1, <2>1, <2>3, <2>5, <4>2, <4>3, OnceStep
    <3>6. CASE DatabaseFails(w)
      <4>1. Injected("database")'
        BY <3>6, Struck DEF DatabaseFails, Faults, IInv, TypeOK
      <4>2. \/ rows' = rows
            \/ pc[w] = "commit_running" /\ CommitRow(w, Running(loaded[w]))
            \/ pc[w] = "commit_succeeded" /\ CommitRow(w, Succeeded(loaded[w]))
            \/ pc[w] = "commit_failed" /\ CommitRow(w, Failed(loaded[w], exc[w]))
        BY <3>6 DEF DatabaseFails
      <4>3. Truthful(j)'
        BY <1>1, <3>1, <3>2, <3>3, <4>2 DEF Once, Truthful
      <4>4. pc'[w] = IF pc[w] = "commit_succeeded" THEN "get_failed" ELSE "settle"
        BY <3>6, CommitEffect
      <4>5. pc[w] = "commit_succeeded" =>
               /\ rows'[j].error = ""
               /\ rows'[j].status = "RUNNING" \/ rows'[j].status = "SUCCEEDED"
        BY <3>1, <3>3, <4>2
      <4>6. pc[w] = "commit_succeeded" => exc'[w] = "database"
        BY <1>1, <3>6 DEF DatabaseFails, WorkerTypeOK
      <4>7. FirstAttempt(w)'
        BY <2>1, <2>5, <3>1, <4>1, <4>4, <4>5, <4>6 DEF FirstAttempt, Commit
      <4> QED BY <1>1, <2>1, <2>3, <2>5, <4>3, <4>7, OnceStep
    <3> QED BY <1>3, <3>4, <3>5, <3>6
  <2> QED BY <2>4, <2>5
<1> QED BY <1>2, <1>3

LEMMA OnceWork ==
    ASSUME IInv, [Next]_vars, OnceInv, NEW w \in Workers,
           \/ Extract(w) \/ GetCollections(w) \/ CreateMissing(w) \/ CreateConflicts(w)
           \/ CreateIndexes(w) \/ UpsertChunks(w) \/ Count(w) \/ DeletePoints(w)
           \/ BackendFails(w) \/ CallTimesOut(w)
    PROVE  OnceInv'
<1>1. /\ pc[w] \in Thread /\ UNCHANGED <<rows, queueVars>> /\ OthersKeep(w)
      /\ \/ delivery[w] = "cancelled" /\ pc'[w] = "down" /\ job'[w] = None
         \/ /\ pc'[w] \in Thread \cup {"get_succeeded", "get_failed"}
            /\ job'[w] = job[w] /\ delivery'[w] = delivery[w]
  BY ThreadEffect
<1>2. ASSUME NEW j \in Jobs \ redelivered PROVE Once(j)'
  <2>1. Once(j)
    BY DEF OnceInv
  <2>2. CASE delivery[w] = "cancelled" /\ pc'[w] = "down" /\ job'[w] = None
    <3>1. j # None /\ channel[w] = None
      BY <2>2, NoneIsNoName DEF IInv, WorkerInv, WorkerShape
    <3>2. Untaken(j)' => Untaken(j)
      BY <1>1, <3>1 DEF Untaken, OthersKeep, queueVars
    <3> QED BY <1>1, <2>1, <2>2, <3>1, <3>2, OnceStep
  <2>3. CASE /\ pc'[w] \in Thread \cup {"get_succeeded", "get_failed"}
             /\ job'[w] = job[w] /\ delivery'[w] = delivery[w]
    <3>1. ASSUME job[w] = j PROVE FirstAttempt(w)'
      <4>1. FirstAttempt(w)
        BY <2>1, <3>1 DEF Once
      <4> QED BY <1>1, <2>3, <4>1, FaultsGrow DEF FirstAttempt, Busy, Thread, Get, Commit, Faults
    <3> QED BY <1>1, <2>3, <3>1, OnceQuiet
  <2> QED BY <1>1, <2>2, <2>3
<1> QED BY <1>1, <1>2 DEF OnceInv, queueVars

LEMMA OnceProcess ==
    ASSUME IInv, [Next]_vars, OnceInv, NEW w \in Workers,
           Restart(w) \/ (Stop(w) /\ pc[w] \in Thread) \/ ConnectionLost(w)
    PROVE  OnceInv'
<1>1. WorkerTypeOK /\ WorkerShape(w) /\ QueueTypeOK /\ "idle" \in Labels
  BY DEF IInv, TypeOK, WorkerInv, Labels
<1>2. CASE Restart(w)
  <2>1. /\ pc[w] = "down" /\ pc'[w] = "idle" /\ UNCHANGED <<rows, queueVars, job, delivery>> /\ OthersKeep(w)
    <3>1. pc'[w] = "idle" /\ \A v \in Workers \ {w} : pc'[v] = pc[v]
      BY <1>1, <1>2, GotoEffect DEF Restart
    <3> QED BY <1>2, <3>1 DEF Restart, OthersKeep
  <2>2. ASSUME NEW j \in Jobs \ redelivered PROVE Once(j)'
    <3>1. job[w] # j
      BY <1>1, <2>1, NoneIsNoName DEF WorkerShape, Busy, Thread, Get, Commit
    <3> QED BY <2>1, <3>1, OnceQuiet
  <2> QED BY <2>1, <2>2 DEF OnceInv, queueVars
<1>3. CASE (Stop(w) /\ pc[w] \in Thread) \/ ConnectionLost(w)
  <2>1. /\ UNCHANGED <<rows, published, pc, job, loaded, exc>>
        /\ \A v \in Workers \ {w} : delivery'[v] = delivery[v] /\ channel'[v] = channel[v]
        /\ channel'[w] = None
        /\ delivery'[w] \in {delivery[w], "lost", "cancelled"}
        /\ delivery'[w] = "lost" /\ delivery[w] # "lost" =>
               delivery[w] = "held" /\ redelivered' = redelivered \cup ({channel[w]} \ {None})
        /\ \/ ready' = ready /\ redelivered' = redelivered
           \/ /\ ready' = ready \cup ({channel[w]} \ {None})
              /\ redelivered' = redelivered \cup ({channel[w]} \ {None})
    BY <1>1, <1>3 DEF Stop, ConnectionLost, Discard, Requeue, Reconnect, PutBack, QueueTypeOK, WorkerTypeOK,
                      Thread
  <2>2. OthersKeep(w)
    BY <2>1 DEF OthersKeep
  <2>3. ASSUME NEW j \in Jobs \ redelivered' PROVE Once(j)'
    <3>1. j \notin redelivered /\ Once(j) /\ j # None
      BY <2>1, <2>3, NoneIsNoName DEF OnceInv
    <3>2. Untaken(j)' => Untaken(j)
      BY <2>1, <2>3, <3>1 DEF Untaken
    <3>3. ASSUME job[w] = j PROVE FirstAttempt(w)'
      <4>1. FirstAttempt(w)
        BY <3>1, <3>3 DEF Once
      <4>2. delivery'[w] \in {"held", "cancelled"}
        BY <1>1, <2>1, <2>3, <3>1, <3>3, <4>1 DEF FirstAttempt, WorkerShape
      <4> QED BY <2>1, <4>1, <4>2, FaultsGrow DEF FirstAttempt, Faults
    <3>4. Truthful(j)'
      BY <2>1, <3>1 DEF Once, Truthful
    <3> QED BY <2>1, <2>2, <3>1, <3>2, <3>3, <3>4, OnceStep
  <2> QED BY <2>3 DEF OnceInv
<1> QED BY <1>2, <1>3

LEMMA OnceNext == IInv /\ OnceInv /\ [Next]_vars => OnceInv'
<1> SUFFICES ASSUME IInv, OnceInv, [Next]_vars
             PROVE  OnceInv'
  OBVIOUS
<1>1. CASE \E j \in Jobs : Server(j)
  BY <1>1, OnceServer
<1>2. CASE \E w \in Workers, j \in Jobs : DeliverTo(w, j)
  BY <1>2, OnceDeliver
<1>3. ASSUME NEW w \in Workers, Work(w) \/ WorkerFault(w) \/ Restart(w) PROVE OnceInv'
  BY <1>3, OnceTake, OnceTakeStale, OnceLeave, OnceRows, OnceWork, OnceProcess DEF Work, WorkerFault
<1>4. CASE UNCHANGED vars \/ \E e \in late : TakesEffect(e)
  <2>1. UNCHANGED <<rows, queueVars, workerVars>>
    BY <1>4 DEF vars, TakesEffect
  <2>2. ASSUME NEW j \in Jobs \ redelivered PROVE Once(j)'
    BY <2>1, OnceFrame DEF queueVars, OnceInv, Untaken, workerVars
  <2> QED BY <2>1, <2>2 DEF OnceInv, queueVars
<1> QED BY <1>1, <1>2, <1>3, <1>4 DEF Next

LEMMA InitOnce == Init => OnceInv
<1> SUFFICES ASSUME Init, NEW j \in Jobs PROVE Once(j)
  BY DEF OnceInv
<1>1. rows[j].status = "ABSENT" /\ rows[j].error = ""
  BY DEF Init, RepoInit, Absent
<1>2. \A w \in Workers : job[w] # j
  BY NoneIsNoName DEF Init
<1> QED BY <1>1, <1>2 DEF Once, Truthful

\* For any number of jobs and workers: the row of a job that was delivered once
\* has an error_message exactly if it is FAILED (repositories/job.py:133-165).
THEOREM FailuresAreTold == Spec => []FailedTellsWhy
<1>1. OnceInv => FailedTellsWhy
  BY DEF OnceInv, Once, Truthful, FailedTellsWhy
<1> QED BY <1>1, InitOnce, OnceNext, AlwaysIInv, PTL DEF Spec

LEMMA FinalStep ==
    ASSUME IInv, OnceInv, Next, NEW j \in Jobs, Finished(j), rows'[j] # rows[j], j \notin redelivered
    PROVE  Injected("database")
<1>1. Once(j) /\ rows \in [Jobs -> Row]
  BY DEF OnceInv, IInv, TypeOK, RepoTypeOK
<1>2. ASSUME NEW k \in Jobs, Create(k) PROVE FALSE
  <2>1. k = j
    BY <1>1, <1>2 DEF Create
  <2>2. rows[j].status = "ABSENT"
    <3>1. rows[j] = Absent
      BY <1>2, <2>1 DEF Create
    <3>2. Absent.status = "ABSENT"
      BY DEF Absent
    <3> QED BY <3>1, <3>2
  <2> QED BY <2>2 DEF Finished
<1>3. PICK w \in Workers : MarkRunning(w) \/ MarkSucceeded(w) \/ MarkFailed(w) \/ DatabaseFails(w)
  BY <1>2 DEF Next, Server, IndexDocument, DeleteDocument, Accept, PublishEnvelope, HandlerFails,
              DeliverTo, Work, WorkerFault, Restart, Take, TakeStale, Settle, GetRow, Extract, GetCollections,
              CreateMissing, CreateConflicts, CreateIndexes, UpsertChunks, Count, DeletePoints,
              BackendFails, CallTimesOut, TakesEffect, Crash, Stop, ConnectionLost
<1>4. pc[w] \in Commit
  BY <1>3, CommitEffect
<1>5. job[w] = j
  <2>1. job[w] \in Jobs
    BY <1>4, BusyJob DEF Busy
  <2> QED BY <1>1, <1>3, <2>1 DEF MarkRunning, MarkSucceeded, MarkFailed, DatabaseFails, CommitRow, Transition
<1>6. FirstAttempt(w)
  BY <1>1, <1>5 DEF Once
<1> QED BY <1>4, <1>5, <1>6 DEF FirstAttempt, Finished, Commit, Busy

\* For any number of jobs and workers: a final status is not overwritten, unless
\* the job was delivered again or a transaction raised after its commit.
THEOREM FinalStatusStays == Spec => FinalUntilRedelivered
<1>1. IInv /\ OnceInv /\ [Next]_vars =>
        [\A j \in Jobs : Finished(j) /\ rows'[j] # rows[j] => j \in redelivered \/ Injected("database")]_vars
  BY FinalStep
<1> QED BY <1>1, InitOnce, OnceNext, AlwaysIInv, PTL DEF Spec, FinalUntilRedelivered
-----------------------------------------------------------------------------
(* What a client sees of its job: JobLifecycle.                             *)

\* Only an INSERT and the commits of _transition change the table.
LEMMA RowsChange ==
    ASSUME Next
    PROVE  \/ UNCHANGED rows
           \/ (\E j \in Jobs : Create(j)) /\ UNCHANGED redelivered
           \/ \E w \in Workers : MarkRunning(w) \/ MarkSucceeded(w) \/ MarkFailed(w) \/ DatabaseFails(w)
BY DEF Next, Server, IndexDocument, DeleteDocument, Accept, PublishEnvelope, HandlerFails,
       DeliverTo, Work, WorkerFault, Restart, Take, TakeStale, Settle, GetRow, Extract, GetCollections,
       CreateMissing, CreateConflicts, CreateIndexes, UpsertChunks, Count, DeletePoints,
       BackendFails, CallTimesOut, TakesEffect, Crash, Stop, ConnectionLost, queueVars

\* A message is put back by a step that leaves the table alone.
LEMMA RedeliveredChange ==
    ASSUME Next
    PROVE  \/ UNCHANGED redelivered
           \/ \E w \in Workers : /\ redelivered' = redelivered \cup ({channel[w]} \ {None})
                                /\ UNCHANGED rows
<1>1. ASSUME NEW w \in Workers, PutBack(w)
      PROVE  redelivered' = redelivered \cup ({channel[w]} \ {None})
  BY <1>1 DEF PutBack
<1>2. CASE \E j \in Jobs : Server(j)
  BY <1>2 DEF Server, IndexDocument, DeleteDocument, Accept, PublishEnvelope, HandlerFails, Publish,
              queueVars
<1>3. CASE \E w \in Workers, j \in Jobs : DeliverTo(w, j)
  BY <1>3 DEF DeliverTo, Deliver
<1>4. ASSUME NEW w \in Workers,
             Work(w) \/ Restart(w) \/ DatabaseFails(w) \/ BackendFails(w) \/ CallTimesOut(w)
      PROVE  UNCHANGED redelivered
  BY <1>4 DEF Work, Restart, Take, TakeStale, Settle, Discard, GetRow, MarkRunning, MarkSucceeded, MarkFailed,
              Extract, GetCollections, CreateMissing, CreateConflicts, CreateIndexes, UpsertChunks,
              Count, DeletePoints, DatabaseFails, BackendFails, CallTimesOut, queueVars
<1>5. ASSUME NEW w \in Workers, Crash(w) \/ Stop(w) \/ ConnectionLost(w)
      PROVE  UNCHANGED rows /\ (PutBack(w) \/ UNCHANGED redelivered)
  BY <1>5 DEF Crash, Stop, ConnectionLost, Discard, Requeue, Reconnect
<1>6. ASSUME NEW e \in late, TakesEffect(e) PROVE UNCHANGED redelivered
  BY <1>6 DEF TakesEffect, queueVars
<1> QED BY <1>1, <1>2, <1>3, <1>4, <1>5, <1>6 DEF Next, WorkerFault

\* The steps of JobLifecycle that a worker takes.
AttemptStep(j) == \/ Lifecycle!Run(j) \/ Lifecycle!Succeed(j)
                  \/ \E e \in Errors : Lifecycle!Fail(j, e)
                  \/ Lifecycle!RunAgain(j)

\* A commit takes the job one step further, or is one of a job tried again.
LEMMA LifecycleCommit ==
    ASSUME IInv, StoredInv, OnceInv, NEW w \in Workers,
           MarkRunning(w) \/ MarkSucceeded(w) \/ MarkFailed(w) \/ DatabaseFails(w)
    PROVE  UNCHANGED rows \/ \E j \in Jobs : AttemptStep(j)
<1>0. PICK j \in Jobs : job[w] = j
  BY CommitEffect, BusyJob DEF Busy
<1> SUFFICES ASSUME rows' # rows
             PROVE  AttemptStep(j)
  BY <1>0
<1>1. /\ pc[w] \in Commit /\ UNCHANGED redelivered
      /\ rows[j] \in Row /\ rows[j].status # "ABSENT" /\ rows \in [Jobs -> Row] /\ loaded[w] \in Row
  BY <1>0, CommitEffect, BusyJob DEF Busy, queueVars, IInv, TypeOK, RepoTypeOK, WorkerTypeOK
<1>2. \/ pc[w] = "commit_running" /\ CommitRow(w, Running(loaded[w]))
      \/ pc[w] = "commit_succeeded" /\ CommitRow(w, Succeeded(loaded[w]))
      \/ pc[w] = "commit_failed" /\ CommitRow(w, Failed(loaded[w], exc[w]))
  BY DEF MarkRunning, MarkSucceeded, MarkFailed, DatabaseFails
<1>3. pc[w] = "commit_failed" => exc[w] \in Errors
  BY DEF IInv, TypeOK, WorkerTypeOK, WorkerInv, WorkerShape
<1>4. PICK new \in Row :
         /\ CommitRow(w, new) /\ new.status \in {"RUNNING", "SUCCEEDED", "FAILED"}
         /\ pc[w] = "commit_running" => new = Running(loaded[w])
         /\ pc[w] = "commit_succeeded" => new = Succeeded(loaded[w])
         /\ pc[w] = "commit_failed" => new = Failed(loaded[w], exc[w])
  <2>1. "extract" \in Errors
    BY DEF Errors
  <2>2. /\ Running(loaded[w]) \in Row /\ Running(loaded[w]).status = "RUNNING"
        /\ Succeeded(loaded[w]) \in Row /\ Succeeded(loaded[w]).status = "SUCCEEDED"
        /\ pc[w] = "commit_failed" =>
               Failed(loaded[w], exc[w]) \in Row /\ Failed(loaded[w], exc[w]).status = "FAILED"
    BY <1>1, <1>3, <2>1, NewRowTypes DEF Running, Succeeded, Failed, Row
  <2> QED BY <1>1, <1>2, <2>2 DEF Commit
<1>5. rows' = [rows EXCEPT ![j] = rows'[j]] /\ rows'[j] \in Row
  <2>1. \A k \in Jobs \ {j} : rows'[k] = rows[k]
    BY <1>0, <1>1, <1>4 DEF CommitRow, Transition
  <2>2. rows' \in [Jobs -> Row]
    BY <1>0, <1>1, <1>4, TransitionType DEF CommitRow, RepoTypeOK
  <2> QED BY <1>1, <2>1, <2>2
<1>6. Started(j)'
  BY <1>0, <1>1, <1>4, CommitStarted
<1>7. CASE ~Started(j)
  <2>1. rows[j].status = "QUEUED"
    BY <1>1, <1>7 DEF Started, Row, Statuses
  <2>2. pc[w] = "commit_running" /\ loaded[w].status \notin {"RUNNING", "SUCCEEDED", "FAILED"}
    <3>1. StoredShape(w)
      BY DEF StoredInv
    <3> QED BY <1>0, <1>1, <1>7, <3>1 DEF StoredShape, Begun, Commit
  <2>3. rows'[j] = Running(rows[j])
    <3>1. /\ Running(loaded[w]).status = "RUNNING" /\ Running(loaded[w]).error = loaded[w].error
          /\ Running(rows[j]) = [status |-> "RUNNING", error |-> rows[j].error]
      <4>1. ASSUME NEW row \in Row
            PROVE  Running(row) = [status |-> "RUNNING", error |-> row.error]
        <5>1. row = [status |-> row.status, error |-> row.error]
          BY <4>1 DEF Row
        <5> QED BY <5>1 DEF Running
      <4> QED BY <1>1, <4>1
    <3>2. rows'[j] = [status |-> Column(loaded[w].status, new.status, rows[j].status),
                      error |-> Column(loaded[w].error, new.error, rows[j].error)]
      BY <1>0, <1>1, <1>4 DEF CommitRow, Transition
    <3> QED BY <1>4, <2>2, <3>1, <3>2 DEF Column
  <2> QED BY <1>1, <1>5, <2>1, <2>3 DEF AttemptStep, Lifecycle!Run, Lifecycle!SetRow, Lifecycle!Running, Running
<1>8. CASE Started(j) /\ j \in redelivered
  BY <1>1, <1>5, <1>6, <1>8 DEF AttemptStep, Lifecycle!RunAgain, Lifecycle!SetRow, Lifecycle!Started, Started,
     Lifecycle!Row, Row, Lifecycle!Statuses, Statuses, Lifecycle!Errors, Errors
<1>9. CASE Started(j) /\ j \notin redelivered
  <2>1. FirstAttempt(w)
    BY <1>0, <1>1, <1>9 DEF OnceInv, Once
  <2>2. /\ pc[w] # "commit_running"
        /\ \/ rows[j].status = "RUNNING"
           \/ rows[j].status = "SUCCEEDED" /\ pc[w] = "commit_failed" /\ exc[w] = "database"
    BY <1>0, <1>1, <1>9, <2>1 DEF FirstAttempt, Started, Busy, Commit
  <2>3. rows' = [rows EXCEPT ![j] = new]
    BY <1>0, <1>1, <1>4, <1>9, OnceCommit
  <2>4. CASE pc[w] = "commit_succeeded"
    BY <1>1, <1>4, <2>2, <2>3, <2>4
       DEF AttemptStep, Lifecycle!Succeed, Lifecycle!SetRow, Lifecycle!Succeeded, Succeeded
  <2>5. CASE pc[w] = "commit_failed"
    BY <1>1, <1>3, <1>4, <2>2, <2>3, <2>5 DEF AttemptStep, Lifecycle!Fail, Lifecycle!SetRow, Lifecycle!Failed, Failed
  <2> QED BY <1>1, <2>2, <2>4, <2>5 DEF Commit
<1> QED BY <1>7, <1>8, <1>9

LEMMA LifecycleNext ==
    IInv /\ StoredInv /\ OnceInv /\ [Next]_vars => [Lifecycle!Next]_(Lifecycle!vars)
<1> SUFFICES ASSUME IInv, StoredInv, OnceInv, Next,
                    ~UNCHANGED <<rows, redelivered>>
             PROVE  Lifecycle!Next
  BY DEF vars, queueVars, Lifecycle!vars
<1>1. ASSUME NEW j \in Jobs, Create(j), UNCHANGED redelivered PROVE Lifecycle!Next
  BY <1>1 DEF Create, Absent, Lifecycle!Next, Lifecycle!Queue, Lifecycle!Create, Lifecycle!Absent
<1>2. ASSUME NEW w \in Workers, UNCHANGED rows,
             redelivered' = redelivered \cup ({channel[w]} \ {None})
      PROVE  Lifecycle!Next
  <2>1. channel[w] # None
    BY <1>2
  <2>2. channel[w] \in Jobs /\ channel[w] \in published
    BY <2>1 DEF IInv, TypeOK, QueueTypeOK, QueueInv
  <2>3. rows[channel[w]].status # "ABSENT"
    BY <2>2 DEF IInv, ServerInv, TypeOK, ServerTypeOK
  <2>4. Absent.status = "ABSENT"
    BY DEF Absent
  <2>5. Lifecycle!Repeat(channel[w])
    BY <1>2, <2>1, <2>3, <2>4 DEF Lifecycle!Repeat, Lifecycle!Absent, Absent
  <2> QED BY <2>2, <2>5 DEF Lifecycle!Next
<1>3. ASSUME NEW w \in Workers, rows' # rows,
             MarkRunning(w) \/ MarkSucceeded(w) \/ MarkFailed(w) \/ DatabaseFails(w)
      PROVE  Lifecycle!Next
  BY <1>3, LifecycleCommit DEF AttemptStep, Lifecycle!Next, Lifecycle!Errors, Errors
<1> QED BY <1>1, <1>2, <1>3, RowsChange, RedeliveredChange

\* For any number of jobs and workers and any faults: a client sees its job
\* queued, running, and succeeded or failed, in this order, and nothing else
\* unless its message was delivered again (job.py:119-149, rabbitmq.py:60-76).
THEOREM LifecycleImplemented == Spec => ImplementsLifecycle
<1>1. Init => Lifecycle!Init
  BY DEF Init, RepoInit, QueueInit, Lifecycle!Init, Lifecycle!RepoInit, Lifecycle!Absent, Absent
<1> QED BY <1>1, LifecycleNext, AlwaysIInv, AlwaysStored, InitOnce, OnceNext, PTL
        DEF Spec, ImplementsLifecycle, Lifecycle!Spec
=============================================================================
