---------------------------- MODULE JobLifecycle ----------------------------
(***************************************************************************)
(* What a client that polls GetIndexingJobStatus sees of its job, whatever *)
(* the queue, the workers and their faults do: it is queued, it runs, and  *)
(* it succeeds or fails, each once and in this order.  Only a job whose    *)
(* message was delivered again may go back and forth after that, and never *)
(* back to QUEUED.                                                         *)
(***************************************************************************)
EXTENDS JobRepository

VARIABLE repeated  \* the jobs that are tried again

vars == <<rows, repeated>>

Init == RepoInit /\ repeated = {}

SetRow(j, row) == rows' = [rows EXCEPT ![j] = row]

Queue(j) == Create(j) /\ UNCHANGED repeated

Run(j) ==
    /\ rows[j].status = "QUEUED"
    /\ SetRow(j, Running(rows[j]))
    /\ UNCHANGED repeated

Succeed(j) ==
    /\ rows[j].status = "RUNNING"
    /\ SetRow(j, Succeeded(rows[j]))
    /\ UNCHANGED repeated

\* A success can still be taken back: its transaction was committed and raised
\* all the same.
Fail(j, e) ==
    /\ \/ rows[j].status = "RUNNING"
       \/ rows[j].status = "SUCCEEDED" /\ e = "database"
    /\ SetRow(j, Failed(rows[j], e))
    /\ UNCHANGED repeated

Repeat(j) ==
    /\ rows[j] # Absent
    /\ repeated' = repeated \cup {j}
    /\ UNCHANGED rows

\* Whatever the attempts, one after the other or at the same time, write.
RunAgain(j) ==
    /\ j \in repeated /\ Started(j)
    /\ \E row \in Row : SetRow(j, row)
    /\ Started(j)'
    /\ UNCHANGED repeated

Next ==
    \E j \in Jobs : \/ Queue(j) \/ Run(j) \/ Succeed(j) \/ (\E e \in Errors : Fail(j, e))
                    \/ Repeat(j) \/ RunAgain(j)

Spec == Init /\ [][Next]_vars
=============================================================================
