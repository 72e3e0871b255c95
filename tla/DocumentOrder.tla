---------------------------- MODULE DocumentOrder ----------------------------
(***************************************************************************)
(* DocumentJobs with one worker implements OrderedDocuments: a job is       *)
(* pending while its message is in the broker or a worker has it.           *)
(***************************************************************************)
EXTENDS DocumentJobs

OnItsWay == {j \in Jobs : InBroker(j) \/ \E w \in Workers : job[w] = j}

Ordered == INSTANCE OrderedDocuments WITH pending <- OnItsWay

\* Every step of the server, the broker, one worker and their faults is a step
\* of OrderedDocuments, or none: jobs are worked off one at a time in the order
\* their messages were published (rabbitmq.py:60-76 with prefetch=1), through
\* redeliveries and cancelled handlers whose thread still writes, and
\* mark_succeeded (document_worker.py:74) only follows work that is in place.
\* That is without the fault "timeout": a call that takes effect after its client
\* gave it up (qdrant.py:78) may come after the work of the next job.
ImplementsOrder == Ordered!Spec

\* With one worker jobs take effect in the order they were published, whatever
\* crashes or reconnects in between: what a SUCCEEDED index job stored is only
\* replaced by a job published after it, and once a delete has SUCCEEDED no
\* point of a job published before it is left.  Again without "timeout".
AppliedInOrder == Ordered!AppliedInOrder
=============================================================================
