------------------------------ MODULE JobQueue ------------------------------
(***************************************************************************)
(* The durable document_jobs queue as the publisher and the consumer of    *)
(* src/doccontext/queue/rabbitmq.py use it.  The broker itself is external *)
(* code: it keeps messages in publish order, pushes a message to a         *)
(* consumer whose channel has fewer unacknowledged messages than the       *)
(* prefetch (1), puts an unacknowledged message back in its old place when *)
(* the channel dies, and forgets one that is acked or nacked without       *)
(* requeue (no dead-letter exchange is declared).                          *)
(* A message is named by the job whose envelope it carries.                *)
(***************************************************************************)
EXTENDS Identifiers, Sequences

CONSTANT Workers   \* the consumers: one per worker process

VARIABLES
    published,   \* the jobs whose envelope the broker accepted
    ahead,       \* job -> the jobs published before it
    ready,       \* the messages waiting for a consumer
    channel,     \* consumer -> the unacknowledged message on its channel
    redelivered, \* the messages that were put back at least once
    backlog      \* consumer -> what its iterator still holds of dead channels

queueVars == <<published, ahead, ready, channel, redelivered, backlog>>

QueueTypeOK ==
    /\ published \in SUBSET Jobs
    /\ ahead \in [Jobs -> SUBSET Jobs]
    /\ ready \in SUBSET Jobs
    /\ channel \in [Workers -> Jobs \cup {None}]
    /\ redelivered \in SUBSET Jobs
    /\ backlog \in [Workers -> Seq(Jobs)]

QueueInit ==
    /\ published = {}
    /\ ahead = [j \in Jobs |-> {}]
    /\ ready = {}
    /\ channel = [w \in Workers |-> None]
    /\ redelivered = {}
    /\ backlog = [w \in Workers |-> <<>>]

\* RabbitMQPublisher.publish: a persistent message at the tail of the queue.
Publish(j) ==
    /\ published' = published \cup {j}
    /\ ahead' = [ahead EXCEPT ![j] = published]
    /\ ready' = ready \cup {j}
    /\ UNCHANGED <<channel, redelivered, backlog>>

\* Mutant: the channel has no prefetch limit.
DeliverUnlimited(w, j) ==
    /\ j \in ready
    /\ ahead[j] \cap ready = {}
    /\ ready' = ready \ {j}
    /\ channel' = [channel EXCEPT ![w] = j]
    /\ UNCHANGED <<published, ahead, redelivered, backlog>>

\* The broker pushes the oldest waiting message, prefetch permitting.
Deliver(w, j) ==
    /\ channel[w] = None
    /\ j \in ready
    /\ ahead[j] \cap ready = {}
    /\ ready' = ready \ {j}
    /\ channel' = [channel EXCEPT ![w] = j]
    /\ UNCHANGED <<published, ahead, redelivered, backlog>>

\* Leaving message.process(requeue=False): an ack, or a nack that does not
\* requeue.  Either way the broker forgets the message.
Discard(w) ==
    /\ channel' = [channel EXCEPT ![w] = None]
    /\ UNCHANGED <<published, ahead, ready, redelivered, backlog>>

\* The channel of w dies: its unacknowledged message waits again.
PutBack(w) ==
    /\ ready' = ready \cup ({channel[w]} \ {None})
    /\ redelivered' = redelivered \cup ({channel[w]} \ {None})
    /\ channel' = [channel EXCEPT ![w] = None]
    /\ UNCHANGED <<published, ahead>>

\* The channel dies with the consumer: nothing is left of its iterator.
Requeue(w) ==
    /\ PutBack(w)
    /\ backlog' = [backlog EXCEPT ![w] = <<>>]

\* The channel dies alone.  aio_pika's robust iterator goes on with the next
\* one, and still yields a message that nobody had taken from it yet.
Reconnect(w, taken) ==
    /\ PutBack(w)
    /\ backlog' = IF taken THEN backlog ELSE [backlog EXCEPT ![w] = Append(@, channel[w])]

InBroker(j) == j \in ready \/ \E w \in Workers : channel[w] = j
=============================================================================
