----------------------------- MODULE QueueClient -----------------------------
(***************************************************************************)
(* The connection and the channel that the publishes of one server share   *)
(* (_RabbitMQClient and RabbitMQPublisher in                               *)
(* src/doccontext/queue/rabbitmq.py).  One step is what a call of publish  *)
(* does between two awaits.  A call opens at most one connection and one   *)
(* channel, which bear its name.                                           *)
(***************************************************************************)
CONSTANTS Calls,  \* the calls of publish
          None    \* no connection, no channel

VARIABLES
    connection,  \* self._connection
    channel,     \* self._channel
    open,        \* the connections that are open
    live,        \* the channels that are open
    on,          \* call -> the connection its channel is, or will be, on
    using,       \* call -> the channel _channel_open gave it
    pc,          \* call -> its next step
    closed       \* whether close has run

vars == <<connection, channel, open, live, on, using, pc, closed>>

TypeOK ==
    /\ {connection, channel} \subseteq Calls \cup {None}
    /\ open \subseteq Calls /\ live \subseteq Calls
    /\ on \in [Calls -> Calls \cup {None}]
    /\ using \in [Calls -> Calls \cup {None}]
    /\ pc \in [Calls -> {"start", "connect", "channel", "declare", "publish", "ended"}]
    /\ closed \in BOOLEAN

Init ==
    /\ connection = None /\ channel = None
    /\ open = {} /\ live = {}
    /\ on = [p \in Calls |-> None]
    /\ using = [p \in Calls |-> None]
    /\ pc = [p \in Calls |-> "start"]
    /\ closed = FALSE

\* The second half of _channel_open, up to its await: a channel is opened on
\* what self._connection is now, or the one there is will do.
GetChannel(p, current) ==
    IF channel \in live
    THEN /\ using' = [using EXCEPT ![p] = channel]
         /\ pc' = [pc EXCEPT ![p] = "declare"]
         /\ UNCHANGED on
    ELSE /\ on' = [on EXCEPT ![p] = current]
         /\ pc' = [pc EXCEPT ![p] = "channel"]
         /\ UNCHANGED using

Begin(p) ==
    /\ pc[p] = "start"
    /\ IF connection \in open
       THEN GetChannel(p, connection)
       ELSE pc' = [pc EXCEPT ![p] = "connect"] /\ UNCHANGED <<on, using>>
    /\ UNCHANGED <<connection, channel, open, live, closed>>

\* connect_robust returns: whatever self._connection is by now is replaced.
Connected(p) ==
    /\ pc[p] = "connect"
    /\ open' = open \cup {p}
    /\ connection' = p
    /\ GetChannel(p, p)
    /\ UNCHANGED <<channel, live, closed>>

\* connection.channel() returns.
ChannelOpened(p) ==
    /\ pc[p] = "channel" /\ on[p] \in open
    /\ live' = live \cup {p}
    /\ channel' = p
    /\ using' = [using EXCEPT ![p] = p]
    /\ pc' = [pc EXCEPT ![p] = "declare"]
    /\ UNCHANGED <<connection, open, on, closed>>

\* declare_queue, then publish.
Declare(p) ==
    /\ pc[p] = "declare" /\ using[p] \in live
    /\ pc' = [pc EXCEPT ![p] = "publish"]
    /\ UNCHANGED <<connection, channel, open, live, on, using, closed>>

Publish(p) ==
    /\ pc[p] = "publish" /\ using[p] \in live
    /\ pc' = [pc EXCEPT ![p] = "ended"]
    /\ UNCHANGED <<connection, channel, open, live, on, using, closed>>

\* Any of the awaits may raise.
Raise(p) ==
    /\ pc[p] \in {"connect", "channel", "declare", "publish"}
    /\ pc' = [pc EXCEPT ![p] = "ended"]
    /\ UNCHANGED <<connection, channel, open, live, on, using, closed>>

\* The broker closes a channel, on an error in what was sent on it.
ChannelDies ==
    /\ \E c \in live : live' = live \ {c}
    /\ UNCHANGED <<connection, channel, open, on, using, pc, closed>>

\* close.  A connection takes its channels with it.
Close ==
    /\ closed' = TRUE
    /\ open' = open \ {connection}
    /\ live' = {c \in live \ {channel} : on[c] # connection}
    /\ connection' = None /\ channel' = None
    /\ UNCHANGED <<on, using, pc>>

UnderWay(p) == pc[p] \notin {"start", "ended"}

\* What a call that is under way does next, whether it goes well or not.
GoOn(p) ==
    Connected(p) \/ ChannelOpened(p) \/ Declare(p) \/ Publish(p) \/ Raise(p)

\* The publisher on its own: it is closed when no call is under way.
Next ==
    \/ \E p \in Calls : (~closed /\ Begin(p)) \/ GoOn(p)
    \/ ChannelDies
    \/ ~closed /\ (\A p \in Calls : ~UnderWay(p)) /\ Close

Spec == Init /\ [][Next]_vars
-----------------------------------------------------------------------------
\* queue/base.py:19 of close: "Release any underlying connection/channel."
Released == closed => open = {} /\ live = {}
=============================================================================
