---------------------------- MODULE ServerProcess ----------------------------
(***************************************************************************)
(* The processes of the system from start to end: the server (serve in     *)
(* src/doccontext/server.py) and the workers (main in                      *)
(* src/doccontext/worker.py).  Each makes sure of the table of jobs with   *)
(* bootstrap_schema before it does anything else.  The server then serves  *)
(* RPCs, some of which publish (see QueueClient), until a signal tells it  *)
(* to stop.  Of grpc.aio it is assumed that stop returns when no RPC is    *)
(* left, the cancelled ones included.  What an RPC does otherwise is in    *)
(* DocumentJobs and in QueryDocuments; what a worker does once it is up is *)
(* in DocumentJobs.                                                        *)
(***************************************************************************)
EXTENDS QueueClient, Naturals

CONSTANTS Processes,  \* the server and the workers
          Server,
          MaxStarts   \* bound: how often each process is started

ASSUME ProcessAssumption ==
    /\ Server \in Processes
    /\ MaxStarts \in [Processes -> Nat]
    /\ None \notin Calls

VARIABLES
    table,     \* whether the table of jobs is there for all to see
    phase,     \* process -> how far it is
    starts,    \* process -> how often it was started
    failures,  \* process -> history: how often its start failed
    accepted   \* the RPCs the server has accepted and not ended

bootVars == <<table, phase, starts, failures>>
allVars == <<vars, bootVars, accepted>>

Phases == {"down", "inspect", "create", "commit",
           "up", "draining", "cancelling", "closing", "closed"}

ProcessTypeOK ==
    /\ TypeOK
    /\ table \in BOOLEAN
    /\ phase \in [Processes -> Phases]
    /\ starts \in [Processes -> Nat]
    /\ \A p \in Processes : starts[p] <= MaxStarts[p]
    /\ failures \in [Processes -> Nat]
    /\ accepted \subseteq Calls

ProcessInit ==
    /\ Init
    /\ table = FALSE
    /\ phase = [p \in Processes |-> "down"]
    /\ starts = [p \in Processes |-> 0]
    /\ failures = [p \in Processes |-> 0]
    /\ accepted = {}

Becomes(p, l) == phase' = [phase EXCEPT ![p] = l]
-----------------------------------------------------------------------------
(* The start                                                                *)

\* A process is started, again perhaps; a server has a new publisher.
Start(p) ==
    /\ phase[p] = "down" /\ starts[p] < MaxStarts[p]
    /\ starts' = [starts EXCEPT ![p] = @ + 1]
    /\ Becomes(p, "inspect")
    /\ closed' = (closed /\ p # Server)
    /\ UNCHANGED <<connection, channel, open, live, on, using, pc>>
    /\ UNCHANGED <<table, failures, accepted>>

\* Mutant: the table is created without a look.
InspectNothing(p) ==
    /\ phase[p] = "inspect"
    /\ Becomes(p, "create")
    /\ UNCHANGED <<vars, table, starts, failures, accepted>>

\* create_all looks whether the table is there; what another process has not
\* committed it does not see.
Inspect(p) ==
    /\ phase[p] = "inspect"
    /\ Becomes(p, IF table THEN "up" ELSE "create")
    /\ UNCHANGED <<vars, table, starts, failures, accepted>>

\* CREATE TABLE waits for the end of a transaction that creates the same table,
\* and raises if that one was committed: the process ends with a traceback.
Create(p) ==
    /\ phase[p] = "create"
    /\ \A other \in Processes : phase[other] # "commit"
    /\ IF table
       THEN Becomes(p, "down") /\ failures' = [failures EXCEPT ![p] = @ + 1]
       ELSE Becomes(p, "commit") /\ UNCHANGED failures
    /\ UNCHANGED <<vars, table, starts, accepted>>

\* Mutant: the connection is given back without a commit.
CommitForgotten(p) ==
    /\ phase[p] = "commit"
    /\ Becomes(p, "up")
    /\ UNCHANGED <<vars, table, starts, failures, accepted>>

\* engine.begin() commits, and the process goes to work.
Commit(p) ==
    /\ phase[p] = "commit"
    /\ table' = TRUE
    /\ Becomes(p, "up")
    /\ UNCHANGED <<vars, starts, failures, accepted>>

\* The calls of publish in C are over, wherever they were.
EndCalls(C) == pc' = [c \in Calls |-> IF c \in C THEN "ended" ELSE pc[c]]

\* The process ends: its sockets are closed with it, and its transaction is
\* rolled back.
Die(p) ==
    /\ Becomes(p, "down")
    /\ IF p = Server
       THEN /\ connection' = None /\ channel' = None /\ open' = {} /\ live' = {}
            /\ EndCalls(accepted) /\ accepted' = {}
            /\ UNCHANGED <<on, using, closed>>
       ELSE UNCHANGED <<vars, accepted>>
    /\ UNCHANGED <<table, starts, failures>>

\* It is killed, or a worker stops (see Stop in DocumentJobs).
Crash(p) == phase[p] # "down" /\ Die(p)
-----------------------------------------------------------------------------
(* The RPCs                                                                 *)

Accept(c) ==
    /\ phase[Server] = "up" /\ pc[c] = "start"
    /\ accepted' = accepted \cup {c}
    /\ UNCHANGED <<vars, bootVars>>

\* What an RPC does with the publisher.
PublishStep(c) ==
    /\ c \in accepted
    /\ Begin(c) \/ GoOn(c)
    /\ UNCHANGED <<bootVars, accepted>>

\* It has published, or never comes to it, and ends.
EndRPC(c) ==
    /\ c \in accepted /\ ~UnderWay(c)
    /\ EndCalls({c}) /\ accepted' = accepted \ {c}
    /\ UNCHANGED <<connection, channel, open, live, on, using, closed, bootVars>>

BrokerClosesChannel == ChannelDies /\ UNCHANGED <<bootVars, accepted>>
-----------------------------------------------------------------------------
(* The end                                                                  *)

\* SIGINT or SIGTERM: server.stop accepts no more RPCs.
Signal ==
    /\ phase[Server] = "up"
    /\ Becomes(Server, "draining")
    /\ UNCHANGED <<vars, table, starts, failures, accepted>>

\* server.stop returns when all RPCs have ended.
Drained ==
    /\ phase[Server] \in {"draining", "cancelling"} /\ accepted = {}
    /\ Becomes(Server, "closing")
    /\ UNCHANGED <<vars, table, starts, failures, accepted>>

\* Mutant: server.stop returns while they still run.
GraceOverUnheeded ==
    /\ phase[Server] = "draining" /\ accepted # {}
    /\ Becomes(Server, "closing")
    /\ UNCHANGED <<vars, table, starts, failures, accepted>>

\* Mutant: server.stop waits for them as long as it takes.
GraceNeverOver == FALSE /\ UNCHANGED allVars

\* Five seconds have passed: the RPCs that are left are to be cancelled.
GraceOver ==
    /\ phase[Server] = "draining" /\ accepted # {}
    /\ Becomes(Server, "cancelling")
    /\ UNCHANGED <<vars, table, starts, failures, accepted>>

\* CancelledError reaches an RPC, at whatever await it is by then.
Cancelled(c) ==
    /\ phase[Server] = "cancelling" /\ c \in accepted
    /\ EndCalls({c}) /\ accepted' = accepted \ {c}
    /\ UNCHANGED <<connection, channel, open, live, on, using, closed, bootVars>>

ClosePublisher ==
    /\ phase[Server] = "closing"
    /\ Close
    /\ Becomes(Server, "closed")
    /\ UNCHANGED <<table, starts, failures, accepted>>

\* The HTTP client and the pool of connections are closed, and serve returns.
Exit == phase[Server] = "closed" /\ Die(Server)
-----------------------------------------------------------------------------
Boot(p) == Inspect(p) \/ Create(p) \/ Commit(p)
ShutDown == Drained \/ GraceOver \/ ClosePublisher \/ Exit

ProcessNext ==
    \/ \E p \in Processes : Start(p) \/ Boot(p) \/ Crash(p)
    \/ \E c \in Calls : Accept(c) \/ PublishStep(c) \/ EndRPC(c) \/ Cancelled(c)
    \/ BrokerClosesChannel \/ Signal \/ ShutDown

ProcessSpec == ProcessInit /\ [][ProcessNext]_allVars

\* Postgres answers, the timer of the grace period goes off, the event loop brings
\* CancelledError to who is cancelled, and the broker lets the publisher go.
\* Nothing else is assumed of the RPCs: an LLM call may take a
\* minute, and a publish may wait for ever for the broker's confirmation.
ProcessFairSpec ==
    /\ ProcessSpec
    /\ \A p \in Processes : WF_allVars(Boot(p))
    /\ WF_allVars(ShutDown)
    /\ \A c \in Calls : WF_allVars(Cancelled(c))
-----------------------------------------------------------------------------
\* A server that accepts RPCs and a worker that takes jobs have the table of
\* jobs before them, whoever created it and whoever crashed while doing so.
TableBeforeWork ==
    \A p \in Processes :
        phase[p] \in {"up", "draining", "cancelling", "closing", "closed"} => table

\* bootstrap_schema looks for the table and then creates it, so a process that
\* starts together with another one may fail.  It does so once at the most, and
\* never all of them: a process that is started again finds the table.
FailsOnceAtMost ==
    /\ \A p \in Processes : failures[p] <= 1
    /\ \E p \in Processes : failures[p] = 0

\* Once the publisher is closed no RPC is left that could connect again and send
\* a message nobody answers for.
ClosedForGood ==
    closed => /\ connection = None /\ channel = None
              /\ \A c \in Calls : c \notin accepted /\ ~UnderWay(c)

\* The server ends after a signal, although RPCs hang.
StopEnds == phase[Server] = "draining" ~> phase[Server] = "down"
=============================================================================
