------------------------ MODULE ServerProcess_proofs ------------------------
(***************************************************************************)
(* Theorems about ServerProcess, for any number of processes, starts and   *)
(* RPCs.                                                                   *)
(***************************************************************************)
EXTENDS ServerProcess, TLAPS

Working == {"up", "draining", "cancelling", "closing", "closed"}

\* The server is in server.stop, or serves.
Serving == {"up", "draining", "cancelling"}

\* One transaction at a time creates the table, and only while it is not there;
\* whoever failed did so because it was, and somebody never will.
BootInv ==
    /\ \A p \in Processes : phase[p] \in Working => table
    /\ \A p, o \in Processes : phase[p] = "commit" => ~table /\ (phase[o] = "commit" => o = p)
    /\ \A p \in Processes : failures[p] # 0 => failures[p] = 1 /\ table /\ phase[p] # "create"
    /\ table => \E p \in Processes : failures[p] = 0 /\ phase[p] # "create"

\* RPCs are accepted and publish only while the server serves or stops, and its
\* publisher is open until it has.
StopInv ==
    /\ \A c \in Calls : UnderWay(c) => c \in accepted
    /\ accepted # {} => phase[Server] \in Serving
    /\ closed => /\ connection = None /\ channel = None
                 /\ phase[Server] \in {"closed", "down"}

IInv == ProcessTypeOK /\ BootInv /\ StopInv
-----------------------------------------------------------------------------
(* The steps                                                                *)

\* A process that works, or dies, leaves the question of the table as it is.
LEMMA BootKept ==
  ASSUME ProcessTypeOK, BootInv, NEW p \in Processes, NEW l \in Phases, Becomes(p, l),
         UNCHANGED <<table, failures>>,
         l = "down" \/ l = "inspect" \/ (l \in Working /\ table)
  PROVE  BootInv'
BY DEF BootInv, Becomes, ProcessTypeOK, Phases, Working

LEMMA InitIInv == ProcessInit => IInv
<1> SUFFICES ASSUME ProcessInit PROVE IInv
  OBVIOUS
<1>1. ProcessTypeOK
  <2>1. TypeOK
    BY DEF ProcessInit, Init, TypeOK
  <2>2. \A p \in Processes : 0 <= MaxStarts[p]
    BY ProcessAssumption
  <2> QED BY <2>1, <2>2 DEF ProcessInit, ProcessTypeOK, Phases
<1>2. BootInv
  BY DEF ProcessInit, BootInv, Working
<1>3. StopInv
  BY DEF ProcessInit, Init, StopInv, UnderWay
<1> QED BY <1>1, <1>2, <1>3 DEF IInv

LEMMA StartIInv ==
  ASSUME IInv, NEW p \in Processes, Start(p)
  PROVE  IInv'
<1>1. ProcessTypeOK'
  <2>1. TypeOK' /\ UNCHANGED <<table, failures, accepted>>
    BY DEF IInv, ProcessTypeOK, TypeOK, Start
  <2>2. /\ starts' \in [Processes -> Nat]
        /\ \A o \in Processes : starts'[o] <= MaxStarts[o]
    <3>1. starts[p] + 1 \in Nat /\ starts[p] + 1 <= MaxStarts[p]
      <4>1. starts[p] \in Nat /\ MaxStarts[p] \in Nat /\ starts[p] < MaxStarts[p]
        BY ProcessAssumption DEF IInv, ProcessTypeOK, Start
      <4> QED BY <4>1
    <3> QED BY <3>1 DEF IInv, ProcessTypeOK, Start
  <2>3. phase' \in [Processes -> Phases]
    BY DEF IInv, ProcessTypeOK, Start, Becomes, Phases
  <2> QED BY <2>1, <2>2, <2>3 DEF IInv, ProcessTypeOK
<1>2. BootInv'
  BY BootKept DEF IInv, Start, Phases
<1>3. StopInv'
  BY ProcessAssumption DEF IInv, ProcessTypeOK, StopInv, Start, Becomes, UnderWay, Serving
<1> QED BY <1>1, <1>2, <1>3 DEF IInv

LEMMA BootIInv ==
  ASSUME IInv, NEW p \in Processes, Boot(p)
  PROVE  IInv'
<1>1. ProcessTypeOK'
  <2>1. TypeOK' /\ UNCHANGED <<starts, accepted>>
    BY DEF IInv, ProcessTypeOK, TypeOK, vars, Boot, Inspect, Create, Commit
  <2>2. table' \in BOOLEAN
    BY DEF IInv, ProcessTypeOK, Boot, Inspect, Create, Commit
  <2>3. failures' \in [Processes -> Nat]
    BY DEF IInv, ProcessTypeOK, Boot, Inspect, Create, Commit
  <2>4. phase' \in [Processes -> Phases]
    BY DEF IInv, ProcessTypeOK, Boot, Inspect, Create, Commit, Becomes, Phases
  <2> QED BY <2>1, <2>2, <2>3, <2>4 DEF IInv, ProcessTypeOK
<1>2. BootInv'
  <2>1. CASE Inspect(p)
    BY <2>1 DEF IInv, ProcessTypeOK, BootInv, Inspect, Becomes, Working
  <2>2. CASE Create(p)
    BY <2>2 DEF IInv, ProcessTypeOK, BootInv, Create, Becomes, Working
  <2>3. CASE Commit(p)
    <3>1. \A o \in Processes : failures[o] = 0
      BY <2>3 DEF IInv, BootInv, Commit
    <3> QED BY <2>3, <3>1 DEF IInv, ProcessTypeOK, BootInv, Commit, Becomes, Working
  <2> QED BY <2>1, <2>2, <2>3 DEF Boot
<1>3. StopInv'
  <2>1. phase[p] \in {"inspect", "create", "commit"} /\ UNCHANGED <<vars, accepted>>
    BY DEF Boot, Inspect, Create, Commit
  <2>2. \E l \in Phases : Becomes(p, l)
    BY DEF Boot, Inspect, Create, Commit, Phases
  <2> QED BY <2>1, <2>2 DEF IInv, ProcessTypeOK, StopInv, Becomes, UnderWay, vars, Serving
<1> QED BY <1>1, <1>2, <1>3 DEF IInv

LEMMA DieIInv ==
  ASSUME IInv, NEW p \in Processes, phase[p] # "down", Die(p)
  PROVE  IInv'
<1>1. ProcessTypeOK'
  BY DEF IInv, ProcessTypeOK, TypeOK, vars, Die, EndCalls, Becomes, Phases
<1>2. BootInv'
  BY BootKept DEF IInv, Die, Phases
<1>3. StopInv'
  <2>1. CASE p = Server
    BY <2>1 DEF IInv, ProcessTypeOK, StopInv, Die, EndCalls, Becomes, UnderWay
  <2>2. CASE p # Server
    BY <2>2, ProcessAssumption DEF IInv, ProcessTypeOK, StopInv, Die, Becomes, UnderWay, vars
  <2> QED BY <2>1, <2>2
<1> QED BY <1>1, <1>2, <1>3 DEF IInv

\* What an RPC does touches the publisher alone, and only while there is one.
LEMMA PublisherIInv ==
  ASSUME IInv, TypeOK', UNCHANGED bootVars, accepted' \subseteq Calls,
         accepted' # {} => phase[Server] \in Serving,
         \A c \in Calls : UnderWay(c)' => c \in accepted',
         closed' = closed, closed => UNCHANGED <<connection, channel>>
  PROVE  IInv'
<1>1. ProcessTypeOK'
  BY DEF IInv, ProcessTypeOK, bootVars
<1>2. BootInv'
  BY DEF IInv, BootInv, bootVars
<1>3. StopInv'
  BY DEF IInv, StopInv, bootVars
<1> QED BY <1>1, <1>2, <1>3 DEF IInv

LEMMA AcceptIInv ==
  ASSUME IInv, NEW c \in Calls, Accept(c)
  PROVE  IInv'
BY PublisherIInv DEF Accept, vars, IInv, ProcessTypeOK, TypeOK, StopInv, UnderWay, Serving

LEMMA PublishIInv ==
  ASSUME IInv, NEW c \in Calls, PublishStep(c)
  PROVE  IInv'
<1>1. c \in accepted /\ (Begin(c) \/ GoOn(c)) /\ UNCHANGED <<bootVars, accepted>>
  BY DEF PublishStep
<1>2. ~closed
  BY <1>1 DEF IInv, StopInv, Serving
<1>3. TypeOK' /\ closed' = closed /\ \A o \in Calls : o # c => pc'[o] = pc[o]
  <2>1. TypeOK
    BY DEF IInv, ProcessTypeOK
  <2>2. CASE Begin(c)
    BY <2>1, <2>2 DEF TypeOK, Begin, GetChannel
  <2>3. CASE Connected(c)
    BY <2>1, <2>3 DEF TypeOK, Connected, GetChannel
  <2>4. CASE ChannelOpened(c)
    BY <2>1, <2>4 DEF TypeOK, ChannelOpened
  <2>5. CASE Declare(c) \/ Publish(c) \/ Raise(c)
    BY <2>1, <2>5 DEF TypeOK, Declare, Publish, Raise
  <2> QED BY <1>1, <2>2, <2>3, <2>4, <2>5 DEF GoOn
<1>4. \A o \in Calls : UnderWay(o)' => o \in accepted'
  BY <1>1, <1>3 DEF IInv, StopInv, UnderWay
<1>5. accepted' \subseteq Calls /\ (accepted' # {} => phase[Server] \in Serving)
  BY <1>1 DEF IInv, ProcessTypeOK, StopInv
<1> QED BY <1>1, <1>2, <1>3, <1>4, <1>5, PublisherIInv

LEMMA EndRPCIInv ==
  ASSUME IInv, NEW c \in Calls, EndRPC(c) \/ Cancelled(c)
  PROVE  IInv'
<1>1. /\ pc' = [o \in Calls |-> IF o \in {c} THEN "ended" ELSE pc[o]]
      /\ accepted' = accepted \ {c}
      /\ UNCHANGED <<connection, channel, open, live, on, using, closed, bootVars>>
  BY DEF EndRPC, Cancelled, EndCalls
<1>2. TypeOK'
  BY <1>1 DEF IInv, ProcessTypeOK, TypeOK
<1>3. \A o \in Calls : UnderWay(o)' => o \in accepted'
  BY <1>1 DEF IInv, StopInv, UnderWay
<1>4. accepted' \subseteq Calls /\ (accepted' # {} => phase[Server] \in Serving)
  BY <1>1 DEF IInv, ProcessTypeOK, StopInv
<1> QED BY <1>1, <1>2, <1>3, <1>4, PublisherIInv

LEMMA BrokerIInv ==
  ASSUME IInv, BrokerClosesChannel
  PROVE  IInv'
<1>1. TypeOK'
  BY DEF IInv, ProcessTypeOK, TypeOK, BrokerClosesChannel, ChannelDies
<1>2. \A o \in Calls : UnderWay(o)' => o \in accepted'
  BY DEF IInv, StopInv, UnderWay, BrokerClosesChannel, ChannelDies
<1> QED BY <1>1, <1>2, PublisherIInv
        DEF BrokerClosesChannel, ChannelDies, IInv, ProcessTypeOK, StopInv

LEMMA StopIInv ==
  ASSUME IInv, Signal \/ Drained \/ GraceOver \/ ClosePublisher
  PROVE  IInv'
<1>1. /\ phase[Server] \in Working
      /\ \E l \in Working \ {"up"} : Becomes(Server, l)
      /\ UNCHANGED <<table, starts, failures>>
  BY DEF Signal, Drained, GraceOver, ClosePublisher, Working
<1>2. ProcessTypeOK'
  <2>1. TypeOK' /\ accepted' \subseteq Calls
    BY DEF IInv, ProcessTypeOK, TypeOK, vars, Signal, Drained, GraceOver,
           ClosePublisher, Close
  <2> QED BY <1>1, <2>1 DEF IInv, ProcessTypeOK, Becomes, Phases, Working
<1>3. BootInv'
  <2>1. table
    BY <1>1, ProcessAssumption DEF IInv, BootInv, Working
  <2> QED BY <1>1, <2>1, BootKept, ProcessAssumption DEF IInv, Phases, Working
<1>4. StopInv'
  <2>1. phase \in [Processes -> Phases] /\ Server \in Processes
    BY ProcessAssumption DEF IInv, ProcessTypeOK
  <2>2. CASE Signal \/ Drained \/ GraceOver
    BY <2>1, <2>2 DEF IInv, StopInv, vars, Signal, Drained, GraceOver, Becomes, UnderWay, Serving
  <2>3. CASE ClosePublisher
    BY <2>1, <2>3 DEF IInv, StopInv, ClosePublisher, Close, Becomes, UnderWay, Serving
  <2> QED BY <2>2, <2>3
<1> QED BY <1>2, <1>3, <1>4 DEF IInv

LEMMA NextIInv == IInv /\ [ProcessNext]_allVars => IInv'
<1> SUFFICES ASSUME IInv, [ProcessNext]_allVars PROVE IInv'
  OBVIOUS
<1>1. ASSUME NEW p \in Processes, Start(p) \/ Boot(p) \/ Crash(p) PROVE IInv'
  BY <1>1, StartIInv, BootIInv, DieIInv DEF Crash
<1>2. ASSUME NEW c \in Calls, Accept(c) \/ PublishStep(c) \/ EndRPC(c) \/ Cancelled(c)
      PROVE  IInv'
  BY <1>2, AcceptIInv, PublishIInv, EndRPCIInv
<1>3. CASE BrokerClosesChannel \/ Signal \/ ShutDown
  <2>1. CASE Exit
    BY <2>1, DieIInv, ProcessAssumption DEF Exit
  <2> QED BY <1>3, <2>1, BrokerIInv, StopIInv DEF ShutDown
<1>4. CASE UNCHANGED allVars
  BY <1>4 DEF allVars, vars, bootVars, IInv, ProcessTypeOK, TypeOK, BootInv, StopInv, UnderWay
<1> QED BY <1>1, <1>2, <1>3, <1>4 DEF ProcessNext
-----------------------------------------------------------------------------
(* The theorems                                                             *)

\* The inductive invariant: types, who may create the table, and who may use the
\* publisher.
THEOREM AlwaysIInv == ProcessSpec => []IInv
<1> QED BY InitIInv, NextIInv, PTL DEF ProcessSpec

\* Whatever crashes, a process at work has the table before it.
THEOREM WorkHasTable == ProcessSpec => []TableBeforeWork
<1>1. IInv => TableBeforeWork
  BY DEF IInv, BootInv, TableBeforeWork, Working
<1> QED BY <1>1, AlwaysIInv, PTL

\* However many processes start together and however often, each loses the race
\* for the table once at the most, and one of them never does.
THEOREM RaceIsLostOnce == ProcessSpec => []FailsOnceAtMost
<1>1. IInv => FailsOnceAtMost
  <2> SUFFICES ASSUME IInv PROVE FailsOnceAtMost
    OBVIOUS
  <2>1. \A p \in Processes : failures[p] <= 1
    BY DEF IInv, BootInv
  <2>2. \E p \in Processes : failures[p] = 0
    BY ProcessAssumption DEF IInv, BootInv
  <2> QED BY <2>1, <2>2 DEF FailsOnceAtMost
<1> QED BY <1>1, AlwaysIInv, PTL

\* No RPC outlives the publisher, for any number of them.
THEOREM NobodyOutlivesPublisher == ProcessSpec => []ClosedForGood
<1>1. IInv => ClosedForGood
  BY DEF IInv, StopInv, ClosedForGood, Serving
<1> QED BY <1>1, AlwaysIInv, PTL
=============================================================================
