------------------------- MODULE TestExecutionProofs -------------------------
(***************************************************************************)
(* A transfer reported without a fault is complete, for every data size,   *)
(* number of streams, chunk size, window and limit of streams.             *)
(*                                                                         *)
(* The argument: the peer finishes a stream only after the stream's whole  *)
(* share, so a stream task that ended well has drained its share; the sums *)
(* after awaiting the first k tasks are the shares of the first k streams; *)
(* and the shares of all streams add up to the data size.                  *)
(***************************************************************************)
EXTENDS TestExecution, FiniteSetTheorems, TLAPS

USE StreamsAssumption, DataSizeAssumption, ChunkSizeAssumption, LimitsAssumption

Base == DataSize \div Streams
Rest == DataSize % Streams

\* The shares of the first k streams together.
SumTo(k) == IF k = Streams THEN DataSize ELSE k * Base

------------------------------------------------------------------------------
(* Arithmetic of the split and of the chunks. *)

LEMMA DivMod == ASSUME NEW a \in Nat, NEW b \in Nat \ {0}
                PROVE  /\ a \div b \in Nat /\ a % b \in Nat
                       /\ b * (a \div b) + (a % b) = a
  OBVIOUS

LEMMA BaseRest == Base \in Nat /\ Rest \in Nat /\ Streams * Base + Rest = DataSize
  BY DivMod DEF Base, Rest

LEMMA PlannedAll == \A n \in Nat : Planned(n) = n
  BY DivMod DEF Planned

LEMMA ShareIs == \A i : Share(i) = IF i = Streams - 1 THEN Base + Rest ELSE Base
  BY DEF Share, Base, Rest

LEMMA Multiples == \A k \in 0..Streams : k * Base \in Nat /\ k * Base <= Streams * Base
<1>1. ASSUME NEW k \in 0..Streams PROVE k * Base \in Nat /\ k * Base <= Streams * Base
  BY BaseRest
<1> QED  BY <1>1

LEMMA SumToBound == \A k \in 0..Streams : SumTo(k) \in 0..DataSize
  BY Multiples, BaseRest DEF SumTo

LEMMA ShareBound == \A i \in Stream : Share(i) \in 0..DataSize
<1>1. Streams = 1 => Base + Rest = DataSize
  BY BaseRest
<1>2. Base <= Streams * Base
  BY Multiples, BaseRest
<1> QED  BY <1>1, <1>2, BaseRest, ShareIs DEF Stream

LEMMA SumToStep == \A k \in Stream : SumTo(k + 1) = SumTo(k) + Share(k)
<1> SUFFICES ASSUME NEW k \in Stream PROVE SumTo(k + 1) = SumTo(k) + Share(k)
  OBVIOUS
<1>1. (k + 1) * Base = k * Base + Base
  BY BaseRest DEF Stream
<1>2. k # Streams /\ k * Base \in Nat
  BY Multiples DEF Stream
<1>3. SumTo(k) = k * Base
  BY <1>2 DEF SumTo
<1>4. CASE k = Streams - 1
  <2>1. k + 1 = Streams /\ SumTo(k + 1) = DataSize
    BY <1>4 DEF SumTo
  <2>2. Streams * Base = k * Base + Base
    BY <2>1, <1>1
  <2>3. Share(k) = Base + Rest
    BY <1>4, ShareIs
  <2> QED  BY <1>2, <1>3, <2>1, <2>2, <2>3, BaseRest
<1>5. CASE k # Streams - 1
  <2>1. k + 1 # Streams /\ Share(k) = Base
    BY <1>5, ShareIs DEF Stream
  <2> QED  BY <1>1, <1>3, <2>1 DEF SumTo
<1> QED  BY <1>4, <1>5

LEMMA SumToZero == SumTo(0) = 0
  BY BaseRest DEF SumTo

------------------------------------------------------------------------------
(* The inductive invariant. *)

\* The sums are those of the tasks awaited so far, which all ended well.
SumInv ==
    /\ sent = SumTo(next)
    /\ received = SumTo(next)
    /\ \A i \in Stream : i < next => client[i] = "ok"

\* No direction carries more than its share; a finished one carries it all,
\* and a task that ended well has drained it.
Data(i) ==
    /\ upRead[i] <= upSent[i] /\ upSent[i] <= Share(i)
    /\ downRead[i] <= downSent[i] /\ downSent[i] <= Share(i)
    /\ <<"down", i>> \in fins => downSent[i] = Share(i)
    /\ client[i] = "ok" => downRead[i] = Share(i)

DataInv == \A i \in Stream : Data(i)

\* What the executor has said, and when.
PhaseInv ==
    /\ phase \in {"latency", "connect"} => next = 0
    /\ kind = "latency" => phase \in {"latency", "ended"}
    /\ phase # "ended" => result = "none" /\ fault = "none"
    /\ phase = "ended" /\ fault = "none" /\ kind # "latency" => next = Streams

Inv == TypeOK /\ SumInv /\ DataInv /\ PhaseInv

LEMMA InvInit == Init => Inv
<1> SUFFICES ASSUME Init PROVE Inv
  OBVIOUS
<1> USE DEF Init
<1>1. TypeOK
  BY DEF TypeOK, PeerOver, ClientOver
<1>2. SumInv
  BY SumToZero DEF SumInv, Stream
<1>3. DataInv
  BY ShareBound DEF DataInv, Data
<1>4. PhaseInv
  BY DEF PhaseInv
<1> QED  BY <1>1, <1>2, <1>3, <1>4 DEF Inv

\* A step of the executor outside of its awaits.
LEMMA ExecutorStep ==
    ASSUME Inv, LatencyDone \/ LatencyFails \/ ConnectFails
                \/ AwaitFails \/ Complete \/ Timeout \/ Cancel
    PROVE  Inv'
<1> USE DEF Inv, Return, ErrorVariant, TransferVariant
<1>1. UNCHANGED <<kind, next, sent, received, client, peerVars, upVars, downVars, fins>>
  BY DEF LatencyDone, LatencyFails, ConnectFails, AwaitFails, Complete, Timeout, Cancel
<1>2. TypeOK'
  BY <1>1 DEF LatencyDone, LatencyFails, ConnectFails, AwaitFails, Complete, Timeout, Cancel,
              TypeOK, peerVars, upVars, downVars
<1>3. SumInv' /\ DataInv'
  BY <1>1 DEF SumInv, DataInv, Data, upVars, downVars
<1>4. PhaseInv'
  BY <1>1 DEF LatencyDone, LatencyFails, ConnectFails, AwaitFails, Complete, Timeout, Cancel,
              PhaseInv, TypeOK
<1> QED  BY <1>2, <1>3, <1>4

LEMMA ConnectStep == ASSUME Inv, Connect PROVE Inv'
<1> USE DEF Inv, Connect, peerVars, upVars, downVars
<1>1. next = 0
  BY DEF PhaseInv
<1>2. TypeOK'
  BY DEF TypeOK
<1>3. SumInv'
  BY <1>1 DEF SumInv, Stream
<1>4. DataInv'
  BY DEF DataInv, Data
<1>5. PhaseInv'
  BY DEF PhaseInv
<1> QED  BY <1>2, <1>3, <1>4, <1>5

LEMMA AwaitStep == ASSUME Inv, AwaitStream PROVE Inv'
<1> USE DEF Inv, AwaitStream, peerVars, upVars, downVars
<1>1. next \in Stream /\ next + 1 \in 0..Streams
  BY DEF TypeOK, Stream
<1>2. downRead[next] = Share(next)
  BY <1>1 DEF DataInv, Data
<1>3. sent' = SumTo(next + 1) /\ received' = SumTo(next + 1)
  BY <1>1, <1>2, SumToStep DEF SumInv
<1>4. TypeOK'
  BY <1>1, <1>3, SumToBound DEF TypeOK
<1>5. SumInv'
  <2>1. client[next] = "ok" /\ next \in 0..Streams
    BY DEF TypeOK
  <2>2. \A i \in Stream : i < next + 1 => i < next \/ i = next
    BY <2>1 DEF Stream
  <2>3. \A i \in Stream : i < next + 1 => client[i] = "ok"
    BY <2>1, <2>2 DEF SumInv
  <2>4. next' = next + 1 /\ client' = client
    OBVIOUS
  <2> QED  BY <1>3, <2>3, <2>4, Zenon DEF SumInv
<1>6. DataInv'
  BY DEF DataInv, Data
<1>7. PhaseInv'
  BY DEF PhaseInv
<1> QED  BY <1>4, <1>5, <1>6, <1>7

\* A stream task that only moves on.
LEMMA ClientStep ==
    ASSUME Inv, NEW i \in Stream,
           OpenStream(i) \/ FinishUp(i) \/ AckedUp(i) \/ DrainEnd(i) \/ StreamFails(i)
    PROVE  Inv'
<1> USE DEF Inv, OpenStream, FinishUp, AckedUp, DrainEnd, StreamFails, ClientGoes
<1>1. /\ UNCHANGED <<executorVars, conn, peerVars, upVars, downVars>>
      /\ fins' \in {fins, fins \cup {<<"up", i>>}}
  OBVIOUS
<1>2. PICK to \in {"send", "stopped", "drain", "ok", "err"} :
          /\ client' = [client EXCEPT ![i] = to]
          /\ to = "ok" => <<"down", i>> \in fins /\ downRead[i] = downSent[i]
  OBVIOUS
<1>3. client[i] # "ok"
  OBVIOUS
<1>4. TypeOK'
  BY <1>1, <1>2 DEF TypeOK, ClientOver, executorVars, peerVars, upVars, downVars
<1>5. SumInv'
  BY <1>1, <1>2, <1>3 DEF SumInv, TypeOK, executorVars
<1>6. DataInv'
  <2>1. fins' \subseteq fins \cup {<<"up", i>>}
    BY <1>1
  <2>2. \A j \in Stream : <<"down", j>> \in fins' => <<"down", j>> \in fins
    BY <2>1
  <2> QED  BY <1>1, <1>2, <2>2 DEF DataInv, Data, TypeOK, upVars, downVars
<1>7. PhaseInv'
  BY <1>1 DEF PhaseInv, executorVars
<1> QED  BY <1>4, <1>5, <1>6, <1>7

\* Steps that move one byte.
LEMMA ByteStep ==
    ASSUME Inv, NEW i \in Stream,
           SendByte(i) \/ DrainByte(i) \/ ReceiveByte(i) \/ SendBack(i)
    PROVE  Inv'
<1> USE DEF Inv, SendByte, DrainByte, ReceiveByte, SendBack
<1>1. UNCHANGED <<executorVars, conn, client, peerVars, fins>>
  OBVIOUS
<1>2. Share(i) \in 0..DataSize /\ Planned(Share(i)) = Share(i)
  BY ShareBound, PlannedAll
<1>3. TypeOK'
  BY <1>1, <1>2 DEF TypeOK, DataInv, Data, executorVars, peerVars, upVars, downVars
<1>4. SumInv' /\ PhaseInv'
  BY <1>1 DEF SumInv, PhaseInv, executorVars
<1>5. DataInv'
  <2> SUFFICES ASSUME NEW j \in Stream PROVE Data(j)'
    BY DEF DataInv
  <2>1. /\ Data(i) /\ Data(j)
        /\ upSent[i] \in Nat /\ upRead[i] \in Nat /\ downSent[i] \in Nat /\ downRead[i] \in Nat
    BY DEF DataInv, TypeOK
  <2>2. client' = client /\ fins' = fins
    BY <1>1
  <2>3. CASE SendByte(i)
    <3>1. upSent[i] < Share(i) /\ upSent' = [upSent EXCEPT ![i] = @ + 1]
          /\ UNCHANGED <<upRead, downSent, downRead>>
      BY <2>3, <1>2 DEF downVars
    <3> QED  BY ONLY <2>1, <2>2, <3>1, <1>2, Inv, i \in Stream, j \in Stream DEF Data, Inv, TypeOK
  <2>4. CASE DrainByte(i)
    <3>1. /\ client[i] # "ok" /\ downRead[i] < downSent[i]
          /\ downRead' = [downRead EXCEPT ![i] = @ + 1]
          /\ UNCHANGED <<upSent, upRead, downSent>>
      BY <2>4 DEF upVars
    <3> QED  BY ONLY <2>1, <2>2, <3>1, <1>2, Inv, i \in Stream, j \in Stream DEF Data, Inv, TypeOK
  <2>5. CASE ReceiveByte(i)
    <3>1. /\ upRead[i] < upSent[i] /\ upRead' = [upRead EXCEPT ![i] = @ + 1]
          /\ UNCHANGED <<upSent, downSent, downRead>>
      BY <2>5 DEF downVars
    <3> QED  BY ONLY <2>1, <2>2, <3>1, <1>2, Inv, i \in Stream, j \in Stream DEF Data, Inv, TypeOK
  <2>6. CASE SendBack(i)
    <3>1. /\ downSent[i] < Share(i) /\ downSent' = [downSent EXCEPT ![i] = @ + 1]
          /\ UNCHANGED <<upSent, upRead, downRead>>
      BY <2>6, <1>2 DEF upVars
    <3> QED  BY ONLY <2>1, <2>2, <3>1, <1>2, Inv, i \in Stream, j \in Stream DEF Data, Inv, TypeOK
  <2> QED  BY <2>3, <2>4, <2>5, <2>6
<1> QED  BY <1>3, <1>4, <1>5

\* Steps of the peer's tasks and of the connection that move no data.
LEMMA QuietStep ==
    ASSUME Inv,
           \/ DropLast \/ Handler \/ Lose \/ UNCHANGED vars
           \/ \E i \in Stream :
                 AcceptStream(i) \/ ReceiveEnds(i) \/ FinishDown(i) \/ SendEnds(i)
    PROVE  Inv'
<1> USE DEF Inv, DropLast, Handler, NoMoreStreams, AllJoined, Lose, AcceptStream,
            ReceiveEnds, FinishDown, SendEnds, vars, peerVars
<1>1. UNCHANGED <<executorVars, client, upVars, downVars>>
  OBVIOUS
<1>2. ASSUME NEW i \in Stream, FinishDown(i)
      PROVE  fins' = fins \cup {<<"down", i>>} /\ downSent[i] = Share(i)
  BY <1>2, PlannedAll, ShareBound
<1>3. TypeOK'
  <2> USE DEF TypeOK, PeerOver, executorVars, upVars, downVars
  <2>1. CASE DropLast \/ Handler \/ Lose \/ UNCHANGED vars
    BY <2>1
  <2>2. ASSUME NEW i \in Stream, AcceptStream(i) \/ ReceiveEnds(i) \/ SendEnds(i)
        PROVE  TypeOK'
    BY <2>2
  <2>3. ASSUME NEW i \in Stream, FinishDown(i) PROVE TypeOK'
    BY <2>3
  <2> QED  BY <2>1, <2>2, <2>3
<1>4. SumInv' /\ PhaseInv'
  BY <1>1 DEF SumInv, PhaseInv, executorVars
<1>5. DataInv'
  <2>1. fins' = fins \/ \E i \in Stream : FinishDown(i)
    OBVIOUS
  <2>2. \A j \in Stream : <<"down", j>> \in fins' => downSent[j] = Share(j)
    BY <1>2, <2>1 DEF DataInv, Data
  <2> QED  BY <1>1, <2>2 DEF DataInv, Data, upVars, downVars
<1> QED  BY <1>3, <1>4, <1>5

LEMMA InvStep == Inv /\ [Next]_vars => Inv'
<1> SUFFICES ASSUME Inv, [Next]_vars PROVE Inv'
  OBVIOUS
<1>1. CASE Executor \/ Timeout \/ Cancel
  BY <1>1, ExecutorStep, ConnectStep, AwaitStep DEF Executor
<1>2. CASE DropLast \/ Handler \/ Lose \/ Terminated \/ UNCHANGED vars
  BY <1>2, QuietStep DEF Terminated
<1>3. ASSUME NEW i \in Stream, ClientTask(i) PROVE Inv'
  BY <1>3, ClientStep, ByteStep DEF ClientTask
<1>4. ASSUME NEW i \in Stream, AcceptStream(i) \/ Receiver(i) \/ Sender(i) PROVE Inv'
  BY <1>4, QuietStep, ByteStep DEF Receiver, Sender
<1> QED  BY <1>1, <1>2, <1>3, <1>4 DEF Next

------------------------------------------------------------------------------
(* Theorems. *)

\* The invariant holds in every reachable state of every instance.
THEOREM Invariance == Spec => []Inv
  BY InvInit, InvStep, PTL DEF Spec

\* Every variable keeps its type; the sums never exceed the data size.
THEOREM TypeCorrect == Spec => []TypeOK
<1>1. Inv => TypeOK
  BY DEF Inv
<1> QED  BY <1>1, Invariance, PTL

\* A transfer reported without a fault has moved all data both ways.
THEOREM CompleteSuccess == Spec => []SuccessIsComplete
<1>1. Inv => SuccessIsComplete
  BY DEF Inv, SumInv, PhaseInv, SumTo, SuccessIsComplete, Stream, TypeOK
<1> QED  BY <1>1, Invariance, PTL

------------------------------------------------------------------------------
(* No cyclic wait.  What is missing from Inv: which tasks there are while  *)
(* the connection is up, and which ends of a stream they have finished.    *)

ConnInv ==
    /\ phase \in {"latency", "connect"} => conn = "none"
    /\ phase = "transfer" => conn # "none"
    /\ conn = "none" <=> handler = "idle"
    /\ conn = "up" => handler = "accept"

\* Where the tasks of stream i are, at both ends.
StreamInv(i) ==
    /\ conn = "none" <=> client[i] = "idle"
    /\ conn = "none" => receiver[i] = "none"
    /\ conn = "up" => client[i] # "err" /\ receiver[i] # "err" /\ sender[i] # "err"
    /\ client[i] \in {"idle", "open", "send"} => <<"up", i>> \notin fins
    /\ client[i] \in {"stopped", "drain", "ok"} => <<"up", i>> \in fins
    /\ receiver[i] = "none" <=> sender[i] = "none"
    /\ receiver[i] = "ok" => <<"up", i>> \in fins
    /\ sender[i] \in {"stopped", "ok"} => <<"down", i>> \in fins

TaskInv == ConnInv /\ \A i \in Stream : StreamInv(i)

LEMMA TaskInit == Init => TaskInv
  BY DEF Init, TaskInv, ConnInv, StreamInv

\* Steps that leave the tasks of all streams where they are.
LEMMA CentreTaskStep ==
    ASSUME Inv, TaskInv, Executor \/ Timeout \/ Cancel \/ DropLast \/ Handler \/ Lose
    PROVE  TaskInv'
<1> USE DEF TaskInv, StreamInv, ConnInv, peerVars, executorVars
<1>1. CASE LatencyDone \/ LatencyFails \/ ConnectFails
  BY <1>1 DEF LatencyDone, LatencyFails, ConnectFails, Return
<1>2. CASE Connect
  <2>1. conn = "none" /\ conn' = "up" /\ phase' = "transfer" /\ handler' = "accept"
        /\ client' = [i \in Stream |-> "open"] /\ UNCHANGED <<receiver, sender, fins>>
    BY <1>2 DEF Connect
  <2>2. \A i \in Stream : <<"up", i>> \notin fins /\ receiver[i] = "none" /\ sender[i] = "none"
    BY <2>1
  <2> QED  BY <2>1, <2>2
<1>3. CASE AwaitStream \/ AwaitFails \/ Complete
  BY <1>3 DEF AwaitStream, AwaitFails, Complete, Return
<1>4. CASE Timeout \/ Cancel
  BY <1>4 DEF Timeout, Cancel, Return
<1>5. CASE DropLast \/ Handler \/ Lose
  BY <1>5 DEF DropLast, Handler, NoMoreStreams, AllJoined, Lose
<1> QED  BY <1>1, <1>2, <1>3, <1>4, <1>5 DEF Executor

\* A step of stream i leaves the other streams alone.
LEMMA OtherStreams ==
    ASSUME Inv, TaskInv, NEW i \in Stream, NEW j \in Stream, i # j,
           ClientTask(i) \/ AcceptStream(i) \/ Receiver(i) \/ Sender(i)
    PROVE  /\ client'[j] = client[j] /\ receiver'[j] = receiver[j] /\ sender'[j] = sender[j]
           /\ upSent'[j] = upSent[j] /\ upRead'[j] = upRead[j]
           /\ downSent'[j] = downSent[j] /\ downRead'[j] = downRead[j]
           /\ \A d \in {"up", "down"} : <<d, j>> \in fins' <=> <<d, j>> \in fins
<1> USE DEF Inv, TypeOK, upVars, downVars, peerVars, executorVars
<1>1. CASE ClientTask(i)
  BY <1>1 DEF ClientTask, OpenStream, SendByte, FinishUp, AckedUp, DrainByte, DrainEnd,
              StreamFails, ClientGoes
<1>2. CASE AcceptStream(i) \/ Receiver(i)
  BY <1>2 DEF AcceptStream, Receiver, ReceiveByte, ReceiveEnds
<1>3. CASE Sender(i)
  BY <1>3 DEF Sender, SendBack, FinishDown, SendEnds
<1> QED  BY <1>1, <1>2, <1>3

\* What a step of stream i does to that stream's own tasks.
LEMMA OwnStream ==
    ASSUME Inv, TaskInv, NEW i \in Stream,
           ClientTask(i) \/ AcceptStream(i) \/ Receiver(i) \/ Sender(i)
    PROVE  StreamInv(i)'
<1>0. StreamInv(i)
  BY DEF TaskInv
<1> USE <1>0 DEF Inv, TypeOK, StreamInv, upVars, downVars, peerVars, executorVars
<1>1. CASE OpenStream(i) \/ SendByte(i) \/ FinishUp(i) \/ AckedUp(i)
  BY <1>1 DEF OpenStream, SendByte, FinishUp, AckedUp, ClientGoes
<1>2. CASE DrainByte(i) \/ DrainEnd(i) \/ StreamFails(i)
  BY <1>2 DEF DrainByte, DrainEnd, StreamFails, ClientGoes
<1>3. CASE AcceptStream(i)
  BY <1>3 DEF AcceptStream
<1>4. CASE Receiver(i)
  BY <1>4 DEF Receiver, ReceiveByte, ReceiveEnds
<1>5. CASE Sender(i)
  BY <1>5 DEF Sender, SendBack, FinishDown, SendEnds
<1> QED  BY <1>1, <1>2, <1>3, <1>4, <1>5 DEF ClientTask

LEMMA TaskStep == Inv /\ TaskInv /\ [Next]_vars => TaskInv'
<1> SUFFICES ASSUME Inv, TaskInv, [Next]_vars PROVE TaskInv'
  OBVIOUS
<1>1. CASE Terminated \/ UNCHANGED vars
  BY <1>1 DEF Terminated, vars, executorVars, peerVars, upVars, downVars, TaskInv, ConnInv, StreamInv
<1>2. ASSUME NEW i \in Stream, ClientTask(i) \/ AcceptStream(i) \/ Receiver(i) \/ Sender(i)
      PROVE  TaskInv'
  <2>1. UNCHANGED <<phase, conn, handler>>
    BY <1>2 DEF ClientTask, OpenStream, SendByte, FinishUp, AckedUp, DrainByte, DrainEnd,
                StreamFails, ClientGoes, AcceptStream, Receiver, ReceiveByte, ReceiveEnds,
                Sender, SendBack, FinishDown, SendEnds, executorVars, peerVars
  <2>2. ConnInv'
    BY <2>1 DEF TaskInv, ConnInv
  <2>3. ASSUME NEW j \in Stream, i # j PROVE StreamInv(j)'
    BY <1>2, <2>1, <2>3, OtherStreams DEF TaskInv, StreamInv
  <2> QED  BY <1>2, <2>2, <2>3, OwnStream DEF TaskInv
<1> QED  BY <1>1, <1>2, CentreTaskStep DEF Next

LEMMA TaskInvariance == Spec => [](Inv /\ TaskInv)
<1>1. Inv /\ TaskInv /\ [Next]_vars => (Inv /\ TaskInv)'
  BY InvStep, TaskStep
<1> QED  BY <1>1, InvInit, TaskInit, PTL DEF Spec

\* While the connection is up, a stream none of whose tasks can go on either
\* waits to be opened or is over at both ends.
LEMMA OpenOrServed ==
    ASSUME Inv, TaskInv, conn = "up", NEW i \in Stream,
           i \in Opened, ~ClientReady(i), ~PeerReady(i)
    PROVE  client[i] = "ok" /\ i \in Served
<1> USE DEF Inv, TypeOK
<1>1. StreamInv(i) /\ Data(i) /\ handler = "accept"
  BY DEF TaskInv, ConnInv, DataInv
<1>2. Planned(Share(i)) = Share(i) /\ Share(i) \in Nat
  BY PlannedAll, ShareBound
<1>3. receiver[i] # "none"
  BY <1>1 DEF PeerReady
<1>4. sender[i] = "ok" \/ (sender[i] = "send" /\ downRead[i] < downSent[i])
  BY <1>1, <1>2, <1>3 DEF PeerReady, StreamInv, Data, PeerOver
<1>5. receiver[i] = "ok" \/ (receiver[i] = "drain" /\ upRead[i] = upSent[i] /\ <<"up", i>> \notin fins)
  BY <1>1, <1>3 DEF PeerReady, StreamInv, Data, PeerOver
<1>6. client[i] # "send"
  BY <1>1, <1>2, <1>5 DEF ClientReady, StreamInv, Data
<1>7. client[i] # "drain"
  BY <1>1, <1>4 DEF ClientReady, StreamInv
<1>8. client[i] = "ok"
  BY <1>1, <1>6, <1>7 DEF ClientReady, StreamInv, Opened, ClientOver
<1>9. receiver[i] = "ok" /\ sender[i] = "ok"
  BY <1>1, <1>4, <1>5, <1>8 DEF StreamInv, Data
<1> QED  BY <1>8, <1>9 DEF Served

LEMMA SomeoneReady == Inv /\ TaskInv => NeverStuck
<1> SUFFICES ASSUME Inv, TaskInv, ~(phase = "ended" /\ Released), ~ExecutorReady, ~HandlerReady,
                    \A i \in Stream : ~ClientReady(i) /\ ~PeerReady(i)
             PROVE  FALSE
  BY DEF NeverStuck
<1>1. ConnInv /\ (\A i \in Stream : StreamInv(i)) /\ TypeOK
  BY DEF Inv, TaskInv
<1>2. CASE conn = "none"
  BY <1>1, <1>2 DEF ConnInv, StreamInv, ExecutorReady, Released, TypeOK
<1>3. CASE conn \in {"closed", "lost"}
  <2>1. \A i \in Stream : client[i] \in ClientOver
    BY <1>1, <1>3 DEF ClientReady, StreamInv, TypeOK
  <2>2. \A i \in Stream : receiver[i] \in PeerOver /\ sender[i] \in PeerOver
    BY <1>1, <1>3 DEF PeerReady, TypeOK
  <2>3. handler = "done"
    BY <1>1, <1>3, <2>2 DEF HandlerReady, ConnInv, TypeOK
  <2>4. phase = "ended"
    BY <1>1, <2>1 DEF ExecutorReady, TypeOK, Stream
  <2> QED  BY <1>3, <2>1, <2>3, <2>4 DEF Released
<1>4. CASE conn = "up"
  <2>1. \A i \in Opened : client[i] = "ok" /\ i \in Served
    BY <1>4, OpenOrServed DEF Opened
  <2>2. Opened \ Served = {}
    BY <2>1
  <2>3. Cardinality(Opened \ Served) < MaxStreams
    BY <2>2, FS_EmptySet
  <2>4. \A i \in Stream : client[i] \in ClientOver
    BY <1>1, <1>4, <2>1, <2>3 DEF ClientReady, StreamInv, Opened, ClientOver
  <2>5. phase # "ended"
    BY <1>4, <2>4 DEF ExecutorReady
  <2> QED  BY <1>1, <1>4, <2>4, <2>5 DEF ConnInv, ExecutorReady, TypeOK, Stream
<1> QED  BY <1>1, <1>2, <1>3, <1>4 DEF TypeOK

\* Until everything is over and released some task can go on, whatever the
\* data, the number of streams, the windows and the peer's limit of streams.
THEOREM NoCyclicWait == Spec => []NeverStuck
  BY TaskInvariance, SomeoneReady, PTL

------------------------------------------------------------------------------
(* What is left to do, for each stream and for the rest.  No step adds to  *)
(* any of it and every step takes something away: there are finitely many  *)
(* steps, and with NoCyclicWait the last one leaves everything released.   *)

ClientLeft(i) ==
    IF client[i] = "idle" THEN 5 ELSE IF client[i] = "open" THEN 4 ELSE IF client[i] = "send" THEN 3
    ELSE IF client[i] = "stopped" THEN 2 ELSE IF client[i] = "drain" THEN 1 ELSE 0

PeerLeft(i) ==
    (IF receiver[i] = "none" THEN 2 ELSE IF receiver[i] = "drain" THEN 1 ELSE 0)
    + (IF sender[i] = "none" THEN 3 ELSE IF sender[i] = "send" THEN 2
       ELSE IF sender[i] = "stopped" THEN 1 ELSE 0)

BytesLeft(i) ==
    (DataSize - upSent[i]) + (DataSize - upRead[i])
    + (DataSize - downSent[i]) + (DataSize - downRead[i])

StreamLeft(i) == ClientLeft(i) + PeerLeft(i) + BytesLeft(i)

PhaseLeft == IF phase = "latency" THEN 3 ELSE IF phase = "connect" THEN 2
             ELSE IF phase = "transfer" THEN 1 ELSE 0

ConnLeft ==
    (IF conn = "none" THEN 2 ELSE IF conn = "up" THEN 1 ELSE 0)
    + (IF handler = "idle" THEN 3 ELSE IF handler = "accept" THEN 2
       ELSE IF handler = "join" THEN 1 ELSE 0)

CentreLeft == PhaseLeft + ConnLeft + (Streams - next)

LeftBounds ==
    /\ CentreLeft \in 0..(8 + Streams)
    /\ \A i \in Stream : StreamLeft(i) \in 0..(10 + 4 * DataSize)

MovesOn ==
    \/ /\ CentreLeft' < CentreLeft
       /\ \A i \in Stream : StreamLeft(i)' <= StreamLeft(i)
    \/ /\ CentreLeft' = CentreLeft
       /\ \E i \in Stream :
             /\ StreamLeft(i)' < StreamLeft(i)
             /\ \A j \in Stream \ {i} : StreamLeft(j)' = StreamLeft(j)

LEMMA LeftIsBounded == ASSUME TypeOK PROVE LeftBounds
<1>1. CentreLeft \in 0..(8 + Streams)
  <2>1. PhaseLeft \in 0..3 /\ ConnLeft \in 0..5
    BY DEF PhaseLeft, ConnLeft
  <2>2. Streams - next \in 0..Streams
    BY DEF TypeOK
  <2> QED  BY <2>1, <2>2 DEF CentreLeft
<1>2. ASSUME NEW i \in Stream PROVE StreamLeft(i) \in 0..(10 + 4 * DataSize)
  <2>1. ClientLeft(i) \in 0..5 /\ PeerLeft(i) \in 0..5
    BY DEF ClientLeft, PeerLeft
  <2>2. BytesLeft(i) \in 0..(4 * DataSize)
    <3>1. /\ upSent[i] \in 0..DataSize /\ upRead[i] \in 0..DataSize
          /\ downSent[i] \in 0..DataSize /\ downRead[i] \in 0..DataSize
      BY DEF TypeOK
    <3> QED  BY <3>1 DEF BytesLeft
  <2> QED  BY <2>1, <2>2 DEF StreamLeft
<1> QED  BY <1>1, <1>2 DEF LeftBounds

\* A step of the executor, of the handler or of the connection.
LEMMA CentreMovesOn ==
    ASSUME Inv, TaskInv, Executor \/ Timeout \/ Cancel \/ DropLast \/ Handler \/ Lose
    PROVE  MovesOn
<1>1. CentreLeft' < CentreLeft
  <2> USE DEF CentreLeft, PhaseLeft, ConnLeft, Inv, TypeOK, executorVars, peerVars
  <2>1. CASE LatencyDone \/ LatencyFails \/ ConnectFails
    BY <2>1 DEF LatencyDone, LatencyFails, ConnectFails, Return, TaskInv, ConnInv
  <2>2. CASE Connect
    BY <2>2 DEF Connect, TaskInv, ConnInv
  <2>3. CASE AwaitStream
    BY <2>3 DEF AwaitStream
  <2>4. CASE AwaitFails \/ Complete \/ Timeout \/ Cancel
    BY <2>4 DEF AwaitFails, Complete, Timeout, Cancel, Return
  <2>5. CASE DropLast \/ Handler \/ Lose
    BY <2>5 DEF DropLast, Handler, NoMoreStreams, AllJoined, Lose
  <2> QED  BY <2>1, <2>2, <2>3, <2>4, <2>5 DEF Executor
<1>2. ASSUME NEW i \in Stream PROVE StreamLeft(i)' <= StreamLeft(i)
  <2>1. UNCHANGED <<receiver, sender, upVars, downVars>>
    BY DEF Executor, LatencyDone, LatencyFails, ConnectFails, Connect, AwaitStream, AwaitFails,
           Complete, Timeout, Cancel, DropLast, Handler, NoMoreStreams, AllJoined, Lose, peerVars
  <2>2. PeerLeft(i)' = PeerLeft(i) /\ BytesLeft(i)' = BytesLeft(i)
    BY <2>1 DEF PeerLeft, BytesLeft, upVars, downVars
  <2>3. client'[i] = client[i] \/ (client[i] = "idle" /\ client'[i] = "open")
    BY DEF Executor, LatencyDone, LatencyFails, ConnectFails, Connect, AwaitStream, AwaitFails,
           Complete, Timeout, Cancel, DropLast, Handler, NoMoreStreams, AllJoined, Lose,
           TaskInv, ConnInv, StreamInv
  <2>4. ClientLeft(i)' <= ClientLeft(i)
    BY <2>3 DEF ClientLeft
  <2>5. PeerLeft(i) \in 0..5 /\ BytesLeft(i) \in 0..(4 * DataSize)
    <3>1. /\ upSent[i] \in 0..DataSize /\ upRead[i] \in 0..DataSize
          /\ downSent[i] \in 0..DataSize /\ downRead[i] \in 0..DataSize
      BY DEF Inv, TypeOK
    <3> QED  BY <3>1 DEF BytesLeft, PeerLeft
  <2>6. ClientLeft(i) \in 0..5 /\ ClientLeft(i)' \in 0..5
    BY DEF ClientLeft
  <2> QED  BY <2>2, <2>4, <2>5, <2>6 DEF StreamLeft
<1> QED  BY <1>1, <1>2 DEF MovesOn

\* A step of a task of stream i.
LEMMA StreamMovesOn ==
    ASSUME Inv, TaskInv, TypeOK', NEW i \in Stream,
           ClientTask(i) \/ AcceptStream(i) \/ Receiver(i) \/ Sender(i)
    PROVE  MovesOn
<1>1. UNCHANGED <<phase, conn, handler, next>>
  BY DEF ClientTask, OpenStream, SendByte, FinishUp, AckedUp, DrainByte, DrainEnd,
         StreamFails, ClientGoes, AcceptStream, Receiver, ReceiveByte, ReceiveEnds,
         Sender, SendBack, FinishDown, SendEnds, executorVars, peerVars
<1>2. CentreLeft' = CentreLeft
  BY <1>1 DEF CentreLeft, PhaseLeft, ConnLeft
<1>3. ASSUME NEW j \in Stream, i # j PROVE StreamLeft(j)' = StreamLeft(j)
  <2>1. /\ client'[j] = client[j] /\ receiver'[j] = receiver[j] /\ sender'[j] = sender[j]
        /\ upSent'[j] = upSent[j] /\ upRead'[j] = upRead[j]
        /\ downSent'[j] = downSent[j] /\ downRead'[j] = downRead[j]
    BY <1>3, OtherStreams
  <2> QED  BY <2>1 DEF StreamLeft, ClientLeft, PeerLeft, BytesLeft
<1>4. /\ ClientLeft(i) \in 0..5 /\ ClientLeft(i)' \in 0..5
      /\ PeerLeft(i) \in 0..5 /\ PeerLeft(i)' \in 0..5
  BY DEF ClientLeft, PeerLeft
<1>5. /\ upSent[i] \in 0..DataSize /\ upRead[i] \in 0..DataSize
      /\ downSent[i] \in 0..DataSize /\ downRead[i] \in 0..DataSize
      /\ upSent'[i] \in 0..DataSize /\ upRead'[i] \in 0..DataSize
      /\ downSent'[i] \in 0..DataSize /\ downRead'[i] \in 0..DataSize
  BY DEF Inv, TypeOK
<1>6. BytesLeft(i) \in 0..(4 * DataSize) /\ BytesLeft(i)' \in 0..(4 * DataSize)
  BY <1>5 DEF BytesLeft
<1>7. CASE OpenStream(i) \/ FinishUp(i) \/ AckedUp(i) \/ DrainEnd(i) \/ StreamFails(i)
  <2>1. UNCHANGED <<receiver, sender, upSent, upRead, downSent, downRead>>
    BY <1>7 DEF OpenStream, FinishUp, AckedUp, DrainEnd, StreamFails, ClientGoes,
                peerVars, upVars, downVars
  <2>2. PeerLeft(i)' = PeerLeft(i) /\ BytesLeft(i)' = BytesLeft(i)
    BY <2>1 DEF PeerLeft, BytesLeft
  <2>3. ClientLeft(i)' < ClientLeft(i)
    BY <1>7 DEF OpenStream, FinishUp, AckedUp, DrainEnd, StreamFails, ClientGoes, ClientLeft,
                Inv, TypeOK
  <2>4. StreamLeft(i)' < StreamLeft(i)
    BY <1>4, <1>6, <2>2, <2>3 DEF StreamLeft
  <2> QED  BY <1>2, <1>3, <2>4 DEF MovesOn
<1>8. CASE SendByte(i) \/ DrainByte(i) \/ ReceiveByte(i) \/ SendBack(i)
  <2>1. UNCHANGED <<client, receiver, sender>>
    BY <1>8 DEF SendByte, DrainByte, ReceiveByte, SendBack, peerVars
  <2>2. PeerLeft(i)' = PeerLeft(i) /\ ClientLeft(i)' = ClientLeft(i)
    BY <2>1 DEF PeerLeft, ClientLeft
  <2>3. BytesLeft(i)' < BytesLeft(i)
    <3>1. CASE SendByte(i)
      BY <1>5, <3>1 DEF SendByte, BytesLeft, Inv, TypeOK, downVars
    <3>2. CASE DrainByte(i)
      BY <1>5, <3>2 DEF DrainByte, BytesLeft, Inv, TypeOK, upVars
    <3>3. CASE ReceiveByte(i)
      BY <1>5, <3>3 DEF ReceiveByte, BytesLeft, Inv, TypeOK, downVars
    <3>4. CASE SendBack(i)
      BY <1>5, <3>4 DEF SendBack, BytesLeft, Inv, TypeOK, upVars
    <3> QED  BY <1>8, <3>1, <3>2, <3>3, <3>4
  <2>4. StreamLeft(i)' < StreamLeft(i)
    BY <1>4, <1>6, <2>2, <2>3 DEF StreamLeft
  <2> QED  BY <1>2, <1>3, <2>4 DEF MovesOn
<1>9. CASE AcceptStream(i) \/ ReceiveEnds(i) \/ FinishDown(i) \/ SendEnds(i)
  <2>1. UNCHANGED <<client, upSent, upRead, downSent, downRead>>
    BY <1>9 DEF AcceptStream, ReceiveEnds, FinishDown, SendEnds, upVars, downVars
  <2>2. ClientLeft(i)' = ClientLeft(i) /\ BytesLeft(i)' = BytesLeft(i)
    BY <2>1 DEF ClientLeft, BytesLeft
  <2>3. PeerLeft(i)' < PeerLeft(i)
    <3>1. StreamInv(i)
      BY DEF TaskInv
    <3> QED  BY <1>9, <3>1 DEF AcceptStream, ReceiveEnds, FinishDown, SendEnds, PeerLeft,
                               StreamInv, Inv, TypeOK
  <2>4. StreamLeft(i)' < StreamLeft(i)
    BY <1>4, <1>6, <2>2, <2>3 DEF StreamLeft
  <2> QED  BY <1>2, <1>3, <2>4 DEF MovesOn
<1> QED  BY <1>7, <1>8, <1>9 DEF ClientTask, Receiver, Sender

LEMMA StepMovesOn == ASSUME Inv, TaskInv, TypeOK', [Next]_vars PROVE [MovesOn]_vars
<1>1. CASE \E i \in Stream : ClientTask(i) \/ AcceptStream(i) \/ Receiver(i) \/ Sender(i)
  BY <1>1, StreamMovesOn
<1>2. CASE Executor \/ Timeout \/ Cancel \/ DropLast \/ Handler \/ Lose
  BY <1>2, CentreMovesOn
<1> QED  BY <1>1, <1>2 DEF Next, Terminated

\* What is left is bounded, no step adds to it and each step takes some of it
\* away: neither the executor nor what it leaves behind can be busy for ever.
THEOREM ExecutionMovesOn == Spec => []LeftBounds /\ [][MovesOn]_vars
<1>1. Inv => TypeOK /\ LeftBounds
  BY LeftIsBounded DEF Inv
<1> QED  BY <1>1, TaskInvariance, StepMovesOn, PTL DEF Spec

------------------------------------------------------------------------------
(* The refinement of AssignedTest. *)

\* The CASEs as conditionals, in both states of a step.
LEMMA VerdictIs ==
    /\ Verdict = IF phase # "ended" THEN "running"
                 ELSE IF fault = "none" THEN "success" ELSE "failure"
    /\ Verdict' = IF phase' # "ended" THEN "running"
                  ELSE IF fault' = "none" THEN "success" ELSE "failure"
  BY DEF Verdict

LEMMA MovedIs ==
    /\ Moved = IF kind # "latency" THEN sent + received
               ELSE IF result = "Latency" THEN 2 * DataSize ELSE 0
    /\ Moved' = IF kind' # "latency" THEN sent' + received'
                ELSE IF result' = "Latency" THEN 2 * DataSize ELSE 0
  BY DEF Moved

LEMMA InitTest == Init => Test!Init
  BY MovedIs, VerdictIs DEF Init, Test!Init

\* Adding up what an awaited stream moved.
LEMMA AwaitIsMove ==
    ASSUME Inv, AwaitStream PROVE [Test!Next]_<<Moved, Verdict>>
<1>1. phase # "ended" /\ phase' = phase /\ fault' = fault /\ kind' = kind /\ result' = result
  BY DEF AwaitStream
<1>2. Verdict = "running" /\ Verdict' = "running"
  BY <1>1, VerdictIs
<1>3. CASE kind = "latency"
  BY <1>1, <1>2, <1>3, MovedIs
<1>4. CASE kind # "latency"
  <2>1. Inv'
    BY AwaitStep
  <2>2. /\ sent \in Nat /\ received \in Nat
        /\ sent' \in 0..DataSize /\ received' \in 0..DataSize
    BY <2>1 DEF Inv, TypeOK
  <2>3. /\ sent' = sent + Share(next) /\ received' = received + downRead[next]
        /\ Share(next) \in Nat /\ downRead[next] \in Nat
    <3>1. next \in Stream
      BY DEF Inv, TypeOK, AwaitStream, Stream
    <3>2. Share(next) \in Nat
      BY <3>1, ShareBound
    <3>3. downRead[next] \in Nat
      BY <3>1 DEF Inv, TypeOK
    <3>4. sent' = sent + Share(next) /\ received' = received + downRead[next]
      BY DEF AwaitStream
    <3> QED  BY <3>2, <3>3, <3>4
  <2>4. sent' + received' \in (sent + received) .. 2 * DataSize
    BY <2>2, <2>3
  <2>5. Moved = sent + received /\ Moved' = sent' + received'
    BY <1>1, <1>4, MovedIs
  <2> QED  BY <1>2, <2>4, <2>5 DEF Test!Next, Test!Move
<1> QED  BY <1>3, <1>4

\* The ends of the executor.
LEMMA EndIsVerdict ==
    ASSUME Inv, Inv',
           LatencyDone \/ LatencyFails \/ ConnectFails
               \/ AwaitFails \/ Complete \/ Timeout \/ Cancel
    PROVE  [Test!Next]_<<Moved, Verdict>>
<1> USE DEF Return, ErrorVariant, TransferVariant
<1>1. phase # "ended" /\ UNCHANGED <<kind, sent, received>>
  BY DEF LatencyDone, LatencyFails, ConnectFails, AwaitFails, Complete, Timeout, Cancel
<1>2. Verdict = "running" /\ result = "none"
  BY <1>1, VerdictIs DEF Inv, PhaseInv
<1>3. CASE phase' # "ended"
  <2>1. UNCHANGED <<result, fault>>
    BY <1>3 DEF LatencyDone, LatencyFails, ConnectFails, AwaitFails, Complete, Timeout, Cancel
  <2> QED  BY <1>1, <1>2, <1>3, <2>1, MovedIs, VerdictIs
<1>4. CASE phase' = "ended" /\ fault' # "none"
  <2>1. result' # "Latency"
    BY <1>2, <1>4 DEF LatencyDone, LatencyFails, ConnectFails, AwaitFails, Complete, Timeout, Cancel
  <2>2. Moved' = Moved
    BY <1>1, <1>2, <2>1, MovedIs
  <2> QED  BY <1>2, <1>4, <2>2, VerdictIs DEF Test!Next, Test!Fail
<1>5. CASE phase' = "ended" /\ fault' = "none"
  <2>1. Verdict' = "success"
    BY <1>5, VerdictIs
  <2>2. CASE kind = "latency"
    <3>1. result' = "Latency"
      BY <1>1, <1>2, <1>5, <2>2
         DEF LatencyDone, LatencyFails, ConnectFails, AwaitFails, Complete, Timeout, Cancel,
             Inv, PhaseInv
    <3> QED  BY <1>1, <1>2, <2>1, <2>2, <3>1, MovedIs DEF Test!Next, Test!Succeed
  <2>3. CASE kind # "latency"
    <3>1. sent' = DataSize /\ received' = DataSize
      BY <1>1, <1>5, <2>3 DEF Inv, PhaseInv, SumInv, SumTo
    <3>2. Moved' = 2 * DataSize
      BY <1>1, <2>3, <3>1, MovedIs
    <3> QED  BY <1>2, <2>1, <3>2 DEF Test!Next, Test!Succeed
  <2> QED  BY <2>2, <2>3
<1> QED  BY <1>3, <1>4, <1>5

\* Everybody else leaves the verdict alone.
LEMMA OthersStutter ==
    ASSUME Inv,
           \/ Connect \/ DropLast \/ Handler \/ Lose \/ Terminated \/ UNCHANGED vars
           \/ \E i \in Stream : ClientTask(i) \/ AcceptStream(i) \/ Receiver(i) \/ Sender(i)
    PROVE  UNCHANGED <<Moved, Verdict>>
<1>1. UNCHANGED <<kind, sent, received, result, fault>>
  BY DEF Connect, DropLast, Handler, NoMoreStreams, AllJoined, Lose, Terminated, vars, executorVars,
         ClientTask, OpenStream, SendByte, FinishUp, AckedUp, DrainByte, DrainEnd, StreamFails,
         ClientGoes, AcceptStream, Receiver, ReceiveByte, ReceiveEnds, Sender, SendBack,
         FinishDown, SendEnds
<1>2. UNCHANGED phase \/ (phase = "connect" /\ phase' = "transfer")
  BY DEF Connect, DropLast, Handler, NoMoreStreams, AllJoined, Lose, Terminated, vars, executorVars,
         ClientTask, OpenStream, SendByte, FinishUp, AckedUp, DrainByte, DrainEnd, StreamFails,
         ClientGoes, AcceptStream, Receiver, ReceiveByte, ReceiveEnds, Sender, SendBack,
         FinishDown, SendEnds
<1> QED  BY <1>1, <1>2, MovedIs, VerdictIs

LEMMA StepTest == Inv /\ Inv' /\ [Next]_vars => [Test!Next]_<<Moved, Verdict>>
<1> SUFFICES ASSUME Inv, Inv', [Next]_vars PROVE [Test!Next]_<<Moved, Verdict>>
  OBVIOUS
<1>1. CASE Executor \/ Timeout \/ Cancel
  BY <1>1, AwaitIsMove, EndIsVerdict, OthersStutter DEF Executor
<1>2. CASE DropLast \/ Handler \/ Lose \/ Terminated \/ UNCHANGED vars
  BY <1>2, OthersStutter
<1>3. CASE \E i \in Stream : ClientTask(i) \/ AcceptStream(i) \/ Receiver(i) \/ Sender(i)
  BY <1>3, OthersStutter
<1> QED  BY <1>1, <1>2, <1>3 DEF Next

\* A throughput or fingerprint test is the test that the main loop expects.
THEOREM ExecutionIsTest == Spec => ImplementsTest
<1>1. Spec => []Inv
  BY Invariance
<1> QED  BY <1>1, InitTest, StepTest, PTL DEF Spec, ImplementsTest, Test!Spec
=============================================================================
