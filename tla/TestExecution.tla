---------------------------- MODULE TestExecution ----------------------------
(***************************************************************************)
(* One test assignment carried out: perform_test_assignment with its three *)
(* executors (src/src/swarm/execution.rs), the parallel streams of a       *)
(* throughput transfer (tests/throughput.rs, transfer_utils.rs) and the    *)
(* protocol handler that serves them at the peer (runner.rs).              *)
(*                                                                         *)
(* A transfer spawns one task per stream.  A task sends its share of the   *)
(* data, waits until that is acknowledged, and drains what comes back.  At *)
(* the peer every stream gets a receiving and a sending task, side by      *)
(* side.  The executor awaits the stream tasks in order, under a timeout;  *)
(* when it gives up, the tasks it has not awaited run on, each with its    *)
(* own handle on the connection.  The connection closes when an executor   *)
(* closes it or when the last handle is dropped.                           *)
(*                                                                         *)
(* The latency phase has a connection of its own and is one step here.     *)
(* Data is counted in bytes, written and read one at a time.               *)
(***************************************************************************)
EXTENDS Naturals, FiniteSets

CONSTANTS
    Streams,      \* parallel_streams
    DataSize,     \* size_bytes
    ChunkSize,    \* chunk_size_bytes
    Window,       \* flow-control window of a stream direction
    MaxStreams    \* max_concurrent_bidi_streams of the peer

ASSUME StreamsAssumption == Streams \in Nat \ {0}
ASSUME DataSizeAssumption == DataSize \in Nat
ASSUME ChunkSizeAssumption == ChunkSize \in Nat \ {0}
ASSUME LimitsAssumption == Window \in Nat \ {0} /\ MaxStreams \in Nat \ {0}

VARIABLES
    kind,      \* the assignment's test_type
    phase,     \* where the executor is
    result,    \* the variant of the TestAssignmentResult it returned
    fault,     \* what went wrong, if anything
    next,      \* the stream task it awaits next
    sent,      \* total_bytes_sent
    received,  \* total_bytes_received
    conn,      \* the connection of the transfer
    client,    \* client[i]: the stream task of stream i
    receiver,  \* receiver[i]: the peer's draining task
    sender,    \* sender[i]: the peer's sending task
    handler,   \* the peer's ProtocolHandler::accept
    upSent, upRead,      \* bytes written to and read from stream i, to the peer
    downSent, downRead,  \* and from the peer
    fins                 \* stream directions that were finished

executorVars == <<kind, phase, result, fault, next, sent, received>>
peerVars == <<receiver, sender, handler>>
upVars == <<upSent, upRead>>
downVars == <<downSent, downRead>>
vars == <<executorVars, conn, client, peerVars, upVars, downVars, fins>>

Stream == 0 .. Streams - 1

\* What stream i carries: the last one takes the remainder along.
Share(i) == IF i = Streams - 1 THEN (DataSize \div Streams) + (DataSize % Streams)
                               ELSE DataSize \div Streams

\* A variant of Planned that writes full chunks only.
FullChunks(size) == (size \div ChunkSize) * ChunkSize

\* What send_data_on_stream writes: full chunks and the remaining slice.
Planned(size) == (size \div ChunkSize) * ChunkSize + (size % ChunkSize)

ClientOver == {"ok", "err"}
PeerOver   == {"none", "ok", "err"}

\* One invariant of types for the module.
TypeOK ==
    /\ kind \in {"throughput", "latency", "fingerprint"}
    /\ phase \in {"latency", "connect", "transfer", "ended"}
    /\ result \in {"none", "Latency", "Throughput", "Fingerprint", "Error"}
    /\ fault \in {"none", "latency", "connect", "transfer", "timeout", "cancelled"}
    /\ next \in 0..Streams
    /\ sent \in 0..DataSize
    /\ received \in 0..DataSize
    /\ conn \in {"none", "up", "closed", "lost"}
    /\ client \in [Stream -> {"idle", "open", "send", "stopped", "drain"} \cup ClientOver]
    /\ receiver \in [Stream -> {"drain"} \cup PeerOver]
    /\ sender \in [Stream -> {"send", "stopped"} \cup PeerOver]
    /\ handler \in {"idle", "accept", "join", "done"}
    /\ upSent \in [Stream -> 0..DataSize]
    /\ upRead \in [Stream -> 0..DataSize]
    /\ downSent \in [Stream -> 0..DataSize]
    /\ downRead \in [Stream -> 0..DataSize]
    /\ fins \subseteq {"up", "down"} \X Stream

\* perform_test_assignment: a throughput test has no latency phase.
Init ==
    /\ kind \in {"throughput", "latency", "fingerprint"}
    /\ phase = IF kind = "throughput" THEN "connect" ELSE "latency"
    /\ result = "none"
    /\ fault = "none"
    /\ next = 0
    /\ sent = 0
    /\ received = 0
    /\ conn = "none"
    /\ client = [i \in Stream |-> "idle"]
    /\ receiver = [i \in Stream |-> "none"]
    /\ sender = [i \in Stream |-> "none"]
    /\ handler = "idle"
    /\ upSent = [i \in Stream |-> 0]
    /\ upRead = [i \in Stream |-> 0]
    /\ downSent = [i \in Stream |-> 0]
    /\ downRead = [i \in Stream |-> 0]
    /\ fins = {}

------------------------------------------------------------------------------
(* The executor. *)

\* It returns; once there is a connection, a fingerprint test always closes
\* it, a throughput test only when all went well.
Return(variant, why) ==
    /\ phase' = "ended"
    /\ result' = variant
    /\ fault' = why
    /\ conn' = IF conn = "up" /\ (kind = "fingerprint" \/ why = "none")
               THEN "closed" ELSE conn

\* Errors of a fingerprint test stay inside its own variant.
ErrorVariant == IF kind = "fingerprint" THEN "Fingerprint" ELSE "Error"

TransferVariant == IF kind = "fingerprint" THEN "Fingerprint" ELSE "Throughput"

\* run_latency_test_with_config succeeded.
LatencyDone ==
    /\ phase = "latency"
    /\ IF kind = "latency"
       THEN Return("Latency", "none")
       ELSE phase' = "connect" /\ UNCHANGED <<result, fault, conn>>
    /\ UNCHANGED <<kind, next, sent, received, client, peerVars, upVars, downVars, fins>>

LatencyFails ==
    /\ phase = "latency"
    /\ Return(ErrorVariant, "latency")
    /\ UNCHANGED <<kind, next, sent, received, client, peerVars, upVars, downVars, fins>>

\* Connected: the stream tasks are spawned, the peer's handler starts.
Connect ==
    /\ phase = "connect"
    /\ phase' = "transfer"
    /\ conn' = "up"
    /\ client' = [i \in Stream |-> "open"]
    /\ handler' = "accept"
    /\ UNCHANGED <<kind, result, fault, next, sent, received, receiver, sender, upVars, downVars, fins>>

ConnectFails ==
    /\ phase = "connect"
    /\ Return(ErrorVariant, "connect")
    /\ UNCHANGED <<kind, next, sent, received, client, peerVars, upVars, downVars, fins>>

\* A variant that goes on adding up when the executor has given up.
AwaitLate ==
    /\ next < Streams
    /\ client[next] = "ok"
    /\ sent' = sent + Share(next)
    /\ received' = received + downRead[next]
    /\ next' = next + 1
    /\ UNCHANGED <<kind, phase, result, fault, conn, client, peerVars, upVars, downVars, fins>>

\* The next stream task returned Ok: add what it sent and received.
AwaitStream ==
    /\ phase = "transfer" /\ next < Streams
    /\ client[next] = "ok"
    /\ sent' = sent + Share(next)
    /\ received' = received + downRead[next]
    /\ next' = next + 1
    /\ UNCHANGED <<kind, phase, result, fault, conn, client, peerVars, upVars, downVars, fins>>

\* The next stream task failed: return without awaiting the others.
AwaitFails ==
    /\ phase = "transfer" /\ next < Streams
    /\ client[next] = "err"
    /\ Return(ErrorVariant, "transfer")
    /\ UNCHANGED <<kind, next, sent, received, client, peerVars, upVars, downVars, fins>>

\* All stream tasks were awaited.
Complete ==
    /\ phase = "transfer" /\ next = Streams
    /\ Return(TransferVariant, "none")
    /\ UNCHANGED <<kind, next, sent, received, client, peerVars, upVars, downVars, fins>>

\* data_transfer_timeout: the handles are dropped, the stream tasks run on.
Timeout ==
    /\ phase = "transfer"
    /\ Return(ErrorVariant, "timeout")
    /\ UNCHANGED <<kind, next, sent, received, client, peerVars, upVars, downVars, fins>>

\* The main loop is dropped, after its endpoint was closed: the executor is
\* dropped where it is, and no result made.
Cancel ==
    /\ phase # "ended" /\ conn # "up"
    /\ phase' = "ended"
    /\ fault' = "cancelled"
    /\ UNCHANGED <<kind, result, next, sent, received, conn, client, peerVars, upVars, downVars, fins>>

Executor ==
    \/ LatencyDone \/ LatencyFails \/ Connect \/ ConnectFails
    \/ AwaitStream \/ AwaitFails \/ Complete

------------------------------------------------------------------------------
(* The stream tasks of the client: run_single_stream_test_with_config. *)

\* Task i goes on with an operation on its stream.
ClientGoes(i, from, to) ==
    /\ client[i] = from
    /\ client' = [client EXCEPT ![i] = to]
    /\ UNCHANGED <<executorVars, conn, peerVars, upVars, downVars>>

Opened == {i \in Stream : client[i] \notin {"idle", "open"}}
Served == {i \in Stream : receiver[i] = "ok" /\ sender[i] = "ok"}

\* open_bi, when the peer's limit allows another stream, and the header.
OpenStream(i) ==
    /\ conn = "up"
    /\ Cardinality(Opened \ Served) < MaxStreams
    /\ ClientGoes(i, "open", "send")
    /\ UNCHANGED fins

SendByte(i) ==
    /\ client[i] = "send" /\ conn = "up"
    /\ upSent[i] < Planned(Share(i))
    /\ upSent[i] - upRead[i] < Window
    /\ upSent' = [upSent EXCEPT ![i] = @ + 1]
    /\ UNCHANGED <<executorVars, conn, client, peerVars, upRead, downVars, fins>>

\* finish() once everything is written.
FinishUp(i) ==
    /\ upSent[i] = Planned(Share(i))
    /\ ClientGoes(i, "send", "stopped")
    /\ fins' = fins \cup {<<"up", i>>}

\* stopped() returns when the transport has acknowledged all of it.
AckedUp(i) ==
    /\ conn = "up"
    /\ ClientGoes(i, "stopped", "drain")
    /\ UNCHANGED fins

DrainByte(i) ==
    /\ client[i] = "drain"
    /\ downRead[i] < downSent[i]
    /\ downRead' = [downRead EXCEPT ![i] = @ + 1]
    /\ UNCHANGED <<executorVars, conn, client, peerVars, upVars, downSent, fins>>

\* A variant that takes an empty buffer for the end of the stream.
DrainAll(i) ==
    /\ downRead[i] = downSent[i]
    /\ ClientGoes(i, "drain", "ok")
    /\ UNCHANGED fins

DrainEnd(i) ==
    /\ <<"down", i>> \in fins
    /\ downRead[i] = downSent[i]
    /\ ClientGoes(i, "drain", "ok")
    /\ UNCHANGED fins

StreamFails(i) ==
    /\ conn # "up"
    /\ \E from \in {"open", "send", "stopped", "drain"} : ClientGoes(i, from, "err")
    /\ UNCHANGED fins

ClientTask(i) ==
    \/ OpenStream(i) \/ SendByte(i) \/ FinishUp(i) \/ AckedUp(i)
    \/ DrainByte(i) \/ DrainEnd(i) \/ StreamFails(i)

\* A variant in which a task abandoned by the timeout leaks its handle.
LeakOnTimeout ==
    /\ phase = "ended" /\ conn = "up" /\ fault # "timeout"
    /\ \A i \in Stream : client[i] \in ClientOver
    /\ conn' = "closed"
    /\ UNCHANGED <<executorVars, client, peerVars, upVars, downVars, fins>>

\* The executor has returned and the last stream task is over: their handles
\* were the last ones on the connection, which closes.
DropLast ==
    /\ phase = "ended" /\ conn = "up"
    /\ \A i \in Stream : client[i] \in ClientOver
    /\ conn' = "closed"
    /\ UNCHANGED <<executorVars, client, peerVars, upVars, downVars, fins>>

------------------------------------------------------------------------------
(* The peer: SwarmProtocolHandler and handle_bidirectional_transfer. *)

\* accept_bi and the header: both tasks of the stream are spawned.
AcceptStream(i) ==
    /\ handler = "accept" /\ conn = "up"
    /\ i \in Opened
    /\ receiver[i] = "none"
    /\ receiver' = [receiver EXCEPT ![i] = "drain"]
    /\ sender' = [sender EXCEPT ![i] = "send"]
    /\ UNCHANGED <<executorVars, conn, client, handler, upVars, downVars, fins>>

\* A variant that drains only when it has sent everything.
ReceiveAfterSend(i) ==
    /\ receiver[i] = "drain" /\ sender[i] # "send"
    /\ upRead[i] < upSent[i]
    /\ upRead' = [upRead EXCEPT ![i] = @ + 1]
    /\ UNCHANGED <<executorVars, conn, client, peerVars, upSent, downVars, fins>>

ReceiveByte(i) ==
    /\ receiver[i] = "drain"
    /\ upRead[i] < upSent[i]
    /\ upRead' = [upRead EXCEPT ![i] = @ + 1]
    /\ UNCHANGED <<executorVars, conn, client, peerVars, upSent, downVars, fins>>

\* The receiving task ends at the end of its stream, or with the connection.
ReceiveEnds(i) ==
    /\ receiver[i] = "drain"
    /\ \/ /\ <<"up", i>> \in fins /\ upRead[i] = upSent[i]
          /\ receiver' = [receiver EXCEPT ![i] = "ok"]
       \/ /\ conn # "up"
          /\ receiver' = [receiver EXCEPT ![i] = "err"]
    /\ UNCHANGED <<executorVars, conn, client, sender, handler, upVars, downVars, fins>>

SendBack(i) ==
    /\ sender[i] = "send" /\ conn = "up"
    /\ downSent[i] < Planned(Share(i))
    /\ downSent[i] - downRead[i] < Window
    /\ downSent' = [downSent EXCEPT ![i] = @ + 1]
    /\ UNCHANGED <<executorVars, conn, client, peerVars, upVars, downRead, fins>>

\* A variant that writes everything and never calls finish().
LeaveUnfinished(i) ==
    /\ sender[i] = "send"
    /\ downSent[i] = Planned(Share(i))
    /\ sender' = [sender EXCEPT ![i] = "stopped"]
    /\ UNCHANGED <<executorVars, conn, client, receiver, handler, upVars, downVars, fins>>

FinishDown(i) ==
    /\ sender[i] = "send"
    /\ downSent[i] = Planned(Share(i))
    /\ sender' = [sender EXCEPT ![i] = "stopped"]
    /\ fins' = fins \cup {<<"down", i>>}
    /\ UNCHANGED <<executorVars, conn, client, receiver, handler, upVars, downVars>>

\* The sending task ends when all is acknowledged, or with the connection.
SendEnds(i) ==
    /\ \/ /\ sender[i] = "stopped" /\ conn = "up"
          /\ sender' = [sender EXCEPT ![i] = "ok"]
       \/ /\ sender[i] \in {"send", "stopped"} /\ conn # "up"
          /\ sender' = [sender EXCEPT ![i] = "err"]
    /\ UNCHANGED <<executorVars, conn, client, receiver, handler, upVars, downVars, fins>>

\* accept_bi failed: no more streams.
NoMoreStreams ==
    /\ handler = "accept" /\ conn # "up"
    /\ handler' = "join"
    /\ UNCHANGED <<executorVars, conn, client, receiver, sender, upVars, downVars, fins>>

\* The JoinSet is empty; a stream's task waits for both of its halves.
AllJoined ==
    /\ handler = "join"
    /\ \A i \in Stream : receiver[i] \in PeerOver /\ sender[i] \in PeerOver
    /\ handler' = "done"
    /\ UNCHANGED <<executorVars, conn, client, receiver, sender, upVars, downVars, fins>>

Receiver(i) == ReceiveByte(i) \/ ReceiveEnds(i)
Sender(i)   == SendBack(i) \/ FinishDown(i) \/ SendEnds(i)
Handler     == NoMoreStreams \/ AllJoined

------------------------------------------------------------------------------
\* An unreachable peer, its shutdown, or Ctrl-C here.
Lose ==
    /\ conn = "up"
    /\ conn' = "lost"
    /\ UNCHANGED <<executorVars, client, peerVars, upVars, downVars, fins>>

Released ==
    /\ conn # "up"
    /\ handler \in {"idle", "done"}
    /\ \A i \in Stream : client[i] \in {"idle"} \cup ClientOver

Terminated == phase = "ended" /\ Released /\ UNCHANGED vars

Next ==
    \/ Executor \/ Timeout \/ Cancel \/ DropLast \/ Handler \/ Lose \/ Terminated
    \/ \E i \in Stream : ClientTask(i) \/ AcceptStream(i) \/ Receiver(i) \/ Sender(i)

Spec == Init /\ [][Next]_vars

(***************************************************************************)
(* Fairness: every task is polled when it is ready, acknowledgements and   *)
(* the ends of connecting and of a latency test come.  The timeout and the *)
(* loss of the connection need not come.                                   *)
(***************************************************************************)
FairSpec ==
    /\ Spec
    /\ WF_vars(Executor) /\ WF_vars(DropLast) /\ WF_vars(Handler)
    /\ \A i \in Stream :
        /\ WF_vars(ClientTask(i))
        /\ WF_vars(AcceptStream(i))
        /\ WF_vars(Receiver(i))
        /\ WF_vars(Sender(i))

------------------------------------------------------------------------------
(* Properties. *)

(***************************************************************************)
(* A transfer reported without a fault has moved all of the data in both   *)
(* directions: the shares of the streams, the chunks of a share and the    *)
(* sums over the awaited tasks lose nothing, and no stream task is left.   *)
(***************************************************************************)
SuccessIsComplete ==
    result # "none" /\ fault = "none" /\ kind # "latency" =>
        /\ sent = DataSize
        /\ received = DataSize
        /\ \A i \in Stream : client[i] = "ok"

\* What AssignedTest calls moved; a latency test makes all its measurements in
\* one step here.
Moved ==
    CASE kind # "latency"                         -> sent + received
      [] kind = "latency" /\ result = "Latency"  -> 2 * DataSize
      [] kind = "latency" /\ result # "Latency"  -> 0

Verdict ==
    CASE phase # "ended"                    -> "running"
      [] phase = "ended" /\ fault = "none" -> "success"
      [] phase = "ended" /\ fault # "none" -> "failure"

Test == INSTANCE AssignedTest WITH Amount <- 2 * DataSize, moved <- Moved, verdict <- Verdict

(***************************************************************************)
(* The verdict is final: whatever goes on after a timeout, a failure or a  *)
(* shutdown (stream tasks, sums over them) changes neither it nor what the *)
(* result says was moved, and success comes with all data, both ways.      *)
(***************************************************************************)
ImplementsTest == Test!Spec

\* What each task waits for: the guards of its actions.
ExecutorReady ==
    \/ phase \in {"latency", "connect"}
    \/ phase = "transfer" /\ (next = Streams \/ client[next] \in ClientOver)
    \/ phase = "ended" /\ conn = "up" /\ \A i \in Stream : client[i] \in ClientOver

ClientReady(i) ==
    \/ client[i] = "open" /\ (conn = "up" => Cardinality(Opened \ Served) < MaxStreams)
    \/ client[i] = "send" /\
          (conn = "up" => upSent[i] = Planned(Share(i)) \/ upSent[i] - upRead[i] < Window)
    \/ client[i] = "stopped"
    \/ client[i] = "drain" /\
          (conn = "up" => downRead[i] < downSent[i] \/ <<"down", i>> \in fins)

PeerReady(i) ==
    \/ handler = "accept" /\ conn = "up" /\ i \in Opened /\ receiver[i] = "none"
    \/ receiver[i] = "drain" /\ (conn = "up" => upRead[i] < upSent[i] \/ <<"up", i>> \in fins)
    \/ sender[i] = "send" /\
          (conn = "up" => downSent[i] = Planned(Share(i)) \/ downSent[i] - downRead[i] < Window)
    \/ sender[i] = "stopped"

HandlerReady ==
    \/ handler = "accept" /\ conn # "up"
    \/ handler = "join" /\ \A i \in Stream : receiver[i] \in PeerOver /\ sender[i] \in PeerOver

(***************************************************************************)
(* No cyclic wait, neither through the windows nor through the limit of    *)
(* streams: until the executor has returned and everything is released,    *)
(* some task can go on by itself, without the timeout, a loss or Ctrl-C.   *)
(***************************************************************************)
NeverStuck ==
    \/ phase = "ended" /\ Released
    \/ ExecutorReady \/ HandlerReady
    \/ \E i \in Stream : ClientReady(i) \/ PeerReady(i)

(***************************************************************************)
(* The transfer ends by itself: neither the flow-control windows nor the   *)
(* limit of streams make two sides wait for each other, so the timeout is  *)
(* only ever needed for a slow network.                                    *)
(***************************************************************************)
ExecutionEnds == <>(phase = "ended")

(***************************************************************************)
(* Whatever the executor leaves behind when it gives up is over some time: *)
(* the stream tasks end, the connection closes though nobody closes it,    *)
(* and the peer's handler returns.                                         *)
(***************************************************************************)
EverythingReleased == <>[]Released

(***************************************************************************)
(* rpc.rs documents TestResultReport::success as "Check if the test was    *)
(* successful".  A fingerprint test counts as successful whatever failed.  *)
(***************************************************************************)
Success == result \notin {"none", "Error"}
SuccessMeansNoFault == Success => fault = "none"
=============================================================================
