-------------------------- MODULE LatencyTestProofs --------------------------
(***************************************************************************)
(* The reported number of pings is the number measured, for any number of  *)
(* iterations.  The invariant: the test has measured exactly the pings it  *)
(* is past, each of them was answered, and it averages only at the end.    *)
(* The last part is about the end of the test and of the peer's handler.   *)
(***************************************************************************)
EXTENDS LatencyTest, TLAPS

USE IterationsAssumption

Measured ==
    /\ latencies = ping
    /\ \A i \in Pings : i < ping => peer[i] = "answered"
    /\ client = "wait" => ping < Iterations
    /\ client = "average" => ping = Iterations
    /\ client = "ok" => ping = Iterations /\ reported = Iterations

Inv == TypeOK /\ Measured

LEMMA InvInit == Init => Inv
  BY DEF Init, Inv, TypeOK, Measured, Over, Pings

LEMMA InvStep == Inv /\ [Next]_vars => Inv'
<1> SUFFICES ASSUME Inv, [Next]_vars PROVE Inv'
  OBVIOUS
<1> USE DEF Inv, TypeOK, Measured, Over, Pings, Closed, clientVars, peerVars
<1>1. CASE SendPing
  BY <1>1 DEF SendPing
<1>2. CASE ReadPong
  <2>1. ping \in Pings /\ ping + 1 \in 0..Iterations
    BY <1>2 DEF ReadPong
  <2>2. TypeOK'
    BY <1>2, <2>1 DEF ReadPong
  <2>3. \A i \in Pings : i < ping + 1 => i < ping \/ i = ping
    BY <2>1
  <2>4. Measured'
    BY <1>2, <2>1, <2>3 DEF ReadPong
  <2> QED  BY <2>2, <2>4
<1>3. CASE Wake
  BY <1>3 DEF Wake
<1>4. CASE PingTimeout
  BY <1>4 DEF PingTimeout
<1>5. CASE PingFails
  BY <1>5 DEF PingFails
<1>6. CASE CloseConn
  BY <1>6 DEF CloseConn
<1>7. CASE Average
  BY <1>7 DEF Average
<1>8. ASSUME NEW i \in Pings, AcceptPing(i) \/ AnswerPing(i) PROVE Inv'
  BY <1>8 DEF AcceptPing, AnswerPing
<1>9. CASE NoMoreStreams \/ AllJoined \/ Lose \/ Terminated \/ UNCHANGED vars
  BY <1>9 DEF NoMoreStreams, AllJoined, Lose, Terminated, vars
<1>10. CASE Cancel
  BY <1>10 DEF Cancel
<1> QED  BY <1>1, <1>2, <1>3, <1>4, <1>5, <1>6, <1>7, <1>8, <1>9, <1>10 DEF Next, Client, Peer

\* The invariant holds in every reachable state.
THEOREM Invariance == Spec => []Inv
  BY InvInit, InvStep, PTL DEF Spec

\* Every variable keeps its type.
THEOREM TypeCorrect == Spec => []TypeOK
<1>1. Inv => TypeOK
  BY DEF Inv
<1> QED  BY <1>1, Invariance, PTL

\* successful_pings is the number of pings that were measured.
THEOREM PingsMeasured == Spec => []ReportedPingsMeasured
<1>1. Inv => ReportedPingsMeasured
  BY DEF Inv, Measured, ReportedPingsMeasured, Pings
<1> QED  BY <1>1, Invariance, PTL

LEMMA VerdictIs ==
    /\ Verdict = IF client \notin Over THEN "running"
                 ELSE IF client = "ok" THEN "success" ELSE "failure"
    /\ Verdict' = IF client' \notin Over THEN "running"
                  ELSE IF client' = "ok" THEN "success" ELSE "failure"
  BY DEF Verdict, Over

LEMMA StepTest == Inv /\ Inv' /\ [Next]_vars => [Test!Next]_<<latencies, Verdict>>
<1> SUFFICES ASSUME Inv, Inv', [Next]_vars PROVE [Test!Next]_<<latencies, Verdict>>
  OBVIOUS
<1> USE VerdictIs DEF Over
<1>1. CASE ReadPong
  <2>1. latencies' \in latencies .. Iterations
    BY <1>1 DEF ReadPong, Inv, TypeOK
  <2>2. Verdict = "running" /\ Verdict' = "running"
    BY <1>1 DEF ReadPong
  <2> QED  BY <2>1, <2>2 DEF Test!Next, Test!Move
<1>2. CASE PingTimeout \/ PingFails \/ Cancel
  <2>1. Verdict = "running" /\ Verdict' = "failure" /\ latencies' = latencies
    BY <1>2 DEF PingTimeout, PingFails, Cancel
  <2> QED  BY <2>1 DEF Test!Next, Test!Fail
<1>3. CASE Average
  <2>1. Verdict = "running" /\ latencies' = latencies
    BY <1>3 DEF Average
  <2>2. CASE client' = "ok"
    <3>1. latencies' = Iterations
      BY <2>2 DEF Inv, Measured
    <3> QED  BY <2>1, <2>2, <3>1 DEF Test!Next, Test!Succeed
  <2>3. CASE client' = "panicked"
    BY <2>1, <2>3 DEF Test!Next, Test!Fail
  <2> QED  BY <1>3, <2>2, <2>3 DEF Average
<1>4. CASE SendPing \/ Wake \/ CloseConn
  BY <1>4 DEF SendPing, Wake, CloseConn
<1>5. CASE Peer \/ Lose \/ Terminated \/ UNCHANGED vars
  BY <1>5 DEF Peer, AcceptPing, AnswerPing, NoMoreStreams, AllJoined, Lose, Terminated, vars, clientVars
<1> QED  BY <1>1, <1>2, <1>3, <1>4, <1>5 DEF Next, Client

\* A latency test is the test that the main loop expects.
THEOREM LatencyIsTest == Spec => ImplementsTest
<1>1. Init => Test!Init
  BY VerdictIs DEF Init, Test!Init, Over
<1> QED  BY <1>1, Invariance, StepTest, PTL DEF Spec, ImplementsTest, Test!Spec

------------------------------------------------------------------------------
(* The test and the peer's handler end. *)

\* No stream was opened for a ping that is still to come; a test that is over
\* has closed its connection, or lost it.
EndInv ==
    /\ client \in {"open", "sleep"} => \A i \in Pings : i >= ping => peer[i] = "none"
    /\ client = "wait" => \A i \in Pings : i > ping => peer[i] = "none"
    /\ client \in Over \cup {"average"} => conn # "up"

LEMMA EndInvStep == Inv /\ EndInv /\ [Next]_vars => EndInv'
<1> SUFFICES ASSUME Inv, EndInv, [Next]_vars PROVE EndInv'
  OBVIOUS
<1> USE DEF Inv, TypeOK, EndInv, Over, Pings, Closed, clientVars, peerVars
<1>1. CASE SendPing
  BY <1>1 DEF SendPing
<1>2. CASE ReadPong
  <2>1. \A i \in Pings : i >= ping + 1 => i > ping
    BY <1>2
  <2> QED  BY <1>2, <2>1 DEF ReadPong
<1>3. CASE Wake \/ PingTimeout \/ PingFails \/ CloseConn \/ Average \/ Cancel
  BY <1>3 DEF Wake, PingTimeout, PingFails, CloseConn, Average, Cancel
<1>4. ASSUME NEW i \in Pings, AcceptPing(i) \/ AnswerPing(i) PROVE EndInv'
  BY <1>4 DEF AcceptPing, AnswerPing
<1>5. CASE NoMoreStreams \/ AllJoined \/ Lose \/ Terminated \/ UNCHANGED vars
  BY <1>5 DEF NoMoreStreams, AllJoined, Lose, Terminated, vars
<1> QED  BY <1>1, <1>2, <1>3, <1>4, <1>5 DEF Next, Client, Peer

\* The connection does not outlive the test that holds its only handle.
EndReleases == client \in Over => conn # "up"

\* What a task waits for: the client only for a pong, and that under a
\* timeout, so it can always go on; the peer's tasks for the client as long as
\* there is a connection, and for each other when there is none.
PeerReady ==
    \/ handler = "accept" /\ (conn = "up" => \E i \in Pings : peer[i] = "pinged")
    \/ \E i \in Pings : peer[i] = "reading"
    \/ handler = "join" /\ \A i \in Pings : peer[i] # "reading"

\* Once the test is over the peer's handler can go on until it has returned.
HandlerGoesOn == client \in Over /\ handler # "done" => PeerReady

\* What the client and the peer's handler have left to do.
ClientLeft ==
    3 * (Iterations - ping) +
        (CASE client = "sleep"   -> 5
           [] client = "open"    -> 4
           [] client = "wait"    -> 3
           [] client = "average" -> 2
           [] client \in Over    -> 0)

HandlerLeft ==
    (CASE handler = "accept" -> 2
       [] handler = "join"   -> 1
       [] handler = "done"   -> 0)
    + (IF conn = "up" THEN 1 ELSE 0)

\* What the stream of ping i has left to go through.
PingLeft(i) ==
    CASE peer[i] = "none"               -> 3
      [] peer[i] = "pinged"             -> 2
      [] peer[i] = "reading"            -> 1
      [] peer[i] \in {"answered", "err"} -> 0

LeftBounds ==
    /\ ClientLeft + HandlerLeft \in 0..(3 * Iterations + 8)
    /\ \A i \in Pings : PingLeft(i) \in 0..3

\* A step of the client or the handler adds nothing to any stream; a step of a
\* stream's task touches no other.
MovesOn ==
    \/ /\ ClientLeft' + HandlerLeft' < ClientLeft + HandlerLeft
       /\ \A i \in Pings : PingLeft(i)' <= PingLeft(i)
    \/ /\ ClientLeft' + HandlerLeft' = ClientLeft + HandlerLeft
       /\ \E i \in Pings :
             /\ PingLeft(i)' < PingLeft(i)
             /\ \A j \in Pings \ {i} : PingLeft(j)' = PingLeft(j)

LEMMA ClientLeftIs ==
    ASSUME TypeOK, TypeOK'
    PROVE
    /\ ClientLeft = 3 * (Iterations - ping) +
          (IF client = "sleep" THEN 5 ELSE IF client = "open" THEN 4
           ELSE IF client = "wait" THEN 3 ELSE IF client = "average" THEN 2 ELSE 0)
    /\ ClientLeft' = 3 * (Iterations - ping') +
          (IF client' = "sleep" THEN 5 ELSE IF client' = "open" THEN 4
           ELSE IF client' = "wait" THEN 3 ELSE IF client' = "average" THEN 2 ELSE 0)
<1>1. client \in {"sleep", "open", "wait", "average"} \/ client \in Over
  BY DEF TypeOK
<1>2. client' \in {"sleep", "open", "wait", "average"} \/ client' \in Over
  BY DEF TypeOK
<1> QED  BY <1>1, <1>2 DEF ClientLeft, Over

LEMMA HandlerLeftIs ==
    ASSUME TypeOK, TypeOK'
    PROVE
    /\ HandlerLeft = (IF handler = "accept" THEN 2 ELSE IF handler = "join" THEN 1 ELSE 0)
                     + (IF conn = "up" THEN 1 ELSE 0)
    /\ HandlerLeft' = (IF handler' = "accept" THEN 2 ELSE IF handler' = "join" THEN 1 ELSE 0)
                      + (IF conn' = "up" THEN 1 ELSE 0)
  BY DEF TypeOK, HandlerLeft

LEMMA PingLeftIs ==
    ASSUME TypeOK, TypeOK', NEW i \in Pings
    PROVE
    /\ PingLeft(i) = IF peer[i] = "none" THEN 3 ELSE IF peer[i] = "pinged" THEN 2
                     ELSE IF peer[i] = "reading" THEN 1 ELSE 0
    /\ PingLeft(i)' = IF peer'[i] = "none" THEN 3 ELSE IF peer'[i] = "pinged" THEN 2
                      ELSE IF peer'[i] = "reading" THEN 1 ELSE 0
  BY DEF TypeOK, PingLeft

LEMMA LeftIsBounded == ASSUME TypeOK PROVE LeftBounds
<1>1. ClientLeft \in 0..(3 * Iterations + 5)
  BY DEF TypeOK, ClientLeft, Over
<1>2. HandlerLeft \in 0..3
  BY DEF TypeOK, HandlerLeft
<1>3. \A i \in Pings : PingLeft(i) \in 0..3
  BY DEF TypeOK, PingLeft
<1> QED  BY <1>1, <1>2, <1>3 DEF LeftBounds

LEMMA StepMovesOn == ASSUME Inv, EndInv, TypeOK', [Next]_vars PROVE [MovesOn]_vars
<1> USE DEF Over, Closed, clientVars, peerVars
<1>0. TypeOK
  BY DEF Inv
<1>1. ASSUME Client \/ Cancel \/ NoMoreStreams \/ AllJoined \/ Lose
      PROVE  MovesOn
  <2>1. \A i \in Pings : PingLeft(i)' <= PingLeft(i)
    <3> SUFFICES ASSUME NEW i \in Pings PROVE PingLeft(i)' <= PingLeft(i)
      OBVIOUS
    <3>1. CASE SendPing
      <4>1. peer[ping] = "none" /\ ping \in Pings
        BY <3>1 DEF SendPing, EndInv, Inv, TypeOK, Pings
      <4>2. peer'[i] = IF i = ping THEN "pinged" ELSE peer[i]
        BY <3>1, <1>0 DEF SendPing, TypeOK
      <4> QED  BY <4>1, <4>2, <1>0, PingLeftIs
    <3>2. CASE ~SendPing
      <4>1. peer' = peer
        BY <1>1, <3>2 DEF Client, ReadPong, Wake, PingTimeout, PingFails, CloseConn, Average,
           Cancel, NoMoreStreams, AllJoined, Lose
      <4> QED  BY <4>1, <1>0, PingLeftIs
    <3> QED  BY <3>1, <3>2
  <2>2. ClientLeft' + HandlerLeft' < ClientLeft + HandlerLeft
    <3> USE <1>0, ClientLeftIs, HandlerLeftIs DEF TypeOK
    <3>1. CASE ReadPong
      BY <3>1 DEF ReadPong, Inv, Measured
    <3>2. CASE SendPing \/ Wake \/ PingTimeout \/ PingFails
      BY <3>2 DEF SendPing, Wake, PingTimeout, PingFails
    <3>3. CASE CloseConn \/ Average \/ Cancel
      BY <3>3 DEF CloseConn, Average, Cancel
    <3>4. CASE NoMoreStreams \/ AllJoined \/ Lose
      BY <3>4 DEF NoMoreStreams, AllJoined, Lose
    <3> QED  BY <1>1, <3>1, <3>2, <3>3, <3>4 DEF Client
  <2> QED  BY <2>1, <2>2 DEF MovesOn
<1>2. ASSUME NEW i \in Pings, AcceptPing(i) \/ AnswerPing(i)
      PROVE  MovesOn
  <2>1. ClientLeft' + HandlerLeft' = ClientLeft + HandlerLeft
    <3>1. UNCHANGED <<conn, client, ping, handler>>
      BY <1>2 DEF AcceptPing, AnswerPing
    <3> QED  BY <3>1 DEF ClientLeft, HandlerLeft
  <2>2. PingLeft(i)' < PingLeft(i)
    BY <1>0, <1>2, PingLeftIs DEF AcceptPing, AnswerPing, TypeOK
  <2>3. \A j \in Pings \ {i} : PingLeft(j)' = PingLeft(j)
    <3>1. \A j \in Pings \ {i} : peer'[j] = peer[j]
      BY <1>0, <1>2 DEF AcceptPing, AnswerPing, TypeOK
    <3> QED  BY <3>1 DEF PingLeft
  <2> QED  BY <2>1, <2>2, <2>3 DEF MovesOn
<1> QED  BY <1>1, <1>2 DEF Next, Peer, Terminated

LEMMA EndInvariance == Spec => [](Inv /\ EndInv)
<1>1. Init => EndInv
  BY DEF Init, EndInv, Over
<1> QED  BY <1>1, InvInit, InvStep, EndInvStep, PTL DEF Spec

\* A test leaves no connection behind, whichever way it ends, and the peer's
\* handler, which returns only when the connection is gone, is never left
\* waiting after it.
THEOREM ConnectionIsReleased == Spec => []EndReleases /\ []HandlerGoesOn
<1>1. EndInv => EndReleases
  BY DEF EndInv, EndReleases
<1>2. Inv /\ EndInv => HandlerGoesOn
  BY DEF Inv, EndInv, TypeOK, HandlerGoesOn, PeerReady
<1> QED  BY <1>1, <1>2, EndInvariance, PTL

\* What is left is bounded, and each step takes some of it away and adds
\* nothing: neither the test nor the peer's handler can be busy for ever.
THEOREM TestMovesOn == Spec => []LeftBounds /\ [][MovesOn]_vars
<1>1. Inv => TypeOK /\ LeftBounds
  BY LeftIsBounded DEF Inv
<1> QED  BY <1>1, EndInvariance, StepMovesOn, PTL DEF Spec
=============================================================================
