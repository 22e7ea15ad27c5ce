----------------------------- MODULE LatencyTest -----------------------------
(***************************************************************************)
(* A latency test (src/src/swarm/tests/latency.rs) and its answers at the  *)
(* peer (handle_latency_test in runner.rs).                                *)
(*                                                                         *)
(* Pings go out one after the other, each on a stream of its own.  Only    *)
(* the wait for the pong is under a timeout, and a timeout ends the whole  *)
(* test.  After the last pong the connection is closed and the latencies   *)
(* are averaged; any other end drops the only handle on the connection,    *)
(* which closes it too.  The number in a pong is not looked at.            *)
(***************************************************************************)
EXTENDS Naturals

CONSTANT Iterations   \* pings of the test

ASSUME IterationsAssumption == Iterations \in Nat

VARIABLES
    conn,       \* the connection: up, closed (by the client), lost
    client,     \* where the test is
    ping,       \* the ping it is at
    latencies,  \* latencies measured
    reported,   \* successful_pings of the result
    peer,       \* peer[i]: the peer's task for the stream of ping i
    handler     \* the peer's ProtocolHandler::accept

clientVars == <<client, ping, latencies, reported>>
peerVars == <<peer, handler>>
vars == <<conn, clientVars, peerVars>>

Pings == 0 .. Iterations - 1
Over  == {"ok", "err", "panicked", "cancelled"}

\* One invariant of types for the module.
TypeOK ==
    /\ conn \in {"up", "closed", "lost"}
    /\ client \in {"open", "wait", "sleep", "average"} \cup Over
    /\ ping \in 0..Iterations
    /\ latencies \in 0..Iterations
    /\ reported \in 0..Iterations
    /\ peer \in [Pings -> {"none", "pinged", "reading", "answered", "err"}]
    /\ handler \in {"accept", "join", "done"}

Init ==
    /\ conn = "up"
    /\ client = "open"
    /\ ping = 0
    /\ latencies = 0
    /\ reported = 0
    /\ peer = [i \in Pings |-> "none"]
    /\ handler = "accept"

------------------------------------------------------------------------------
(* The client. *)

\* The end of the connection's only handle.
Closed == conn' = IF conn = "up" THEN "closed" ELSE conn

\* open_bi, the header and the ping, finish().
SendPing ==
    /\ client = "open" /\ ping < Iterations
    /\ conn = "up"
    /\ client' = "wait"
    /\ peer' = [peer EXCEPT ![ping] = "pinged"]
    /\ UNCHANGED <<conn, ping, latencies, reported, handler>>

\* A variant that takes a pong after the timeout.
ReadLate ==
    /\ client \in {"wait", "err"} /\ ping < Iterations
    /\ peer[ping] = "answered"
    /\ latencies' = latencies + 1
    /\ ping' = ping + 1
    /\ client' = IF ping + 1 < Iterations THEN "sleep" ELSE "open"
    /\ UNCHANGED <<conn, reported, peerVars>>

\* The pong is there; what has arrived can be read even after a loss.  No
\* pause follows the last ping.
ReadPong ==
    /\ client = "wait"
    /\ peer[ping] = "answered"
    /\ latencies' = latencies + 1
    /\ ping' = ping + 1
    /\ client' = IF ping + 1 < Iterations THEN "sleep" ELSE "open"
    /\ UNCHANGED <<conn, reported, peerVars>>

\* ping_interval
Wake ==
    /\ client = "sleep"
    /\ client' = "open"
    /\ UNCHANGED <<conn, ping, latencies, reported, peerVars>>

\* A variant that goes on with the next ping.
SkipPing ==
    /\ client = "wait"
    /\ ping' = ping + 1
    /\ client' = "open"
    /\ UNCHANGED <<conn, latencies, reported, peerVars>>

\* Variants: a timeout for the first ping only, and one that leaks the handle.
TimeoutFirst ==
    /\ client = "wait" /\ ping = 0
    /\ client' = "err"
    /\ Closed
    /\ UNCHANGED <<ping, latencies, reported, peerVars>>

TimeoutLeaks ==
    /\ client = "wait"
    /\ client' = "err"
    /\ UNCHANGED <<conn, ping, latencies, reported, peerVars>>

\* ping_timeout ends the test.
PingTimeout ==
    /\ client = "wait"
    /\ client' = "err"
    /\ Closed
    /\ UNCHANGED <<ping, latencies, reported, peerVars>>

\* The connection is gone when the test wants to send or to read.
PingFails ==
    /\ \/ client = "open" /\ ping < Iterations
       \/ client = "wait"
    /\ conn # "up"
    /\ client' = "err"
    /\ UNCHANGED <<conn, ping, latencies, reported, peerVars>>

\* The main loop is dropped, after its endpoint was closed, and the test with
\* it, in whatever await it is.
Cancel ==
    /\ client \in {"open", "wait", "sleep"} /\ conn # "up"
    /\ client' = "cancelled"
    /\ UNCHANGED <<conn, ping, latencies, reported, peerVars>>

\* All pings are through: close the connection.
CloseConn ==
    /\ client = "open" /\ ping = Iterations
    /\ client' = "average"
    /\ Closed
    /\ UNCHANGED <<ping, latencies, reported, peerVars>>

\* The result.  successful_pings is the configured number; dividing the sum
\* by no latency at all panics.
Average ==
    /\ client = "average"
    /\ IF latencies = 0
       THEN client' = "panicked" /\ UNCHANGED reported
       ELSE client' = "ok" /\ reported' = Iterations
    /\ UNCHANGED <<conn, ping, latencies, peerVars>>

Client ==
    \/ SendPing \/ ReadPong \/ Wake \/ PingTimeout \/ PingFails
    \/ CloseConn \/ Average

------------------------------------------------------------------------------
(* The peer. *)

\* accept_bi and the header; a task is spawned.
AcceptPing(i) ==
    /\ handler = "accept" /\ conn = "up"
    /\ peer[i] = "pinged"
    /\ peer' = [peer EXCEPT ![i] = "reading"]
    /\ UNCHANGED <<conn, clientVars, handler>>

\* The ping is read, the pong written and the stream finished, or the
\* connection is gone.
AnswerPing(i) ==
    /\ peer[i] = "reading"
    /\ peer' = [peer EXCEPT ![i] = IF conn = "up" THEN "answered" ELSE "err"]
    /\ UNCHANGED <<conn, clientVars, handler>>

NoMoreStreams ==
    /\ handler = "accept" /\ conn # "up"
    /\ handler' = "join"
    /\ UNCHANGED <<conn, clientVars, peer>>

AllJoined ==
    /\ handler = "join"
    /\ \A i \in Pings : peer[i] # "reading"
    /\ handler' = "done"
    /\ UNCHANGED <<conn, clientVars, peer>>

Peer ==
    \/ \E i \in Pings : AcceptPing(i) \/ AnswerPing(i)
    \/ NoMoreStreams \/ AllJoined

------------------------------------------------------------------------------
Lose ==
    /\ conn = "up"
    /\ conn' = "lost"
    /\ UNCHANGED <<clientVars, peerVars>>

Terminated ==
    /\ client \in Over /\ handler = "done"
    /\ UNCHANGED vars

Next == Client \/ Cancel \/ Peer \/ Lose \/ Terminated

Spec == Init /\ [][Next]_vars

\* The client's task and its timers run; nothing makes the peer answer.
FairSpec == Spec /\ WF_vars(Client)

------------------------------------------------------------------------------
(* Properties. *)

(***************************************************************************)
(* successful_pings is the configured number, not a count: it is right     *)
(* because a result is only made after every ping was answered in time.    *)
(***************************************************************************)
ReportedPingsMeasured ==
    client = "ok" =>
        /\ reported = latencies
        /\ \A i \in Pings : peer[i] = "answered"

Verdict ==
    CASE client \notin Over     -> "running"
      [] client = "ok"          -> "success"
      [] client \in Over \ {"ok"} -> "failure"

Test == INSTANCE AssignedTest WITH Amount <- Iterations, moved <- latencies, verdict <- Verdict

(***************************************************************************)
(* A late pong changes nothing: the verdict is final, and a success comes  *)
(* with as many latencies as were asked for.                               *)
(***************************************************************************)
ImplementsTest == Test!Spec

(***************************************************************************)
(* The test ends though the peer may stop answering at any point; only the *)
(* wait for a pong needs a timeout of its own.                             *)
(***************************************************************************)
TestEnds == <>(client \in Over)

(***************************************************************************)
(* The peer's handler does not outlive the test when the peer runs: no     *)
(* task is left waiting for a ping, whatever the client gave up on.        *)
(***************************************************************************)
HandlerReturns == WF_vars(Peer) => (client \in Over ~> handler = "done")
=============================================================================
