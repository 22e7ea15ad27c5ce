---------------------------- MODULE DoctorSession ----------------------------
(***************************************************************************)
(* A benchmark session between `accept` (the active side) and `connect`    *)
(* (the passive side), src/src/doctor.rs.                                  *)
(*                                                                         *)
(* The active side runs its tests one after the other, each on a stream of *)
(* its own: it sends a request and data, a spawned task copies whatever    *)
(* comes back, and both are awaited.  The passive side takes one stream at *)
(* a time and drains, sends or echoes.  After the last test the active     *)
(* side closes the connection.  Every byte counter is a ProgressWriter     *)
(* whose progress task ends when the writer is dropped, and both sides     *)
(* await that task.                                                        *)
(*                                                                         *)
(* Bytes are counted in blocks.  A stream direction holds at most Window   *)
(* blocks the receiver has not read, as QUIC flow control has it.          *)
(***************************************************************************)
EXTENDS Naturals, FiniteSets

CONSTANTS Size,        \* TestConfig.size, in blocks
          Iterations,  \* TestConfig.iterations
          Window       \* flow-control window of a stream direction, in blocks

ASSUME SizeAssumption == Size \in Nat
ASSUME IterationsAssumption == Iterations \in Nat
ASSUME WindowAssumption == Window \in Nat \ {0}

Kinds == {"drain", "send", "echo"}   \* TestStreamRequest
Tests == 3 * Iterations

\* Test k of the session: send_test, recv_test and echo_test in turn.
Kind(k) == CASE k % 3 = 0 -> "drain" [] k % 3 = 1 -> "send" [] OTHER -> "echo"

\* What the copying task of a test must receive.
Expected(kind) == IF kind = "drain" THEN 0 ELSE Size

VARIABLES
    conn,     \* the connection: up, done (closed by the active side), lost
    active,   \* where active_side is
    test,     \* tests the active side has completed
    reader,   \* the spawned copying task of the current test
    passive,  \* where passive_side is
    serving,  \* the request being handled
    handled,  \* requests handled without an error
    request,  \* the request on a stream not accepted yet, or "none"
    up,       \* the current stream, active to passive
    down,     \* the current stream, passive to active
    writers   \* ProgressWriters not dropped yet

streams == <<request, up, down>>
activeVars == <<active, test, reader>>
passiveVars == <<passive, serving, handled>>
vars == <<conn, activeVars, passiveVars, streams, writers>>

Pipe == [sent : 0..Size, read : 0..Size, fin : BOOLEAN]
NewPipe(fin) == [sent |-> 0, read |-> 0, fin |-> fin]
EmptyPipe == NewPipe(FALSE)

\* One invariant of types for the module.
TypeOK ==
    /\ conn \in {"up", "done", "lost"}
    /\ active \in {"open", "write", "copy", "progress", "closed", "ended", "failed"}
    /\ test \in 0..Tests
    /\ reader \in {"none", "copying", "done", "failed"}
    /\ passive \in {"accept", "work", "progress", "ended"}
    /\ serving \in Kinds
    /\ handled \in 0..Tests
    /\ request \in Kinds \cup {"none"}
    /\ up \in Pipe
    /\ down \in Pipe
    /\ writers \subseteq {"active", "passive"}

Init ==
    /\ conn = "up"
    /\ active = "open"
    /\ test = 0
    /\ reader = "none"
    /\ passive = "accept"
    /\ serving = "drain"
    /\ handled = 0
    /\ request = "none"
    /\ up = EmptyPipe
    /\ down = EmptyPipe
    /\ writers = {}

------------------------------------------------------------------------------
(* Streams. *)

CanWrite(pipe) == pipe.sent < Size /\ pipe.sent - pipe.read < Window
CanRead(pipe)  == pipe.read < pipe.sent
AtEnd(pipe)    == pipe.fin /\ pipe.read = pipe.sent

------------------------------------------------------------------------------
(* The active side. *)

\* open_bi, send_test_request and the spawn of the copying task.  A `send`
\* test has nothing more to send and finishes its direction at once.
OpenTest ==
    /\ active = "open" /\ test < Tests /\ conn = "up"
    /\ request' = Kind(test)
    /\ up' = NewPipe(Kind(test) = "send")
    /\ down' = EmptyPipe
    /\ reader' = "copying"
    /\ active' = IF Kind(test) = "send" THEN "copy" ELSE "write"
    /\ writers' = writers \cup {"active"}
    /\ UNCHANGED <<conn, test, passiveVars>>

\* send_blocks: one block is written when the window has room for it.
WriteBlock ==
    /\ active = "write" /\ conn = "up"
    /\ CanWrite(up)
    /\ up' = [up EXCEPT !.sent = @ + 1]
    /\ UNCHANGED <<conn, activeVars, passiveVars, request, down, writers>>

\* All is written: finish the stream.  send_test drops its writer here.
FinishWrite ==
    /\ active = "write"
    /\ up.sent = Size
    /\ up' = [up EXCEPT !.fin = TRUE]
    /\ active' = "copy"
    /\ writers' = IF Kind(test) = "drain" THEN writers \ {"active"} ELSE writers
    /\ UNCHANGED <<conn, test, reader, passiveVars, request, down>>

\* A variant of the copying task that is not spawned but run in place.
ReadAfterWrite ==
    /\ reader = "copying" /\ active = "copy"
    /\ CanRead(down)
    /\ down' = [down EXCEPT !.read = @ + 1]
    /\ UNCHANGED <<conn, activeVars, passiveVars, request, up, writers>>

\* The copying task reads a block; what has arrived can be read after a loss.
ReadBlock ==
    /\ reader = "copying"
    /\ CanRead(down)
    /\ down' = [down EXCEPT !.read = @ + 1]
    /\ UNCHANGED <<conn, activeVars, passiveVars, request, up, writers>>

\* The copying task sees the end of the stream.  Its sink, the writer of a
\* `send` or `echo` test, is dropped with it.
ReadEnd ==
    /\ reader = "copying"
    /\ AtEnd(down)
    /\ reader' = "done"
    /\ writers' = IF Kind(test) = "drain" THEN writers ELSE writers \ {"active"}
    /\ UNCHANGED <<conn, active, test, passiveVars, streams>>

ReadFails ==
    /\ reader = "copying" /\ conn # "up"
    /\ reader' = "failed"
    /\ writers' = IF Kind(test) = "drain" THEN writers ELSE writers \ {"active"}
    /\ UNCHANGED <<conn, active, test, passiveVars, streams>>

\* copying.await, then ensure!(received == expected).
Copied ==
    /\ active = "copy" /\ reader = "done"
    /\ active' = IF down.read = Expected(Kind(test)) THEN "progress" ELSE "failed"
    /\ UNCHANGED <<conn, test, reader, passiveVars, streams, writers>>

\* progress.await: the progress task ends once its writer is dropped.
ActiveProgress ==
    /\ active = "progress" /\ "active" \notin writers
    /\ active' = "open"
    /\ test' = test + 1
    /\ reader' = "none"
    /\ UNCHANGED <<conn, passiveVars, streams, writers>>

\* An await of the active side fails; its writer is dropped with the test.
ActiveFails ==
    /\ \/ active = "open" /\ test < Tests /\ conn # "up"
       \/ active = "write" /\ up.sent < Size /\ conn # "up"
       \/ active = "copy" /\ reader = "failed"
    /\ active' = "failed"
    /\ writers' = IF Kind(test) = "drain" THEN writers \ {"active"} ELSE writers
    /\ UNCHANGED <<conn, test, reader, passiveVars, streams>>

\* A variant that closes after the last test's data is sent.
CloseAfterWrite ==
    /\ \/ active = "open" /\ test = Tests
       \/ active = "copy" /\ test + 1 = Tests
    /\ active' = "closed"
    /\ conn' = IF conn = "up" THEN "done" ELSE conn
    /\ UNCHANGED <<test, reader, passiveVars, streams, writers>>

\* The tests are over: connection.close(0, "done").
Close ==
    /\ active = "open" /\ test = Tests
    /\ active' = "closed"
    /\ conn' = IF conn = "up" THEN "done" ELSE conn
    /\ UNCHANGED <<test, reader, passiveVars, streams, writers>>

\* connection.closed().await
Closed ==
    /\ active = "closed"
    /\ active' = "ended"
    /\ UNCHANGED <<conn, test, reader, passiveVars, streams, writers>>

------------------------------------------------------------------------------
(* The passive side. *)

\* A variant that finishes the answer of a drain before it has drained.
AcceptAndFinish ==
    /\ passive = "accept" /\ request # "none"
    /\ request' = "none"
    /\ serving' = request
    /\ passive' = "work"
    /\ writers' = writers \cup {"passive"}
    /\ down' = [down EXCEPT !.fin = request = "drain"]
    /\ UNCHANGED <<conn, activeVars, handled, up>>

\* accept_bi and the request; a ProgressWriter is made for the answer.
AcceptStream ==
    /\ passive = "accept" /\ request # "none"
    /\ request' = "none"
    /\ serving' = request
    /\ passive' = "work"
    /\ writers' = writers \cup {"passive"}
    /\ UNCHANGED <<conn, activeVars, handled, up, down>>

\* The copy to a sink (Drain), or into the buffer of a copy of one block (Echo).
TakeBlock ==
    /\ passive = "work"
    /\ \/ serving = "drain"
       \/ serving = "echo" /\ up.read = down.sent
    /\ CanRead(up)
    /\ up' = [up EXCEPT !.read = @ + 1]
    /\ UNCHANGED <<conn, activeVars, passiveVars, request, down, writers>>

\* send_blocks (Send), or writing out the buffered block (Echo).
GiveBlock ==
    /\ passive = "work" /\ conn = "up"
    /\ \/ serving = "send"
       \/ serving = "echo" /\ down.sent < up.read
    /\ CanWrite(down)
    /\ down' = [down EXCEPT !.sent = @ + 1]
    /\ UNCHANGED <<conn, activeVars, passiveVars, request, up, writers>>

\* The request is served.
ServedAll ==
    CASE serving = "drain" -> AtEnd(up)
      [] serving = "send"  -> down.sent = Size
      [] serving = "echo"  -> AtEnd(up) /\ down.sent = up.read

\* A variant that ends an echo with the last block still in the copy's buffer.
DropWriterUnflushed ==
    /\ passive = "work"
    /\ IF serving = "send" THEN down.sent = Size ELSE AtEnd(up)
    /\ passive' = "progress"
    /\ writers' = writers \ {"passive"}
    /\ UNCHANGED <<conn, activeVars, serving, handled, streams>>

\* A variant that awaits the progress task without dropping the writer.
KeepWriter ==
    /\ passive = "work" /\ ServedAll
    /\ passive' = "progress"
    /\ UNCHANGED <<conn, activeVars, serving, handled, streams, writers>>

\* drop(send): the writer goes, and with it the progress channel's sender.
DropWriter ==
    /\ passive = "work" /\ ServedAll
    /\ passive' = "progress"
    /\ writers' = writers \ {"passive"}
    /\ UNCHANGED <<conn, activeVars, serving, handled, streams>>

\* progress.await, send.finish(), and back to accept_bi.
FinishRequest ==
    /\ passive = "progress" /\ "passive" \notin writers
    /\ down' = [down EXCEPT !.fin = TRUE]
    /\ passive' = "accept"
    /\ handled' = handled + 1
    /\ UNCHANGED <<conn, activeVars, serving, request, up, writers>>

\* Serving fails with the connection; the error is printed and the loop goes on.
RequestFails ==
    /\ passive = "work" /\ conn # "up"
    /\ passive' = "accept"
    /\ writers' = writers \ {"passive"}
    /\ UNCHANGED <<conn, activeVars, serving, handled, streams>>

\* The race is over: closed() returned, wherever the accept loop is, or
\* accept_bi failed.  Dropping the loop drops its writer.
PassiveEnds ==
    /\ passive # "ended" /\ conn # "up"
    /\ passive' = "ended"
    /\ writers' = writers \ {"passive"}
    /\ UNCHANGED <<conn, activeVars, serving, handled, streams>>

------------------------------------------------------------------------------
\* The idle timeout, an unreachable peer, or Ctrl-C on either side.
Lose ==
    /\ conn = "up"
    /\ conn' = "lost"
    /\ UNCHANGED <<activeVars, passiveVars, streams, writers>>

SessionOver ==
    /\ active \in {"ended", "failed"} /\ passive = "ended"
    /\ reader # "copying"

Terminated == SessionOver /\ UNCHANGED vars

ActiveSide ==
    \/ OpenTest \/ WriteBlock \/ FinishWrite \/ Copied \/ ActiveProgress
    \/ ActiveFails \/ Close \/ Closed

Reader == ReadBlock \/ ReadEnd \/ ReadFails

PassiveSide ==
    \/ AcceptStream \/ TakeBlock \/ GiveBlock \/ DropWriter \/ FinishRequest
    \/ RequestFails \/ PassiveEnds

Next == ActiveSide \/ Reader \/ PassiveSide \/ Lose \/ Terminated

Spec == Init /\ [][Next]_vars

\* Tokio polls each of the three tasks when it is ready; a loss need not come.
FairSpec == Spec /\ WF_vars(ActiveSide) /\ WF_vars(Reader) /\ WF_vars(PassiveSide)

------------------------------------------------------------------------------
(* Properties. *)

(***************************************************************************)
(* A request is served for the test the active side is in, never for one   *)
(* it has left: the sequential accept loop and the sequential tests stay   *)
(* in step without any message of their own (doctor.rs: only the finish of *)
(* the answer lets the active side go on).                                 *)
(***************************************************************************)
Lockstep ==
    /\ passive \in {"work", "progress"} /\ conn = "up" =>
          /\ handled = test
          /\ serving = Kind(test)
          /\ active \in {"write", "copy"}
    /\ active = "open" /\ conn = "up" => handled = test /\ passive = "accept"

(***************************************************************************)
(* The comment in active_side: "Close the connection gracefully.  We're    *)
(* always the ones last receiving data".  When the active side closes, the *)
(* passive side has served every request and waits for another stream.     *)
(***************************************************************************)
CloseIsGraceful ==
    conn = "done" => handled = Tests /\ passive \in {"accept", "ended"}

(***************************************************************************)
(* The ensure! of the tests never fires by itself: a test fails only with  *)
(* the connection, so a session that keeps its connection counts all bytes.*)
(***************************************************************************)
NoShortTransfer == active = "failed" => conn = "lost"

\* What each of the three tasks waits for: the guards of its actions.
ActiveReady ==
    \/ active \in {"open", "closed"}
    \/ active = "write" /\ (up.sent = Size \/ CanWrite(up) \/ conn # "up")
    \/ active = "copy" /\ reader \in {"done", "failed"}
    \/ active = "progress" /\ "active" \notin writers

ReaderReady == reader = "copying" /\ (CanRead(down) \/ AtEnd(down) \/ conn # "up")

PassiveReady ==
    \/ passive # "ended" /\ conn # "up"
    \/ passive = "accept" /\ request # "none"
    \/ passive = "work" /\
          \/ ServedAll
          \/ serving \in {"drain", "echo"} /\ CanRead(up) /\ (serving = "echo" => up.read = down.sent)
          \/ serving \in {"send", "echo"} /\ CanWrite(down) /\ (serving = "echo" => down.sent < up.read)
    \/ passive = "progress" /\ "passive" \notin writers

(***************************************************************************)
(* No cyclic wait: as long as the session is not over, one of its three    *)
(* tasks can go on by itself, without a loss of the connection to help.    *)
(***************************************************************************)
NeverStuck == SessionOver \/ ActiveReady \/ ReaderReady \/ PassiveReady

(***************************************************************************)
(* Whatever the window, the data size and the moment of a loss, neither    *)
(* side waits for ever: not on a full stream, not on the copying task, not *)
(* on a progress task whose writer is still alive.                         *)
(***************************************************************************)
SessionEnds == <>(active \in {"ended", "failed"} /\ passive = "ended")
=============================================================================
