------------------------- MODULE DoctorSessionProofs -------------------------
(***************************************************************************)
(* Safety of a benchmark session for every data size, number of iterations *)
(* and flow-control window.                                                *)
(*                                                                         *)
(* Everything rests on one observation: between the opening of a stream    *)
(* and the finish of its answer the passive side is serving the test the   *)
(* active side is in, and only that finish lets the active side go on.     *)
(* The progress of a transfer is at the end.                               *)
(***************************************************************************)
EXTENDS DoctorSession, ProgressWriter, TLAPS

USE SizeAssumption, IterationsAssumption, WindowAssumption

Running == active \in {"write", "copy"}
Serving == passive \in {"work", "progress"}
Current == Running \/ request # "none" \/ Serving
Waiting == passive \in {"accept", "ended"}

\* Where the active side is between two tests, and where it has stopped.
BetweenInv ==
    /\ active \in {"write", "copy", "progress"} => test < Tests
    /\ active \in {"open", "closed", "ended"} =>
          handled = test /\ request = "none" /\ Waiting
    /\ active \in {"closed", "ended"} => test = Tests
    /\ active = "progress" => handled = test + 1 /\ request = "none" /\ Waiting
    /\ conn = "done" => active \in {"closed", "ended"}
    /\ active = "failed" => conn = "lost"
    /\ reader = "failed" => conn # "up"
    /\ passive = "ended" => conn # "up"

\* A request that waits or is served is the one of the current test.
ServeInv ==
    /\ request # "none" =>
          /\ request = Kind(test) /\ Waiting
          /\ up.read = 0 /\ down = EmptyPipe
    /\ Serving =>
          /\ serving = Kind(test) /\ request = "none" /\ ~down.fin
    /\ request # "none" \/ Serving =>
          /\ handled = test /\ test < Tests
          /\ active \in {"write", "copy", "failed"}
          /\ reader \in {"copying", "failed"}

\* The stream of the current test: nothing is lost on its way, and the
\* answer is finished only when it is complete.
DataInv ==
    /\ up.read <= up.sent /\ down.read <= down.sent
    /\ Current =>
          /\ Kind(test) = "drain" => down.sent = 0
          /\ Kind(test) = "echo" =>
                /\ down.sent <= up.read
                /\ up.fin => up.sent = Size
    /\ Running /\ down.fin => handled = test + 1 /\ down.sent = Expected(Kind(test))
    /\ passive = "progress" => down.sent = Expected(Kind(test))
    /\ Running /\ reader = "done" => down.fin /\ down.read = down.sent

Inv == TypeOK /\ BetweenInv /\ ServeInv /\ DataInv

LEMMA TestsNat == Tests \in Nat
  BY DEF Tests

LEMMA KindType == \A k : Kind(k) \in Kinds
  BY DEF Kind, Kinds

LEMMA FreshPipe == NewPipe(TRUE) \in Pipe /\ NewPipe(FALSE) \in Pipe
<1>1. 0 \in 0..Size
  OBVIOUS
<1> QED  BY <1>1, Zenon DEF NewPipe, Pipe

LEMMA InvInit == Init => Inv
  BY TestsNat, KindType
     DEF Init, Inv, TypeOK, BetweenInv, ServeInv, DataInv, Pipe, NewPipe, EmptyPipe, Kinds,
         Running, Serving, Current, Waiting

LEMMA InvStep == Inv /\ [Next]_vars => Inv'
<1> SUFFICES ASSUME Inv, [Next]_vars PROVE Inv'
  OBVIOUS
<1> USE TestsNat, KindType
    DEF Inv, TypeOK, BetweenInv, ServeInv, DataInv, Pipe, NewPipe, EmptyPipe, Kinds,
        Running, Serving, Current, Waiting, CanRead, CanWrite, AtEnd,
        activeVars, passiveVars, streams
<1>1. CASE OpenTest
  <2>1. /\ active = "open" /\ test < Tests /\ conn = "up"
        /\ request' = Kind(test) /\ reader' = "copying"
        /\ down' = EmptyPipe
        /\ writers' = writers \cup {"active"}
        /\ UNCHANGED <<conn, test, passive, serving, handled>>
    BY <1>1 DEF OpenTest
  <2>2. \/ /\ Kind(test) = "send"
           /\ active' = "copy"
           /\ up' = NewPipe(TRUE)
        \/ /\ Kind(test) # "send"
           /\ active' = "write"
           /\ up' = EmptyPipe
    BY <1>1 DEF OpenTest
  <2>3. TypeOK'
    <3>1. up' \in Pipe
      BY <2>2, FreshPipe
    <3>2. down' \in Pipe
      BY <2>1
    <3>3. active' \in {"write", "copy"}
      BY <2>2
    <3> QED  BY <2>1, <3>1, <3>2, <3>3
  <2>4. BetweenInv'
    BY <2>1, <2>2
  <2>5. ServeInv'
    BY <2>1, <2>2
  <2>6. DataInv'
    BY <2>1, <2>2
  <2> QED  BY <2>3, <2>4, <2>5, <2>6
<1>2. CASE WriteBlock
  BY <1>2 DEF WriteBlock
<1>3. CASE FinishWrite
  <2>1. TypeOK'
    BY <1>3 DEF FinishWrite
  <2>2. BetweenInv'
    BY <1>3 DEF FinishWrite
  <2>3. ServeInv'
    BY <1>3 DEF FinishWrite
  <2>4. DataInv'
    BY <1>3 DEF FinishWrite
  <2> QED  BY <2>1, <2>2, <2>3, <2>4
<1>4. CASE ReadBlock
  BY <1>4 DEF ReadBlock
<1>5. CASE ReadEnd
  BY <1>5 DEF ReadEnd
<1>6. CASE ReadFails
  BY <1>6 DEF ReadFails
<1>7. CASE Copied
  BY <1>7 DEF Copied, Expected
<1>8. CASE ActiveProgress
  BY <1>8 DEF ActiveProgress
<1>9. CASE ActiveFails
  BY <1>9 DEF ActiveFails
<1>10. CASE Close
  BY <1>10 DEF Close
<1>11. CASE Closed
  BY <1>11 DEF Closed
<1>12. CASE AcceptStream
  BY <1>12 DEF AcceptStream
<1>13. CASE TakeBlock
  BY <1>13 DEF TakeBlock
<1>14. CASE GiveBlock
  <2>1. TypeOK'
    BY <1>14 DEF GiveBlock
  <2>2. BetweenInv'
    BY <1>14 DEF GiveBlock
  <2>3. ServeInv'
    BY <1>14 DEF GiveBlock
  <2>4. DataInv'
    <3>1. /\ down'.sent = down.sent + 1 /\ down'.read = down.read /\ down'.fin = down.fin
          /\ passive = "work" /\ UNCHANGED <<active, test, reader, passive, request, up, handled>>
      BY <1>14 DEF GiveBlock
    <3>2. serving = Kind(test) /\ ~down.fin
      BY <3>1
    <3>3. Kind(test) # "drain"
      BY <1>14, <3>2 DEF GiveBlock
    <3>4. Kind(test) = "echo" => down.sent < up.read
      BY <1>14, <3>2 DEF GiveBlock
    <3>5. reader # "done"
      BY <3>1
    <3> QED  BY <3>1, <3>2, <3>3, <3>4, <3>5
  <2> QED  BY <2>1, <2>2, <2>3, <2>4
<1>15. CASE DropWriter
  BY <1>15 DEF DropWriter, ServedAll, Expected
<1>16. CASE FinishRequest
  <2>1. TypeOK'
    <3>1. handled + 1 \in 0..Tests
      BY <1>16 DEF FinishRequest
    <3>2. down' \in Pipe
      BY <1>16 DEF FinishRequest
    <3> QED  BY <1>16, <3>1, <3>2 DEF FinishRequest
  <2>2. BetweenInv'
    BY <1>16 DEF FinishRequest
  <2>3. ServeInv'
    BY <1>16 DEF FinishRequest
  <2>4. DataInv'
    BY <1>16 DEF FinishRequest, Expected
  <2> QED  BY <2>1, <2>2, <2>3, <2>4
<1>17. CASE RequestFails
  BY <1>17 DEF RequestFails
<1>18. CASE PassiveEnds
  BY <1>18 DEF PassiveEnds
<1>19. CASE Lose
  BY <1>19 DEF Lose
<1>20. CASE UNCHANGED vars
  BY <1>20 DEF vars
<1> QED
  BY <1>1, <1>2, <1>3, <1>4, <1>5, <1>6, <1>7, <1>8, <1>9, <1>10, <1>11, <1>12, <1>13, <1>14, <1>15, <1>16, <1>17, <1>18, <1>19, <1>20
     DEF Next, ActiveSide, Reader, PassiveSide, Terminated

(* Every reachable state satisfies the inductive invariant. *)
THEOREM Invariance == Spec => []Inv
  BY InvInit, InvStep, PTL DEF Spec

(* Types: no counter leaves its range, whatever is lost and whenever. *)
THEOREM TypeCorrect == Spec => []TypeOK
<1>1. Inv => TypeOK
  BY DEF Inv
<1> QED  BY <1>1, Invariance, PTL

(* A request is served for the test the active side is in. *)
THEOREM SidesInStep == Spec => []Lockstep
<1>1. Inv => Lockstep
  BY DEF Inv, TypeOK, BetweenInv, ServeInv, Lockstep, Serving, Waiting
<1> QED  BY <1>1, Invariance, PTL

(* The active side closes only when the passive side is done. *)
THEOREM GracefulClose == Spec => []CloseIsGraceful
<1>1. Inv => CloseIsGraceful
  BY DEF Inv, BetweenInv, CloseIsGraceful, Waiting
<1> QED  BY <1>1, Invariance, PTL

(* A test fails only with its connection. *)
THEOREM AllBytesCounted == Spec => []NoShortTransfer
<1>1. Inv => NoShortTransfer
  BY DEF Inv, BetweenInv, NoShortTransfer
<1> QED  BY <1>1, Invariance, PTL

------------------------------------------------------------------------------
(* No cyclic wait.  Two things are missing from Inv: that a writer is gone *)
(* when its progress task is awaited, and that what a task of the current  *)
(* test waits for has been sent or can be.                                 *)

WriterInv ==
    /\ active = "progress" => "active" \notin writers
    /\ passive = "progress" => "passive" \notin writers
    /\ active = "copy" /\ Kind(test) = "drain" => "active" \notin writers
    /\ Running /\ Kind(test) # "drain" /\ reader # "copying" => "active" \notin writers

WaitInv ==
    /\ active \in {"closed", "ended"} => conn # "up"
    /\ active = "write" => Kind(test) # "send"
    /\ active \in {"open", "closed", "ended"} => reader = "none"
    /\ Running =>
          /\ reader # "none"
          /\ up.fin <=> active = "copy"
          /\ down.fin \/ passive = "progress" => up.fin
          /\ conn = "up" /\ passive = "accept" /\ request = "none" => down.fin

LEMMA WaitInit == Init => WriterInv /\ WaitInv
  BY DEF Init, WriterInv, WaitInv, Running, EmptyPipe, NewPipe

LEMMA WriterStep == Inv /\ WriterInv /\ [Next]_vars => WriterInv'
<1> SUFFICES ASSUME Inv, WriterInv, [Next]_vars PROVE WriterInv'
  OBVIOUS
<1> USE DEF Inv, WriterInv, ServeInv, Running, Serving, activeVars, passiveVars, streams
<1>1. CASE OpenTest
  BY <1>1 DEF OpenTest, TypeOK, BetweenInv, Waiting
<1>2. CASE WriteBlock \/ FinishWrite
  BY <1>2 DEF WriteBlock, FinishWrite
<1>3. CASE Copied \/ ActiveProgress
  BY <1>3 DEF Copied, ActiveProgress
<1>4. CASE ActiveFails \/ Close \/ Closed
  BY <1>4 DEF ActiveFails, Close, Closed
<1>5. CASE Reader
  BY <1>5 DEF Reader, ReadBlock, ReadEnd, ReadFails
<1>6. CASE PassiveSide
  BY <1>6 DEF PassiveSide, AcceptStream, TakeBlock, GiveBlock, DropWriter, FinishRequest,
              RequestFails, PassiveEnds
<1>7. CASE Lose \/ UNCHANGED vars
  BY <1>7 DEF Lose, vars
<1> QED  BY <1>1, <1>2, <1>3, <1>4, <1>5, <1>6, <1>7 DEF Next, ActiveSide, Terminated

LEMMA WaitStep == Inv /\ WaitInv /\ [Next]_vars => WaitInv'
<1> SUFFICES ASSUME Inv, WaitInv, [Next]_vars PROVE WaitInv'
  OBVIOUS
<1> USE DEF WaitInv, Running, activeVars, passiveVars, streams
<1>1. CASE OpenTest
  <2>1. /\ reader' = "copying" /\ request' \in Kinds /\ ~down'.fin
        /\ conn = "up" /\ conn' = conn /\ test' = test /\ passive' = passive /\ passive # "progress"
    BY <1>1, KindType DEF OpenTest, NewPipe, EmptyPipe, Inv, BetweenInv, Waiting
  <2>2. CASE Kind(test) = "send"
    <3>1. active' = "copy" /\ up'.fin
      BY <1>1, <2>2 DEF OpenTest, NewPipe
    <3> QED  BY <2>1, <3>1 DEF Kinds
  <2>3. CASE Kind(test) # "send"
    <3>1. active' = "write" /\ ~up'.fin
      BY <1>1, <2>3 DEF OpenTest, NewPipe
    <3> QED  BY <2>1, <2>3, <3>1 DEF Kinds
  <2> QED  BY <2>2, <2>3
<1>2. CASE WriteBlock
  BY <1>2 DEF WriteBlock, Inv, TypeOK, Pipe
<1>3. CASE FinishWrite
  BY <1>3 DEF FinishWrite, Inv, TypeOK, Pipe
<1>4. CASE Copied \/ ActiveProgress \/ ActiveFails \/ Close \/ Closed
  BY <1>4 DEF Copied, ActiveProgress, ActiveFails, Close, Closed
<1>5. CASE Reader
  BY <1>5 DEF Reader, ReadBlock, ReadEnd, ReadFails, Inv, TypeOK, Pipe
<1>6. CASE AcceptStream \/ RequestFails \/ PassiveEnds
  BY <1>6 DEF AcceptStream, RequestFails, PassiveEnds
<1>7. CASE TakeBlock \/ GiveBlock
  BY <1>7 DEF TakeBlock, GiveBlock, Inv, TypeOK, Pipe
<1>8. CASE DropWriter
  <2>1. Running => serving = Kind(test)
    BY <1>8 DEF DropWriter, Inv, ServeInv, Serving
  <2>2. Running => up.fin
    BY <1>8, <2>1 DEF DropWriter, ServedAll, AtEnd, Inv, TypeOK, Kinds
  <2> QED  BY <1>8, <2>2 DEF DropWriter
<1>9. CASE FinishRequest
  BY <1>9 DEF FinishRequest, Inv, TypeOK, Pipe
<1>10. CASE Lose \/ UNCHANGED vars
  BY <1>10 DEF Lose, vars
<1> QED
  BY <1>1, <1>2, <1>3, <1>4, <1>5, <1>6, <1>7, <1>8, <1>9, <1>10
     DEF Next, ActiveSide, PassiveSide, Terminated

LEMMA WaitInvariance == Spec => [](Inv /\ WriterInv /\ WaitInv)
<1>1. Inv /\ WriterInv /\ WaitInv /\ [Next]_vars => (Inv /\ WriterInv /\ WaitInv)'
  BY InvStep, WriterStep, WaitStep
<1> QED  BY <1>1, InvInit, WaitInit, PTL DEF Spec

\* A direction whose reader has read everything takes another block.
LEMMA Drained ==
    ASSUME NEW pipe \in Pipe, pipe.read <= pipe.sent
    PROVE  /\ CanRead(pipe) \/ pipe.read = pipe.sent
           /\ CanRead(pipe) \/ CanWrite(pipe) \/ pipe.sent = Size
  BY DEF Pipe, CanRead, CanWrite

LEMMA SomeoneReady == Inv /\ WriterInv /\ WaitInv => NeverStuck
<1> SUFFICES ASSUME Inv, WriterInv, WaitInv,
                    ~SessionOver, ~ActiveReady, ~ReaderReady, ~PassiveReady
             PROVE  FALSE
  BY DEF NeverStuck
<1> USE DEF Inv, TypeOK
<1>1. CASE conn # "up"
  BY <1>1 DEF SessionOver, ActiveReady, ReaderReady, PassiveReady, WaitInv, WriterInv, Running
<1>2. CASE conn = "up"
  <2>1. /\ Running /\ passive \in {"accept", "work"}
        /\ reader \in {"copying", "done"}
        /\ active = "copy" => reader = "copying"
    BY <1>2 DEF ActiveReady, PassiveReady, WaitInv, WriterInv, BetweenInv, Running
  <2>2. /\ CanRead(up) \/ up.read = up.sent
        /\ CanRead(up) \/ CanWrite(up) \/ up.sent = Size
        /\ CanRead(down) \/ down.read = down.sent
        /\ CanRead(down) \/ CanWrite(down) \/ down.sent = Size
    BY Drained DEF DataInv
  <2>3. CASE passive = "accept"
    <3>1. down.fin /\ up.fin
      BY <1>2, <2>1, <2>3 DEF PassiveReady, WaitInv
    <3>2. reader = "copying"
      BY <2>1, <3>1 DEF WaitInv
    <3> QED  BY <2>2, <3>1, <3>2 DEF ReaderReady, AtEnd
  <2>4. CASE passive = "work"
    <3>1. serving = Kind(test) /\ reader = "copying" /\ ~CanRead(down)
      BY <1>2, <2>1, <2>4 DEF ServeInv, Serving, ReaderReady, BetweenInv
    <3>2. CanRead(up) \/ up.fin
      BY <1>2, <2>1, <2>2 DEF ActiveReady, WaitInv, Running
    <3>3. CanWrite(down) \/ down.sent = Size
      BY <2>2, <3>1
    <3>4. CASE serving = "drain"
      BY <2>2, <2>4, <3>2, <3>4 DEF PassiveReady, ServedAll, AtEnd
    <3>5. CASE serving = "send"
      BY <2>4, <3>3, <3>5 DEF PassiveReady, ServedAll
    <3>6. CASE serving = "echo"
      <4>1. up.read \in 0..Size /\ down.sent \in 0..Size /\ down.sent <= up.read
        BY <2>1, <3>1, <3>6 DEF DataInv, Current, Pipe
      <4>2. CASE down.sent = up.read
        BY <2>2, <2>4, <3>2, <3>6, <4>2 DEF PassiveReady, ServedAll, AtEnd
      <4>3. CASE down.sent < up.read
        <5>1. CanWrite(down)
          BY <3>3, <4>1, <4>3
        <5> QED  BY <2>4, <3>6, <4>3, <5>1 DEF PassiveReady
      <4> QED  BY <4>1, <4>2, <4>3
    <3> QED  BY <3>4, <3>5, <3>6 DEF Kinds
  <2> QED  BY <2>1, <2>3, <2>4
<1> QED  BY <1>1, <1>2

\* As long as a session is not over one of its tasks can go on, for any data
\* size and any window: the sides never wait for each other.
THEOREM NoCyclicWait == Spec => []NeverStuck
  BY WaitInvariance, SomeoneReady, PTL

------------------------------------------------------------------------------
(* What is left of the current test, in steps.  Every step completes a     *)
(* test or leaves less of it, the loss of the connection apart: there are  *)
(* finitely many steps, and with NoCyclicWait the last one ends the        *)
(* session.                                                                *)

DataLeft == (Size - up.sent) + (Size - up.read) + (Size - down.sent) + (Size - down.read)

ActiveLeft ==
    CASE active = "write" -> 4 [] active = "copy" -> 3 [] active = "progress" -> 2
      [] active = "closed" -> 1 [] OTHER -> 0

ReaderLeft == IF reader = "copying" THEN 1 ELSE 0

PassiveLeft ==
    CASE passive = "ended"                        -> 0
      [] passive # "ended" /\ request # "none"    -> 4
      [] passive = "work" /\ request = "none"     -> 3
      [] passive = "progress" /\ request = "none" -> 2
      [] OTHER                                    -> 1

\* An open active side has all of a test before it.
Left ==
    PassiveLeft + (IF active = "open" THEN 4 * Size + 9 ELSE DataLeft + ActiveLeft + ReaderLeft)

MostLeft == 4 * Size + 13

\* A step that is not the loss of the connection.
MovesOn ==
    \/ test' = test + 1
    \/ test' = test /\ Left' < Left

LEMMA LeftBounded == ASSUME TypeOK PROVE Left \in 0..MostLeft
<1>1. DataLeft \in 0..(4 * Size)
  BY DEF TypeOK, Pipe, DataLeft
<1>2. ActiveLeft \in 0..4 /\ ReaderLeft \in 0..1 /\ PassiveLeft \in 0..4
  BY DEF ActiveLeft, ReaderLeft, PassiveLeft
<1> QED  BY <1>1, <1>2 DEF Left, MostLeft

LEMMA PassiveLeftIs ==
    /\ PassiveLeft = IF passive = "ended" THEN 0 ELSE IF request # "none" THEN 4
                     ELSE IF passive = "work" THEN 3 ELSE IF passive = "progress" THEN 2 ELSE 1
    /\ PassiveLeft' = IF passive' = "ended" THEN 0 ELSE IF request' # "none" THEN 4
                      ELSE IF passive' = "work" THEN 3 ELSE IF passive' = "progress" THEN 2 ELSE 1
    /\ PassiveLeft \in Nat /\ PassiveLeft' \in Nat
  BY DEF PassiveLeft

LEMMA ActiveLeftIs ==
    /\ ActiveLeft = IF active = "write" THEN 4 ELSE IF active = "copy" THEN 3
                    ELSE IF active = "progress" THEN 2 ELSE IF active = "closed" THEN 1 ELSE 0
    /\ ActiveLeft' = IF active' = "write" THEN 4 ELSE IF active' = "copy" THEN 3
                     ELSE IF active' = "progress" THEN 2 ELSE IF active' = "closed" THEN 1 ELSE 0
    /\ ActiveLeft \in Nat /\ ActiveLeft' \in Nat
  BY DEF ActiveLeft

LEMMA LeftParts ==
    ASSUME TypeOK, TypeOK'
    PROVE  /\ DataLeft \in 0..(4 * Size) /\ DataLeft' \in 0..(4 * Size)
           /\ ReaderLeft \in 0..1 /\ ReaderLeft' \in 0..1
<1>1. DataLeft \in 0..(4 * Size)
  BY DEF TypeOK, Pipe, DataLeft
<1>2. DataLeft' \in 0..(4 * Size)
  BY DEF TypeOK, Pipe, DataLeft
<1> QED  BY <1>1, <1>2 DEF ReaderLeft

LEMMA ActiveMovesOn == ASSUME Inv, TypeOK', ActiveSide PROVE MovesOn
<1>0. TypeOK
  BY DEF Inv
<1> USE <1>0, PassiveLeftIs, ActiveLeftIs, LeftParts DEF MovesOn, Left, activeVars, passiveVars, streams
<1>1. CASE OpenTest
  <2>1. test' = test /\ active = "open" /\ active' \in {"write", "copy"}
        /\ passive' = passive /\ passive \in {"accept", "ended"}
    BY <1>1 DEF OpenTest, Inv, BetweenInv, Waiting
  <2>2. PassiveLeft' <= PassiveLeft + 3
    BY <2>1
  <2> QED  BY <2>1, <2>2
<1>2. CASE WriteBlock
  <2>1. DataLeft' = DataLeft - 1
    BY <1>2 DEF WriteBlock, CanWrite, DataLeft, Inv, TypeOK, Pipe
  <2> QED  BY <1>2, <2>1 DEF WriteBlock, ReaderLeft
<1>3. CASE FinishWrite
  <2>1. DataLeft' = DataLeft
    BY <1>3 DEF FinishWrite, DataLeft, Inv, TypeOK, Pipe
  <2> QED  BY <1>3, <2>1 DEF FinishWrite, ReaderLeft
<1>4. CASE ActiveProgress
  BY <1>4 DEF ActiveProgress
<1>5. CASE Copied
  BY <1>5 DEF Copied, DataLeft, ReaderLeft
<1>6. CASE ActiveFails
  <2>1. CASE active = "open"
    <3>1. active' = "failed" /\ test' = test /\ PassiveLeft' = PassiveLeft
      BY <1>6 DEF ActiveFails
    <3>2. /\ Left = PassiveLeft + (4 * Size + 9)
          /\ Left' = PassiveLeft + (DataLeft' + 0 + ReaderLeft')
      BY <2>1, <3>1
    <3> QED  BY <3>1, <3>2
  <2>2. CASE active # "open"
    <3>1. DataLeft' = DataLeft /\ ReaderLeft' = ReaderLeft /\ PassiveLeft' = PassiveLeft
      BY <1>6 DEF ActiveFails, DataLeft, ReaderLeft
    <3> QED  BY <1>6, <2>2, <3>1 DEF ActiveFails
  <2> QED  BY <2>1, <2>2
<1>7. CASE Close
  BY <1>7 DEF Close
<1>8. CASE Closed
  BY <1>8 DEF Closed, DataLeft, ReaderLeft
<1> QED  BY <1>1, <1>2, <1>3, <1>4, <1>5, <1>6, <1>7, <1>8 DEF ActiveSide

LEMMA ReaderMovesOn == ASSUME Inv, WaitInv, TypeOK', Reader PROVE MovesOn
<1> USE DEF activeVars, passiveVars, streams
<1>1. active # "open" /\ active' = active /\ test' = test
      /\ PassiveLeft' = PassiveLeft /\ ActiveLeft' = ActiveLeft
  BY PassiveLeftIs, ActiveLeftIs DEF WaitInv, Reader, ReadBlock, ReadEnd, ReadFails
<1>2. DataLeft' + ReaderLeft' < DataLeft + ReaderLeft
  <2>1. CASE ReadBlock
    BY <2>1 DEF ReadBlock, CanRead, DataLeft, ReaderLeft, Inv, TypeOK, Pipe
  <2>2. CASE ReadEnd \/ ReadFails
    BY <2>2 DEF ReadEnd, ReadFails, DataLeft, ReaderLeft, Inv, TypeOK, Pipe
  <2> QED  BY <2>1, <2>2 DEF Reader
<1>3. PassiveLeft \in Nat /\ ActiveLeft \in Nat
  BY PassiveLeftIs, ActiveLeftIs
<1>4. /\ Left = PassiveLeft + (DataLeft + ActiveLeft + ReaderLeft)
      /\ Left' = PassiveLeft + (DataLeft' + ActiveLeft + ReaderLeft')
  BY <1>1 DEF Left
<1> QED  BY <1>1, <1>2, <1>3, <1>4, LeftParts DEF MovesOn, Inv

LEMMA PassiveMovesOn == ASSUME Inv, TypeOK', PassiveSide PROVE MovesOn
<1> USE DEF activeVars, passiveVars, streams
<1>1. /\ active' = active /\ test' = test
      /\ ActiveLeft' = ActiveLeft /\ ReaderLeft' = ReaderLeft
  BY ActiveLeftIs DEF ReaderLeft, PassiveSide, AcceptStream, TakeBlock, GiveBlock, DropWriter,
                      FinishRequest, RequestFails, PassiveEnds
<1>2. CASE TakeBlock \/ GiveBlock
  <2>1. active # "open" /\ PassiveLeft' = PassiveLeft
    BY <1>2, PassiveLeftIs DEF TakeBlock, GiveBlock, Inv, ServeInv, Serving
  <2>2. DataLeft' = DataLeft - 1
    BY <1>2 DEF TakeBlock, GiveBlock, CanRead, CanWrite, DataLeft, Inv, TypeOK, Pipe
  <2> QED  BY <1>1, <2>1, <2>2, PassiveLeftIs, ActiveLeftIs, LeftParts DEF MovesOn, Left, Inv
<1>3. CASE ~(TakeBlock \/ GiveBlock)
  <2>1. PassiveLeft' < PassiveLeft
    BY <1>3, PassiveLeftIs DEF PassiveSide, AcceptStream, DropWriter, FinishRequest,
                               RequestFails, PassiveEnds, Inv, ServeInv, Serving, TypeOK
  <2>2. DataLeft' = DataLeft
    BY <1>3 DEF PassiveSide, AcceptStream, DropWriter, FinishRequest,
                RequestFails, PassiveEnds, DataLeft, Inv, TypeOK, Pipe
  <2> QED  BY <1>1, <2>1, <2>2, PassiveLeftIs, ActiveLeftIs, LeftParts DEF MovesOn, Left, Inv
<1> QED  BY <1>2, <1>3

LEMMA StepMovesOn == ASSUME Inv, WaitInv, TypeOK', [Next]_vars PROVE [MovesOn \/ Lose]_vars
  BY ActiveMovesOn, ReaderMovesOn, PassiveMovesOn DEF Next, Terminated

\* Of the current test at most MostLeft steps are left, and every step but the
\* loss of the connection takes one of them or completes the test: no task can
\* be busy for ever, whatever the size of the data.
THEOREM SessionMovesOn == Spec => [](Left \in 0..MostLeft) /\ [][MovesOn \/ Lose]_vars
<1>1. Inv => Left \in 0..MostLeft
  BY LeftBounded DEF Inv
<1>2. Inv => TypeOK
  BY DEF Inv
<1> QED  BY <1>1, <1>2, WaitInvariance, TypeCorrect, StepMovesOn, PTL DEF Spec

------------------------------------------------------------------------------
(* The progress of a transfer (ProgressWriter). *)

\* Totals only move forward: from the counter through the channel and the task
\* to the bar; and the bytes counted are somewhere on that way.
InOrder ==
    /\ counted = accepted
    /\ shown <= counted
    /\ updates # << >> => Head(updates) \in shown..counted /\ Head(updates) > 0
    /\ progress = "show" => held \in shown..counted /\ held > 0
    /\ progress = "show" /\ updates # << >> => held <= Head(updates)
    /\ bar /\ accepted > 0 => updates # << >> \/ progress = "show" \/ shown > 0
    /\ bar /\ progress = "over" => updates = << >> /\ ~writing

ProgressInv == ProgressTypeOK /\ InOrder

LEMMA ProgressInvInit == ProgressInit => ProgressInv
  BY TotalBytesAssumption DEF ProgressInit, ProgressInv, ProgressTypeOK, InOrder

\* A channel with room for one.
LEMMA OneUpdate ==
    ASSUME ProgressTypeOK
    PROVE  updates = << >> \/ (Head(updates) \in Nat /\ Tail(updates) = << >>)
  BY DEF ProgressTypeOK

LEMMA WriteStep ==
    ASSUME ProgressInv, NEW size \in 1..MaxWrite, PollWrite(size)
    PROVE  ProgressInv'
<1> USE TotalBytesAssumption, MaxWriteAssumption
<1>1. /\ counted' = counted + size /\ accepted' = accepted + size
      /\ accepted + size <= TotalBytes
      /\ UNCHANGED <<writing, progress, held, shown, bar>>
  BY DEF PollWrite, Count
<1>2. /\ counted \in Nat /\ accepted \in Nat /\ shown \in Nat /\ held \in Nat
      /\ size \in Nat /\ size > 0 /\ counted = accepted
  BY DEF ProgressInv, ProgressTypeOK, InOrder
<1>3. CASE bar /\ updates = << >>
  <2>1. updates' = <<counted + size>>
    BY <1>1, <1>3 DEF PollWrite, TrySend
  <2>2. updates' \in Seq(Nat) /\ Len(updates') = 1 /\ Head(updates') = counted + size
    BY <1>2, <2>1
  <2>3. ProgressTypeOK'
    BY <1>1, <1>2, <2>2 DEF ProgressInv, ProgressTypeOK
  <2>4. writing /\ shown <= counted /\ (progress = "show" => held \in shown..counted /\ held > 0)
    BY DEF ProgressInv, InOrder, PollWrite
  <2>5. updates' # << >> /\ Head(updates)' = counted + size
    <3>1. updates' # << >>
      BY ONLY <2>1
    <3> QED  BY <2>2, <3>1
  <2>6. progress # "over"
    BY <1>3, <2>4 DEF ProgressInv, InOrder
  <2>7. InOrder'
    BY ONLY <1>1, <1>2, <2>4, <2>5, <2>6 DEF InOrder
  <2> QED  BY <2>3, <2>7 DEF ProgressInv
<1>4. CASE ~(bar /\ updates = << >>)
  <2>1. updates' = updates
    BY <1>4 DEF PollWrite, TrySend
  <2>2. ProgressTypeOK'
    BY <1>1, <1>2, <2>1 DEF ProgressInv, ProgressTypeOK
  <2>3. Head(updates)' = Head(updates)
    BY <2>1
  <2>4. updates # << >> => Head(updates) \in Nat
    BY OneUpdate DEF ProgressInv
  <2>5. InOrder'
    BY <1>1, <1>2, <1>4, <2>1, <2>3, <2>4 DEF ProgressInv, InOrder
  <2> QED  BY <2>2, <2>5 DEF ProgressInv
<1> QED  BY <1>3, <1>4

LEMMA TaskStep == ASSUME ProgressInv, ProgressTask PROVE ProgressInv'
<1> USE DEF ProgressInv, writerVars
<1>1. CASE Recv
  <2>1. updates' = << >> /\ held' = Head(updates) /\ held' \in Nat
    BY <1>1, OneUpdate DEF Recv
  <2> QED  BY <1>1, <2>1 DEF Recv, ProgressTypeOK, InOrder
<1>2. CASE SetPosition
  BY <1>2, OneUpdate DEF SetPosition, ProgressTypeOK, InOrder
<1>3. CASE RecvNone
  BY <1>3 DEF RecvNone, ProgressTypeOK, InOrder
<1> QED  BY <1>1, <1>2, <1>3 DEF ProgressTask

LEMMA ProgressInvStep == ProgressInv /\ [ProgressNext]_progressVars => ProgressInv'
<1> SUFFICES ASSUME ProgressInv, [ProgressNext]_progressVars PROVE ProgressInv'
  OBVIOUS
<1>1. CASE DropSender
  BY <1>1 DEF DropSender, ProgressInv, ProgressTypeOK, InOrder
<1>2. CASE Later \/ UNCHANGED progressVars
  BY <1>2 DEF Later, progressVars, writerVars, ProgressInv, ProgressTypeOK, InOrder
<1> QED  BY <1>1, <1>2, WriteStep, TaskStep DEF ProgressNext

LEMMA ProgressInvariance == ProgressSpec => []ProgressInv
  BY ProgressInvInit, ProgressInvStep, PTL DEF ProgressSpec

\* The bar is never ahead of the bytes taken, however long the transfer, and
\* the task does not end on an update it has not shown.
THEOREM BarIsTruthful == ProgressSpec => []ShownTruthfully
<1>1. ProgressInv => ShownTruthfully
  BY DEF ProgressInv, InOrder, ShownTruthfully
<1> QED  BY <1>1, ProgressInvariance, PTL

\* The bar never goes back.
THEOREM BarMonotone == ProgressSpec => ShownMonotone
<1>1. ProgressInv /\ [ProgressNext]_progressVars => [shown' >= shown]_progressVars
  <2> SUFFICES ASSUME ProgressInv, ProgressNext PROVE shown' >= shown
    OBVIOUS
  <2>1. CASE SetPosition
    BY <2>1 DEF SetPosition, ProgressInv, InOrder, ProgressTypeOK
  <2>2. CASE ~SetPosition
    <3>1. shown' = shown
      BY <2>2 DEF ProgressNext, PollWrite, DropSender, ProgressTask, Recv, RecvNone, Later,
                  progressVars, writerVars
    <3> QED  BY <3>1 DEF ProgressInv, ProgressTypeOK
  <2> QED  BY <2>1, <2>2
<1> QED  BY <1>1, ProgressInvariance, PTL DEF ProgressSpec, ShownMonotone

\* What the progress task still has to do, with what is in the channel.
TaskLeft ==
    (IF updates = << >> THEN 0 ELSE 2)
    + (CASE progress = "recv" -> 1 [] progress = "show" -> 2 [] progress = "over" -> 0)

\* Once the writer is dropped nothing is sent any more: the task takes what is
\* left, at most an update it holds and one in the channel, and is over.
THEOREM TaskDrains ==
    ProgressSpec => [](TaskLeft \in 0..4) /\ [][writing \/ TaskLeft' < TaskLeft]_progressVars
<1>1. ProgressTypeOK => TaskLeft \in 0..4
  BY DEF ProgressTypeOK, TaskLeft
<1>2. ASSUME ProgressInv, [ProgressNext]_progressVars
      PROVE  [writing \/ TaskLeft' < TaskLeft]_progressVars
  <2> SUFFICES ASSUME ProgressTask PROVE TaskLeft' < TaskLeft
    BY <1>2 DEF ProgressNext, PollWrite, DropSender, Later
  <2>1. CASE Recv
    <3>1. updates # << >> /\ updates' = << >>
      BY <1>2, <2>1, OneUpdate DEF Recv, ProgressInv
    <3> QED  BY <2>1, <3>1 DEF Recv, TaskLeft
  <2>2. CASE SetPosition
    BY <2>2 DEF SetPosition, TaskLeft
  <2>3. CASE RecvNone
    BY <2>3 DEF RecvNone, TaskLeft
  <2> QED  BY <2>1, <2>2, <2>3 DEF ProgressTask
<1>3. ProgressInv => ProgressTypeOK
  BY DEF ProgressInv
<1> QED  BY <1>1, <1>2, <1>3, ProgressInvariance, PTL DEF ProgressSpec
=============================================================================
