-------------------------- MODULE AcceptLoopProofs --------------------------
(***************************************************************************)
(* At most one interface, for any finite number of connections: the        *)
(* counter is the number of tasks between fetch_add and sub, so whoever    *)
(* takes 0 finds no other task there.  And the seats come back.            *)
(***************************************************************************)
EXTENDS AcceptLoop, FiniteSetTheorems, TLAPS

\* The tasks that hold a seat.
Seated == {i \in Incoming : task[i] \in Holding}

\* While the process lives, the counter counts them.
CounterInv == endpoint # "exited" => counter = Cardinality(Seated)

\* Only one of them has the first seat, and only that one draws.
SeatInv ==
    /\ \A i, j \in Seated : seat[i] = 0 /\ seat[j] = 0 => i = j
    /\ \A i \in Incoming : task[i] = "gui" => seat[i] = 0

\* Nothing runs once the process is gone.
ExitInv == endpoint = "exited" => \A i \in Incoming : task[i] \in {"none", "ended", "killed"}

Inv == TypeOK /\ CounterInv /\ SeatInv /\ ExitInv

USE DEF Holding, Sessions

LEMMA SeatedFinite == IsFiniteSet(Seated) /\ Cardinality(Seated) \in Nat
<1>1. IsFiniteSet(Seated)
  BY IncomingFinite, FS_Subset DEF Seated
<1> QED  BY <1>1, FS_CardinalityType

LEMMA InvInit == Init => Inv
<1> SUFFICES ASSUME Init PROVE Inv
  OBVIOUS
<1>1. Seated = {}
  BY DEF Init, Seated
<1>2. Cardinality(Seated) = 0
  BY <1>1, FS_EmptySet
<1> QED  BY <1>1, <1>2 DEF Init, Inv, TypeOK, CounterInv, SeatInv, ExitInv

\* A task that moves on among the states with a seat, or among those
\* without one, keeps the set of seated tasks.
LEMMA SeatedSame ==
  ASSUME TypeOK, NEW i \in Incoming, NEW from, NEW to, Goes(i, from, to),
         from \in Holding <=> to \in Holding
  PROVE  Seated' = Seated
  BY DEF TypeOK, Goes, Seated

LEMMA InvStep == Inv /\ [Next]_vars => Inv'
<1> SUFFICES ASSUME Inv, [Next]_vars PROVE Inv'
  OBVIOUS
<1> USE DEF Inv
<1>1. ASSUME NEW i \in Incoming, Accept(i) PROVE Inv'
  <2>1. Seated' = Seated
    BY <1>1, SeatedSame DEF Accept
  <2> QED  BY <1>1, <2>1 DEF Accept, Goes, TypeOK, CounterInv, SeatInv, ExitInv, Seated
<1>2. ASSUME NEW i \in Incoming, FetchAdd(i) PROVE Inv'
  <2>1. /\ task[i] = "spawned" /\ task' = [task EXCEPT ![i] = "handshake"]
        /\ seat' = [seat EXCEPT ![i] = counter]
        /\ counter' = counter + 1 /\ endpoint' = endpoint
    BY <1>2 DEF FetchAdd, Goes
  <2>2. endpoint # "exited"
    BY <2>1 DEF ExitInv
  <2>3. Seated' = Seated \cup {i} /\ i \notin Seated
    BY <2>1 DEF TypeOK, Seated
  <2>4. Cardinality(Seated') = Cardinality(Seated) + 1
    BY <2>3, SeatedFinite, FS_AddElement
  <2>5. TypeOK'
    BY <2>1 DEF TypeOK
  <2>6. CounterInv'
    BY <2>1, <2>2, <2>4 DEF CounterInv
  <2>7. counter = 0 => Seated = {}
    BY <2>2, SeatedFinite, FS_EmptySet DEF CounterInv
  <2>8. SeatInv'
    BY <2>1, <2>3, <2>7 DEF SeatInv, TypeOK, Seated
  <2>9. ExitInv'
    BY <2>1, <2>2 DEF ExitInv
  <2> QED  BY <2>5, <2>6, <2>8, <2>9
<1>3. ASSUME NEW i \in Incoming, Handshake(i) \/ SessionEnds(i) PROVE Inv'
  <2>1. PICK from \in Holding, to \in Holding :
           Goes(i, from, to) /\ (to = "gui" => seat[i] = 0)
    BY <1>3 DEF Handshake, Connected, HandshakeFails, SessionEnds
  <2>2. UNCHANGED <<seat, counter, endpoint>>
    BY <1>3, <2>1 DEF Handshake, Connected, HandshakeFails, SessionEnds, Goes
  <2>3. Seated' = Seated
    BY <2>1, SeatedSame
  <2> QED  BY <2>1, <2>2, <2>3 DEF Goes, TypeOK, CounterInv, SeatInv, ExitInv
<1>4. ASSUME NEW i \in Incoming, Release(i) PROVE Inv'
  <2>1. /\ task[i] = "release" /\ task' = [task EXCEPT ![i] = "ended"]
        /\ counter' = counter - 1 /\ UNCHANGED <<endpoint, seat>>
    BY <1>4 DEF Release, Goes
  <2>2. endpoint # "exited"
    BY <2>1 DEF ExitInv
  <2>3. Seated' = Seated \ {i} /\ i \in Seated
    BY <2>1 DEF TypeOK, Seated
  <2>4. /\ Cardinality(Seated') = Cardinality(Seated) - 1
        /\ Cardinality(Seated) # 0
    BY <2>3, SeatedFinite, FS_RemoveElement, FS_EmptySet
  <2>5. counter - 1 \in Nat
    BY <2>2, <2>4, SeatedFinite DEF CounterInv
  <2>6. TypeOK'
    BY <2>1, <2>5 DEF TypeOK
  <2>7. CounterInv'
    BY <2>1, <2>2, <2>4 DEF CounterInv
  <2>8. SeatInv'
    BY <2>1, <2>3 DEF SeatInv, TypeOK, Seated
  <2>9. ExitInv'
    BY <2>1, <2>2 DEF ExitInv
  <2> QED  BY <2>6, <2>7, <2>8, <2>9
<1>5. CASE CloseEndpoint
  <2>1. Seated' = Seated
    BY <1>5 DEF CloseEndpoint, Seated
  <2> QED  BY <1>5, <2>1 DEF CloseEndpoint, TypeOK, CounterInv, SeatInv, ExitInv
<1>6. CASE Exit
  <2>1. Seated' = {}
    BY <1>6 DEF Exit, TypeOK, Seated
  <2> QED  BY <1>6, <2>1 DEF Exit, TypeOK, CounterInv, SeatInv, ExitInv
<1>7. CASE UNCHANGED vars
  <2>1. Seated' = Seated
    BY <1>7 DEF vars, Seated
  <2> QED  BY <1>7, <2>1 DEF vars, TypeOK, CounterInv, SeatInv, ExitInv
<1> QED
  BY <1>1, <1>2, <1>3, <1>4, <1>5, <1>6, <1>7 DEF Next, Terminated

(* Every reachable state satisfies the inductive invariant. *)
THEOREM Invariance == Spec => []Inv
  BY InvInit, InvStep, PTL DEF Spec

(* Types: in particular the counter never goes below zero. *)
THEOREM TypeCorrect == Spec => []TypeOK
<1>1. Inv => TypeOK
  BY DEF Inv
<1> QED  BY <1>1, Invariance, PTL

(* At most one task draws the interface. *)
THEOREM OneGui == Spec => []AtMostOneGui
<1>1. Inv => AtMostOneGui
  BY DEF Inv, SeatInv, Seated, AtMostOneGui
<1> QED  BY <1>1, Invariance, PTL

------------------------------------------------------------------------------
(* The seats come back. *)

\* Whenever no task holds a seat the next one takes seat 0 and draws.
FirstSeatFree == endpoint # "exited" /\ Seated = {} => counter = 0

\* What the command and the task of connection i have left to go through.
EndpointLeft ==
    CASE endpoint = "open"   -> 2
      [] endpoint = "closed" -> 1
      [] endpoint = "exited" -> 0

TaskLeft(i) ==
    CASE task[i] = "none"      -> 5
      [] task[i] = "spawned"   -> 4
      [] task[i] = "handshake" -> 3
      [] task[i] \in Sessions  -> 2
      [] task[i] = "release"   -> 1
      [] task[i] \in {"ended", "killed"} -> 0

\* Nothing goes back, and what holds a seat comes nearer to giving it back.
MovesOn ==
    /\ EndpointLeft' <= EndpointLeft
    /\ \A i \in Incoming : TaskLeft(i)' <= TaskLeft(i)
    /\ EndpointLeft' < EndpointLeft \/ \E i \in Incoming : TaskLeft(i)' < TaskLeft(i)

LeftBounds ==
    /\ EndpointLeft \in 0..2
    /\ \A i \in Incoming : TaskLeft(i) \in 0..5

LEMMA EndpointLeftIs ==
  ASSUME TypeOK, TypeOK'
  PROVE  /\ EndpointLeft = IF endpoint = "open" THEN 2 ELSE IF endpoint = "closed" THEN 1 ELSE 0
         /\ EndpointLeft' = IF endpoint' = "open" THEN 2
                            ELSE IF endpoint' = "closed" THEN 1 ELSE 0
  BY DEF TypeOK, EndpointLeft

LEMMA TaskLeftIs ==
  ASSUME TypeOK, TypeOK', NEW i \in Incoming
  PROVE  /\ TaskLeft(i) = IF task[i] = "none" THEN 5 ELSE IF task[i] = "spawned" THEN 4
                          ELSE IF task[i] = "handshake" THEN 3 ELSE IF task[i] \in Sessions THEN 2
                          ELSE IF task[i] = "release" THEN 1 ELSE 0
         /\ TaskLeft(i)' = IF task'[i] = "none" THEN 5 ELSE IF task'[i] = "spawned" THEN 4
                           ELSE IF task'[i] = "handshake" THEN 3
                           ELSE IF task'[i] \in Sessions THEN 2
                           ELSE IF task'[i] = "release" THEN 1 ELSE 0
  BY DEF TypeOK, TaskLeft

LEMMA StepMovesOn == ASSUME TypeOK, TypeOK', [Next]_vars PROVE [MovesOn]_vars
<1>1. ASSUME NEW i \in Incoming,
             Accept(i) \/ FetchAdd(i) \/ Handshake(i) \/ SessionEnds(i) \/ Release(i)
      PROVE  MovesOn
  <2>1. /\ endpoint' = endpoint
        /\ \/ task[i] = "none" /\ task' = [task EXCEPT ![i] = "spawned"]
           \/ task[i] = "spawned" /\ task' = [task EXCEPT ![i] = "handshake"]
           \/ /\ task[i] = "handshake"
              /\ \E to \in Sessions \cup {"release"} : task' = [task EXCEPT ![i] = to]
           \/ task[i] \in Sessions /\ task' = [task EXCEPT ![i] = "release"]
           \/ task[i] = "release" /\ task' = [task EXCEPT ![i] = "ended"]
    BY <1>1 DEF Accept, FetchAdd, Handshake, Connected, HandshakeFails, SessionEnds, Release, Goes
  <2>2. \A j \in Incoming \ {i} : task'[j] = task[j]
    BY <2>1 DEF TypeOK
  <2>3. TaskLeft(i)' < TaskLeft(i) /\ TaskLeft(i)' <= TaskLeft(i)
    BY <2>1, TaskLeftIs DEF TypeOK
  <2>4. \A j \in Incoming \ {i} : TaskLeft(j)' <= TaskLeft(j)
    BY <2>2, TaskLeftIs
  <2>5. EndpointLeft' <= EndpointLeft
    BY <2>1, EndpointLeftIs
  <2> QED  BY <2>3, <2>4, <2>5 DEF MovesOn
<1>2. CASE CloseEndpoint \/ Exit
  <2>1. \A i \in Incoming : task'[i] = task[i] \/ task'[i] = "killed"
    BY <1>2 DEF CloseEndpoint, Exit
  <2>2. \A i \in Incoming : TaskLeft(i)' <= TaskLeft(i)
    BY <2>1, TaskLeftIs
  <2>3. EndpointLeft' < EndpointLeft /\ EndpointLeft' <= EndpointLeft
    BY <1>2, EndpointLeftIs DEF CloseEndpoint, Exit
  <2> QED  BY <2>2, <2>3 DEF MovesOn
<1> QED  BY <1>1, <1>2 DEF Next, Terminated

(* The seats come back: every step of a connection's task brings it nearer  *)
(* to sub(1), and once all have got there the next connection is drawn.     *)
THEOREM SeatsComeBack == Spec => []FirstSeatFree /\ []LeftBounds /\ [][MovesOn]_vars
<1>1. Inv => TypeOK
  BY DEF Inv
<1>2. Inv => FirstSeatFree
  BY FS_EmptySet DEF Inv, CounterInv, FirstSeatFree
<1>3. TypeOK => LeftBounds
  BY DEF TypeOK, LeftBounds, EndpointLeft, TaskLeft
<1> QED  BY <1>1, <1>2, <1>3, Invariance, StepMovesOn, PTL DEF Spec
=============================================================================
