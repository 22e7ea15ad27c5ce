-------------------------- MODULE RelayProbeProofs --------------------------
(***************************************************************************)
(* What relay-urls prints, for any number of relays, rounds and ticks of a *)
(* timeout.  The invariant adds to the properties that a pong in the inbox *)
(* is the answer to the ping of the probe in hand.  The last part counts   *)
(* what a probe has left to do.                                            *)
(***************************************************************************)
EXTENDS RelayProbe, TLAPS

USE RelaysAssumption, RoundsAssumption, PatienceAssumption

PongIsOurs == inbox = "pong" => step = "pong" /\ done \in answered

Inv == TypeOK /\ EachInOneList /\ SuccessIsAnswered /\ PongIsOurs

LEMMA Product == Rounds * Relays \in Nat
  OBVIOUS

LEMMA InvInit == Init => Inv
  BY Product DEF Init, Inv, TypeOK, EachInOneList, SuccessIsAnswered, PongIsOurs, Probes

\* The end of a probe, in either list.
LEMMA FinishStep ==
    ASSUME Inv, Working, UNCHANGED answered, NEW list \in {"success", "fail"}, Finish(list),
           list = "success" => done \in answered
    PROVE  Inv'
<1> USE DEF Inv, Finish
<1>1. done \in Probes /\ done + 1 \in 0 .. Rounds * Relays
  BY Product DEF Working, TypeOK, Probes
<1>2. TypeOK'
  BY <1>1 DEF TypeOK, Probes
<1>3. EachInOneList'
  <2>1. done \notin success /\ done \notin fail
    BY <1>1 DEF EachInOneList, TypeOK
  <2>2. {p \in Probes : p < done + 1} = {p \in Probes : p < done} \cup {done}
    BY <1>1, Product DEF Probes
  <2>3. success' \cup fail' = success \cup fail \cup {done}
    OBVIOUS
  <2>4. success' \cap fail' = {}
    BY <2>1 DEF EachInOneList
  <2>5. success' \cup fail' = {p \in Probes : p < done + 1} /\ done' = done + 1
    BY <2>2, <2>3 DEF EachInOneList
  <2> QED  BY <2>4, <2>5 DEF EachInOneList
<1>4. SuccessIsAnswered' /\ PongIsOurs'
  BY DEF SuccessIsAnswered, PongIsOurs
<1> QED  BY <1>2, <1>3, <1>4

\* Steps in the middle of a probe.
LEMMA MiddleStep ==
    ASSUME Inv, UNCHANGED <<done, success, fail>>,
           step' \in {"connect", "send", "pong", "exited"}, elapsed' \in 0..Patience,
           inbox' \in {"none", "stray", "pong"},
           answered' \subseteq Probes, answered \subseteq answered',
           PongIsOurs'
    PROVE  Inv'
  BY DEF Inv, TypeOK, EachInOneList, SuccessIsAnswered

LEMMA InvStep == Inv /\ [Next]_vars => Inv'
<1> SUFFICES ASSUME Inv, [Next]_vars PROVE Inv'
  OBVIOUS
<1>1. CASE ProbeFails \/ TimeoutExpires
  BY <1>1, FinishStep DEF ProbeFails, TimeoutExpires
<1>2. CASE ReadMessage
  <2>1. CASE inbox = "pong"
    <3>1. done \in answered /\ Working /\ Finish("success") /\ UNCHANGED answered
      BY <1>2, <2>1 DEF ReadMessage, Inv, PongIsOurs
    <3> QED  BY <3>1, FinishStep
  <2>2. CASE inbox = "stray"
    BY <1>2, <2>2, MiddleStep DEF ReadMessage, Inv, TypeOK, PongIsOurs
  <2> QED  BY <1>2, <2>1, <2>2 DEF ReadMessage
<1>3. CASE Connected
  BY <1>3, MiddleStep DEF Connected, Inv, TypeOK, PongIsOurs
<1>4. CASE SendPing
  BY <1>4, MiddleStep DEF SendPing, Inv, TypeOK, PongIsOurs
<1>5. CASE PrintLists
  BY <1>5, MiddleStep DEF PrintLists, Inv, TypeOK, PongIsOurs
<1>6. CASE SendStray
  BY <1>6, MiddleStep DEF SendStray, Inv, TypeOK, PongIsOurs
<1>7. CASE SendPong
  <2>1. done \in Probes
    BY <1>7, Product DEF SendPong, Working, Inv, TypeOK, Probes
  <2> QED  BY <1>7, <2>1, MiddleStep DEF SendPong, Inv, TypeOK, PongIsOurs
<1>8. CASE Tick
  BY <1>8, MiddleStep DEF Tick, Inv, TypeOK, PongIsOurs
<1>9. CASE Terminated \/ UNCHANGED vars
  BY <1>9 DEF Terminated, vars, Inv, TypeOK, EachInOneList, SuccessIsAnswered, PongIsOurs
<1> QED  BY <1>1, <1>2, <1>3, <1>4, <1>5, <1>6, <1>7, <1>8, <1>9 DEF Next, Command

\* The invariant holds in every reachable state.
THEOREM Invariance == Spec => []Inv
  BY InvInit, InvStep, PTL DEF Spec

\* Every variable keeps its type.
THEOREM TypeCorrect == Spec => []TypeOK
<1>1. Inv => TypeOK
  BY DEF Inv
<1> QED  BY <1>1, Invariance, PTL

\* No probe is lost and none is in both lists.
THEOREM ListsPartition == Spec => []EachInOneList
<1>1. Inv => EachInOneList
  BY DEF Inv
<1> QED  BY <1>1, Invariance, PTL

\* Every latency is that of an answered ping.
THEOREM LatencyOfAnswer == Spec => []SuccessIsAnswered
<1>1. Inv => SuccessIsAnswered
  BY DEF Inv
<1> QED  BY <1>1, Invariance, PTL

------------------------------------------------------------------------------
(* The command ends. *)

\* What is left of the probe in hand: its steps and the ticks of its timeouts.
StepLeft ==
    CASE step = "connect" -> 3 + Patience + (Patience - elapsed)
      [] step = "send"    -> 2 + Patience
      [] step = "pong"    -> 1 + (Patience - elapsed)
      [] step = "exited"  -> 0

\* Whatever happens to a probe brings it nearer to its end, or ends it.
MovesOn ==
    \/ done' = done + 1
    \/ done' = done /\ StepLeft' < StepLeft

progressVars == <<done, step, elapsed>>

LEMMA StepLeftIs ==
    ASSUME TypeOK, TypeOK'
    PROVE
    /\ StepLeft = IF step = "connect" THEN 3 + Patience + (Patience - elapsed)
                  ELSE IF step = "send" THEN 2 + Patience
                  ELSE IF step = "pong" THEN 1 + (Patience - elapsed) ELSE 0
    /\ StepLeft' = IF step' = "connect" THEN 3 + Patience + (Patience - elapsed')
                   ELSE IF step' = "send" THEN 2 + Patience
                   ELSE IF step' = "pong" THEN 1 + (Patience - elapsed') ELSE 0
  BY DEF TypeOK, StepLeft

LEMMA StepMovesOn == ASSUME TypeOK, TypeOK', [Next]_vars PROVE [MovesOn]_progressVars
<1> USE DEF MovesOn
<1>1. CASE Connected \/ SendPing \/ PrintLists \/ Tick
  <2>1. elapsed \in 0..Patience /\ elapsed' \in 0..Patience
    BY DEF TypeOK
  <2> QED  BY <1>1, <2>1, StepLeftIs DEF Connected, SendPing, PrintLists, Tick
<1>2. CASE ProbeFails \/ TimeoutExpires \/ ReadMessage
  BY <1>2 DEF ProbeFails, TimeoutExpires, ReadMessage, Finish, progressVars
<1>3. CASE SendStray \/ SendPong \/ Terminated \/ UNCHANGED vars
  BY <1>3 DEF SendStray, SendPong, Terminated, vars, progressVars
<1> QED  BY <1>1, <1>2, <1>3 DEF Next, Command

\* Between its start and its exit nothing sets the command back, neither the
\* ends of its timeouts nor a relay that keeps it reading: strays give no new
\* time, so a probe has a bounded number of steps and ticks to go.
THEOREM ProbingMovesOn ==
    Spec => [](StepLeft \in 0 .. 2 * Patience + 3) /\ [][MovesOn]_progressVars
<1>1. Inv => TypeOK
  BY DEF Inv
<1>2. TypeOK => StepLeft \in 0 .. 2 * Patience + 3
  BY DEF TypeOK, StepLeft
<1> QED  BY <1>1, <1>2, Invariance, StepMovesOn, PTL DEF Spec
=============================================================================
