---------------------------- MODULE AssignedTest ----------------------------
(***************************************************************************)
(* What the swarm's main loop expects of the test it runs for a task       *)
(* (perform_test_assignment, awaited in src/src/swarm/runner.rs): it moves *)
(* its data, or makes its measurements, a part at a time; it comes to one  *)
(* verdict, which is final, and to a success only with everything done.    *)
(* TestExecution and LatencyTest implement it.                             *)
(***************************************************************************)
EXTENDS Naturals

CONSTANT Amount   \* what there is to move or to measure

VARIABLES
    moved,     \* how much of it was
    verdict    \* running, success, failure

Init ==
    /\ moved = 0
    /\ verdict = "running"

Move ==
    /\ verdict = "running"
    /\ moved' \in moved .. Amount
    /\ UNCHANGED verdict

Succeed ==
    /\ verdict = "running"
    /\ verdict' = "success"
    /\ moved' = Amount

\* It fails, panics, times out or is cancelled, at any point.
Fail ==
    /\ verdict = "running"
    /\ verdict' = "failure"
    /\ UNCHANGED moved

Next == Move \/ Succeed \/ Fail

Spec == Init /\ [][Next]_<<moved, verdict>>
=============================================================================
