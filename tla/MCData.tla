------------------------------- MODULE MCData -------------------------------
(***************************************************************************)
(* The two pure parts of the swarm: the parameters of an assignment, over  *)
(* the boundaries of every range and default, and the classification of    *)
(* every network report.  Nothing relates them; each is explored while the *)
(* other is at its start.                                                  *)
(***************************************************************************)
EXTENDS TestParams, NatClassifier

MCChoices ==
    [parallel_streams |-> {None, 0, 1, 4, 16, 17},
     chunk_size_kb    |-> {None, 0, 1, 15, 16, 64, 512, 513, 16384, 16385},
     ping_timeout_ms  |-> {None, 99, 100, 1000, 10000, 10001}]

Init == NothingAsked /\ NothingReported

Next ==
    \/ NothingReported /\ NextAssignment /\ UNCHANGED report
    \/ NothingAsked /\ NextReport /\ UNCHANGED config

Spec == Init /\ [][Next]_<<config, report>>
=============================================================================
