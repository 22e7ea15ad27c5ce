--------------------------- MODULE MCSwarmRunner ---------------------------
(* A small instance of SwarmRunner for TLC. *)
EXTENDS SwarmRunner

CONSTANTS t1, t2, a1, a2

TwoTasks == {t1, t2}
TwoTests == {a1, a2}
OneTest  == {a1}
=============================================================================
