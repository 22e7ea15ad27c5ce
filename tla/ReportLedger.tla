---------------------------- MODULE ReportLedger ----------------------------
(***************************************************************************)
(* What the swarm client promises about test results, without its tasks,   *)
(* remote calls, timeouts and shutdown: the coordinator stores at most one *)
(* report per polling task, and the client's statistics count a report     *)
(* only once it is stored, once, and in the class of its verdict.          *)
(*                                                                         *)
(* SwarmRunner.tla is shown to implement this module.                      *)
(***************************************************************************)
EXTENDS Naturals

CONSTANTS Tasks,        \* polling tasks, one per tick of the assignment timer
          Assignments   \* tests the coordinator can hand out

VARIABLES stored,       \* reports the coordinator holds
          counted,      \* tasks whose report is in the statistics
          completed,    \* SwarmStats.tests_completed
          failed        \* SwarmStats.tests_failed

vars == <<stored, counted, completed, failed>>

Report == [task : Tasks, job : Assignments, success : BOOLEAN]

Init ==
    /\ stored = {}
    /\ counted = {}
    /\ completed = 0
    /\ failed = 0

\* The coordinator stores the first and only report of a task.
Store(r) ==
    /\ \A s \in stored : s.task # r.task
    /\ stored' = stored \cup {r}
    /\ UNCHANGED <<counted, completed, failed>>

\* The client counts a stored report it has not counted yet.
Count(r) ==
    /\ r \in stored
    /\ r.task \notin counted
    /\ counted' = counted \cup {r.task}
    /\ completed' = IF r.success THEN completed + 1 ELSE completed
    /\ failed' = IF r.success THEN failed ELSE failed + 1
    /\ UNCHANGED stored

Next == \E r \in Report : Store(r) \/ Count(r)

Spec == Init /\ [][Next]_vars
=============================================================================
