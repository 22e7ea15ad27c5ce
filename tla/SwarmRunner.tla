----------------------------- MODULE SwarmRunner -----------------------------
(***************************************************************************)
(* The main loop of the swarm client (src/src/swarm/runner.rs) and its     *)
(* conversation with the coordinator (src/src/swarm/client.rs, rpc.rs).    *)
(*                                                                         *)
(* Every tick of the assignment timer spawns a polling task.  The task     *)
(* asks the coordinator for assignments, takes the first one, marks it     *)
(* started and spawns a detached execution task, which performs the test   *)
(* and submits the result.  Asking and marking are under one 20 second     *)
(* timeout; performing and submitting are not.  Ctrl-C closes the          *)
(* endpoint, then drops the loop with its tasks, then exits the process.   *)
(*                                                                         *)
(* A step is what a task does between two awaits.  The coordinator is not  *)
(* part of the repository; its three handlers are modelled from what the   *)
(* client expects of them.  A call that fails at the client may have been  *)
(* carried out by the coordinator, be carried out later, or never.         *)
(***************************************************************************)
EXTENDS Naturals, FiniteSets

CONSTANTS
    Tasks,           \* polling tasks; bounds the number of timer ticks
    Assignments,     \* tests the coordinator has for this node
    ZeroIterations,  \* latency tests configured with `iterations: Some(0)`
    NoJob            \* no assignment, and an empty assignment list

ASSUME TasksFinite == IsFiniteSet(Tasks)
ASSUME NoJobAssumption == NoJob \notin Assignments
ASSUME ZeroIterationsAssumption == ZeroIterations \subseteq Assignments

VARIABLES
    phase,      \* the process: up, closing, dropped, exited
    poll,       \* poll[t]: the polling task of tick t
    exec,       \* exec[t]: the execution task spawned by t
    job,        \* job[t]: the assignment t took
    result,     \* result[t]: the verdict of perform_test_assignment
    completed,  \* SwarmStats.tests_completed
    failed,     \* SwarmStats.tests_failed
    requests,   \* calls on their way to the coordinator
    replies,    \* answers the coordinator sent, kept once sent
    status,     \* status[a]: the coordinator's view of a test
    reports     \* results the coordinator has stored

clientVars == <<phase, poll, exec, job, result, completed, failed>>
coordVars  == <<status, reports>>
vars == <<clientVars, requests, replies, coordVars>>

------------------------------------------------------------------------------
Phases     == {"up", "closing", "dropped", "exited"}
InPoll     == {"getting", "marking"}           \* under the 20 second timeout
PollEnded  == {"done", "timedout"}             \* in the JoinSet, not reaped
PollGone   == {"reaped", "expired", "aborted"} \* expired: timed out, then reaped
PollStates == {"unborn", "awaiting"} \cup InPoll \cup PollEnded \cup PollGone
ExecAlive  == {"running", "submitting"}
ExecLost   == {"unsent", "panicked", "cancelled", "killed"}
Counted    == {"completed", "failed"}
ExecStates == {"none"} \cup ExecAlive \cup ExecLost \cup Counted
Report     == [task : Tasks, job : Assignments, success : BOOLEAN]

\* A call carries what the client knew when it was made.
Request    == [task : Tasks, kind : {"get"}]
                \cup [task : Tasks, kind : {"mark"}, job : Assignments]
                \cup [task : Tasks, kind : {"report"}, job : Assignments, success : BOOLEAN]
Reply      == [task : Tasks, kind : {"get"}, val : Assignments \cup {NoJob}]
                \cup [task : Tasks, kind : {"mark", "report"}, val : BOOLEAN]

\* One invariant of types for the module.
TypeOK ==
    /\ phase \in Phases
    /\ poll \in [Tasks -> PollStates]
    /\ exec \in [Tasks -> ExecStates]
    /\ job \in [Tasks -> Assignments \cup {NoJob}]
    /\ result \in [Tasks -> {"none", "success", "error"}]
    /\ completed \in Nat
    /\ failed \in Nat
    /\ requests \subseteq Request
    /\ replies \subseteq Reply
    /\ status \in [Assignments -> {"pending", "started", "reported"}]
    /\ reports \subseteq Report

Init ==
    /\ phase = "up"
    /\ poll = [t \in Tasks |-> "unborn"]
    /\ exec = [t \in Tasks |-> "none"]
    /\ job = [t \in Tasks |-> NoJob]
    /\ result = [t \in Tasks |-> "none"]
    /\ completed = 0
    /\ failed = 0
    /\ requests = {}
    /\ replies = {}
    /\ status = [a \in Assignments |-> "pending"]
    /\ reports = {}

------------------------------------------------------------------------------
(* Remote calls. *)

GetCall(t)  == [task |-> t, kind |-> "get"]
MarkCall(t) == [task |-> t, kind |-> "mark", job |-> job'[t]]
ReportCall(t) == [task |-> t, kind |-> "report", job |-> job[t],
                  success |-> result'[t] = "success"]

\* A variant with a connection to the coordinator that outlives the endpoint.
CallBesides(q) == requests' = requests \cup {q}

\* A call is put on the wire only while the endpoint is open.
Call(q) == requests' = IF phase = "up" THEN requests \cup {q} ELSE requests

\* The coordinator takes a request; its answer reaches an open endpoint only.
Answer(q, val) ==
    /\ requests' = requests \ {q}
    /\ replies' = IF phase = "up"
                  THEN replies \cup {[task |-> q.task, kind |-> q.kind, val |-> val]}
                  ELSE replies
    /\ UNCHANGED clientVars

Replied(t, kind) == \E r \in replies : r.task = t /\ r.kind = kind

\* get_assignments: the list holds the node's tests that are still pending;
\* the client only ever looks at its first element.
ServeGet(q) ==
    /\ q.kind = "get"
    /\ \/ \E a \in Assignments : status[a] = "pending" /\ Answer(q, a)
       \/ /\ \A a \in Assignments : status[a] # "pending"
          /\ Answer(q, NoJob)
    /\ UNCHANGED coordVars

\* mark_test_started: succeeds for a pending test, `success: false` otherwise.
ServeMark(q) ==
    /\ q.kind = "mark"
    /\ Answer(q, status[q.job] = "pending")
    /\ status' = IF status[q.job] = "pending" THEN [status EXCEPT ![q.job] = "started"]
                                              ELSE status
    /\ UNCHANGED reports

\* report_result: stored as it was sent, under the request id drawn for the
\* call, here the task, since a task submits once.
ServeReport(q) ==
    /\ q.kind = "report"
    /\ Answer(q, TRUE)
    /\ reports' = reports \cup {[task |-> q.task, job |-> q.job, success |-> q.success]}
    /\ status' = [status EXCEPT ![q.job] = "reported"]

\* A request is lost with its connection.
LoseRequest(q) ==
    /\ requests' = requests \ {q}
    /\ UNCHANGED <<clientVars, replies, coordVars>>

------------------------------------------------------------------------------
(* The polling task: assignment_processing_task under a timeout. *)

\* The timer ticks; the loop spawns a task, which calls get_assignments.
Tick(t) ==
    /\ phase \in {"up", "closing"}
    /\ poll[t] = "unborn"
    /\ poll' = [poll EXCEPT ![t] = "getting"]
    /\ Call(GetCall(t))
    /\ UNCHANGED <<phase, exec, job, result, completed, failed, replies, coordVars>>

\* get_assignments returned: take the first assignment and call
\* mark_test_started, or end when there is none.
GetReplied(t) ==
    /\ poll[t] = "getting"
    /\ \E r \in replies :
        /\ r.task = t /\ r.kind = "get"
        /\ \/ /\ r.val = NoJob
              /\ poll' = [poll EXCEPT ![t] = "done"]
              /\ UNCHANGED <<job, requests>>
           \/ /\ r.val # NoJob
              /\ job' = [job EXCEPT ![t] = r.val]
              /\ poll' = [poll EXCEPT ![t] = "marking"]
              /\ Call(MarkCall(t))
    /\ UNCHANGED <<phase, exec, result, completed, failed, replies, coordVars>>

\* get_assignments failed: log and end.
GetFailed(t) ==
    /\ poll[t] = "getting"
    /\ poll' = [poll EXCEPT ![t] = "done"]
    /\ UNCHANGED <<phase, exec, job, result, completed, failed, requests, replies, coordVars>>

\* Spawn the execution task and await its handle.
Launch(t) ==
    /\ exec' = [exec EXCEPT ![t] = "running"]
    /\ poll' = [poll EXCEPT ![t] = "awaiting"]
    /\ UNCHANGED <<phase, job, result, completed, failed, requests, replies, coordVars>>

\* A variant that launches only when the coordinator granted the mark.
GiveUpOnMarkFailure(t) ==
    /\ poll[t] = "marking"
    /\ poll' = [poll EXCEPT ![t] = "done"]
    /\ UNCHANGED <<phase, exec, job, result, completed, failed, requests, replies, coordVars>>

\* mark_test_started returned: the test runs, whatever `success` says.
MarkReplied(t) ==
    /\ poll[t] = "marking"
    /\ Replied(t, "mark")
    /\ Launch(t)

\* mark_test_started failed: log a warning, the test runs all the same.
MarkFailed(t) ==
    /\ poll[t] = "marking"
    /\ Launch(t)

\* The 20 second timeout drops assignment_processing_task at its await.
PollTimeout(t) ==
    /\ poll[t] \in InPoll
    /\ poll' = [poll EXCEPT ![t] = "timedout"]
    /\ UNCHANGED <<phase, exec, job, result, completed, failed, requests, replies, coordVars>>

\* A variant that forgets the handle of an execution that panicked.
AwaitOnlyCounted(t) ==
    /\ poll[t] = "awaiting"
    /\ exec[t] \in Counted
    /\ poll' = [poll EXCEPT ![t] = "done"]
    /\ UNCHANGED <<phase, exec, job, result, completed, failed, requests, replies, coordVars>>

\* handle.await.ok(): the execution task is over, in whatever way.
AwaitReturns(t) ==
    /\ poll[t] = "awaiting"
    /\ exec[t] \in Counted \cup ExecLost
    /\ poll' = [poll EXCEPT ![t] = "done"]
    /\ UNCHANGED <<phase, exec, job, result, completed, failed, requests, replies, coordVars>>

\* The loop's other branch: join_next removes a finished polling task.
Reap(t) ==
    /\ phase \in {"up", "closing"}
    /\ poll[t] \in PollEnded
    /\ poll' = [poll EXCEPT ![t] = IF poll[t] = "done" THEN "reaped" ELSE "expired"]
    /\ UNCHANGED <<phase, exec, job, result, completed, failed, requests, replies, coordVars>>

------------------------------------------------------------------------------
(* The execution task. *)

\* perform_test_assignment returned; an Err becomes an Error result.  The
\* report is submitted once.  A latency test without iterations never
\* succeeds: it fails to connect or panics.
PerformReturns(t, verdict) ==
    /\ exec[t] = "running"
    /\ verdict = "success" => job[t] \notin ZeroIterations
    /\ result' = [result EXCEPT ![t] = verdict]
    /\ exec' = [exec EXCEPT ![t] = "submitting"]
    /\ Call(ReportCall(t))
    /\ UNCHANGED <<phase, poll, job, completed, failed, replies, coordVars>>

\* The average over no ping divides a Duration by zero.
PerformPanics(t) ==
    /\ exec[t] = "running"
    /\ job[t] \in ZeroIterations
    /\ exec' = [exec EXCEPT ![t] = "panicked"]
    /\ UNCHANGED <<phase, poll, job, result, completed, failed, requests, replies, coordVars>>

\* Count the test in the class of its verdict.
CountResult(t) ==
    IF result[t] = "success"
    THEN /\ exec' = [exec EXCEPT ![t] = "completed"]
         /\ completed' = completed + 1
         /\ UNCHANGED failed
    ELSE /\ exec' = [exec EXCEPT ![t] = "failed"]
         /\ failed' = failed + 1
         /\ UNCHANGED completed

\* A variant that counts before the coordinator has acknowledged.
CountWithoutAck(t) ==
    /\ exec[t] = "submitting"
    /\ CountResult(t)
    /\ UNCHANGED <<phase, poll, job, result, requests, replies, coordVars>>

\* submit_result returned Ok.
SubmitReplied(t) ==
    /\ exec[t] = "submitting"
    /\ Replied(t, "report")
    /\ CountResult(t)
    /\ UNCHANGED <<phase, poll, job, result, requests, replies, coordVars>>

\* A variant that counts a failed submission as a failed test.
CountUnsent(t) ==
    /\ exec[t] = "submitting"
    /\ exec' = [exec EXCEPT ![t] = "failed"]
    /\ failed' = failed + 1
    /\ UNCHANGED <<phase, poll, job, result, completed, requests, replies, coordVars>>

\* A variant that submits an Error result when the submission failed.
SubmitErrorInstead(t) ==
    /\ exec[t] = "submitting"
    /\ result' = [result EXCEPT ![t] = "error"]
    /\ Call(ReportCall(t))
    /\ UNCHANGED <<phase, poll, exec, job, completed, failed, replies, coordVars>>

\* submit_result failed: logged, not counted, not retried.
SubmitFailed(t) ==
    /\ exec[t] = "submitting"
    /\ exec' = [exec EXCEPT ![t] = "unsent"]
    /\ UNCHANGED <<phase, poll, job, result, completed, failed, requests, replies, coordVars>>

\* The shutdown channel closed while the test was running.
ExecShutdown(t) ==
    /\ phase = "dropped"
    /\ exec[t] = "running"
    /\ exec' = [exec EXCEPT ![t] = "cancelled"]
    /\ UNCHANGED <<phase, poll, job, result, completed, failed, requests, replies, coordVars>>

------------------------------------------------------------------------------
(* Shutdown. *)

\* Ctrl-C: endpoint.close() starts; the loop runs on until it has finished.
CtrlC ==
    /\ phase = "up"
    /\ phase' = "closing"
    /\ UNCHANGED <<poll, exec, job, result, completed, failed, requests, replies, coordVars>>

\* A variant that drops the loop and leaves its polling tasks running.
DropInnerKeepingTasks ==
    /\ phase = "closing"
    /\ phase' = "dropped"
    /\ UNCHANGED <<poll, exec, job, result, completed, failed, requests, replies, coordVars>>

\* The race is decided: the loop is dropped, its JoinSet aborts the polling
\* tasks and the shutdown channel closes.  Execution tasks are detached.
DropInner ==
    /\ phase = "closing"
    /\ phase' = "dropped"
    /\ poll' = [t \in Tasks |-> IF poll[t] \in {"unborn"} \cup PollGone
                                THEN poll[t] ELSE "aborted"]
    /\ UNCHANGED <<exec, job, result, completed, failed, requests, replies, coordVars>>

\* main shuts the runtime down; tasks still alive are dropped.
Exit ==
    /\ phase = "dropped"
    /\ phase' = "exited"
    /\ exec' = [t \in Tasks |-> IF exec[t] \in ExecAlive THEN "killed" ELSE exec[t]]
    /\ UNCHANGED <<poll, job, result, completed, failed, requests, replies, coordVars>>

\* The process is gone and nothing is on the wire.
Terminated ==
    /\ phase = "exited"
    /\ requests = {}
    /\ UNCHANGED vars

------------------------------------------------------------------------------
Coordinator(q) == ServeGet(q) \/ ServeMark(q) \/ ServeReport(q)

PollTask(t) ==
    \/ GetReplied(t) \/ GetFailed(t) \/ MarkReplied(t) \/ MarkFailed(t)
    \/ PollTimeout(t) \/ AwaitReturns(t) \/ Reap(t)

ExecTask(t) ==
    \/ \E verdict \in {"success", "error"} : PerformReturns(t, verdict)
    \/ PerformPanics(t) \/ SubmitReplied(t) \/ SubmitFailed(t) \/ ExecShutdown(t)

Next ==
    \/ \E t \in Tasks : Tick(t) \/ PollTask(t) \/ ExecTask(t)
    \/ \E q \in requests : Coordinator(q) \/ LoseRequest(q)
    \/ CtrlC \/ DropInner \/ Exit \/ Terminated

Spec == Init /\ [][Next]_vars

(***************************************************************************)
(* Fairness: tokio polls a task that is ready, a timer that is due fires,  *)
(* every test ends by its own timeouts, and close() and the runtime's      *)
(* shutdown end.  Nothing makes the user press Ctrl-C, a request survive,  *)
(* or the coordinator answer: while the connection stays up, a submission  *)
(* that is not answered has no timeout to end it.                          *)
(***************************************************************************)
PerformEnds(t) ==
    \/ \E verdict \in {"success", "error"} : PerformReturns(t, verdict)
    \/ PerformPanics(t)

Fairness ==
    /\ \A t \in Tasks :
        /\ WF_vars(PollTimeout(t))
        /\ WF_vars(AwaitReturns(t))
        /\ WF_vars(Reap(t))
        /\ WF_vars(PerformEnds(t))
        /\ WF_vars(SubmitReplied(t))
    /\ WF_vars(DropInner)
    /\ WF_vars(Exit)

FairSpec == Spec /\ Fairness

------------------------------------------------------------------------------
(* Properties. *)

Stored(verdict) == {r \in reports : r.success = verdict}

(***************************************************************************)
(* The statistics never claim a test the coordinator has no report of:     *)
(* tests_completed and tests_failed are bounded by the stored reports of   *)
(* the same verdict, whatever is lost, late, timed out or closed           *)
(* (runner.rs: count only after submit_result returned Ok).                *)
(***************************************************************************)
StatsBacked ==
    /\ completed <= Cardinality(Stored(TRUE))
    /\ failed <= Cardinality(Stored(FALSE))

(***************************************************************************)
(* A report says what its task found about the assignment it took, and a   *)
(* task has at most one report, though the coordinator may take a report   *)
(* long after the client gave up on the call.                              *)
(***************************************************************************)
ReportFaithful ==
    \A r \in reports :
        /\ r.job = job[r.task]
        /\ exec[r.task] \in {"submitting", "unsent", "killed"} \cup Counted
        /\ r.success <=> result[r.task] = "success"

(***************************************************************************)
(* Once the loop is dropped no test starts any more: the JoinSet has taken *)
(* the polling tasks along, and execution tasks only come from those.      *)
(***************************************************************************)
NoLaunchAfterDrop ==
    [][(phase \in {"dropped", "exited"}) =>
          \A t \in Tasks : exec[t] = "none" => exec'[t] = "none"]_vars

(***************************************************************************)
(* What the loop promises of reports and statistics, see ReportLedger.tla. *)
(***************************************************************************)
Ledger == INSTANCE ReportLedger
              WITH stored <- reports,
                   counted <- {t \in Tasks : exec[t] \in Counted}

ImplementsLedger == Ledger!Spec

\* The task took the assignment and will never get a report of it counted.
Lost(t) ==
    \/ exec[t] \in ExecLost
    \/ exec[t] = "none" /\ poll[t] \in {"timedout", "expired", "aborted"}

\* The submission is out and the coordinator keeps silent.
Unanswered(t) == phase = "up" /\ exec[t] = "submitting" /\ ~Replied(t, "report")

(***************************************************************************)
(* A test the coordinator holds for started is reported, or the one task   *)
(* that took it was lost in a way the client knows of: it timed out while  *)
(* marking, was aborted, panicked, was cancelled, or failed to submit; or  *)
(* the coordinator itself never answers the submission.                    *)
(***************************************************************************)
StartedIsSettled ==
    \A a \in Assignments :
        status[a] = "started" ~>
            \/ status[a] = "reported"
            \/ \E t \in Tasks : job[t] = a /\ Lost(t)
            \/ \E t \in Tasks : [](job[t] = a /\ Unanswered(t))

(***************************************************************************)
(* The JoinSet grows for one reason only: every polling task the timer     *)
(* spawned is reaped or, at shutdown, aborted, unless the coordinator      *)
(* never answers the submission of the execution task it awaits.           *)
(***************************************************************************)
TasksDrain ==
    \A t \in Tasks :
        poll[t] # "unborn" ~>
            poll[t] \in PollGone \/ [](poll[t] = "awaiting" /\ Unanswered(t))

\* Nothing of t's test is in the statistics or with the coordinator.
Unrecorded(t) == exec[t] \notin Counted /\ \A r \in reports : r.task # t

(***************************************************************************)
(* The shutdown closes the endpoint under the tests before it tells them.  *)
(* What a test makes of that is no verdict on its peer: a test that was    *)
(* not done at that moment is never reported, nor counted as failed.       *)
(***************************************************************************)
NoVerdictByShutdown ==
    \A t \in Tasks :
        [](phase # "up" /\ exec[t] \in {"none", "running"} => []Unrecorded(t))

(***************************************************************************)
(* client.rs says of mark_test_started that it prevents duplicate          *)
(* assignments, rpc.rs that its answer tells whether the test was marked.  *)
(* The loop runs the test whatever the answer is: here a task starts a     *)
(* test after the coordinator refused to mark it.                          *)
(***************************************************************************)
NoLaunchAfterRefusal ==
    [][\A t \in Tasks :
          (exec[t] = "none" /\ exec'[t] # "none") =>
              [task |-> t, kind |-> "mark", val |-> FALSE] \notin replies]_vars
=============================================================================
