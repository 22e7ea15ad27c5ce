-------------------------- MODULE SwarmRunnerProofs --------------------------
(***************************************************************************)
(* Theorems about SwarmRunner, for any finite set of polling tasks and any *)
(* set of assignments: what is reported and counted; the refinement of     *)
(* ReportLedger; what the shutdown does not report; who holds a started    *)
(* test; that tasks only move on; and that each of the loop's tests is an  *)
(* AssignedTest.                                                           *)
(***************************************************************************)
EXTENDS SwarmRunner, FiniteSetTheorems, TLAPS

With(state) == {t \in Tasks : exec[t] = state}

\* No execution task before the polling task launched one, and no polling
\* task that could launch one once the loop is dropped.
LaunchInv ==
    \A t \in Tasks :
        /\ poll[t] \in {"unborn"} \cup InPoll => exec[t] = "none"
        /\ phase \in {"dropped", "exited"} => poll[t] \in {"unborn"} \cup PollGone
        /\ poll[t] = "marking" => job[t] \in Assignments
        /\ exec[t] # "none" => job[t] \in Assignments

\* A report is on the wire, or stored, only after the test was performed,
\* and not both; on its way it says what the task that sent it still holds.
WireInv ==
    \A q \in requests : q.kind = "report" =>
        /\ exec[q.task] \in {"submitting", "unsent", "killed"} \cup Counted
        /\ q.job = job[q.task]
        /\ q.success <=> result[q.task] = "success"
        /\ \A r \in reports : r.task # q.task

\* The coordinator acknowledges what it stored, the client counts what the
\* coordinator acknowledged, each test in the class of its verdict.
AckInv ==
    /\ \A q \in replies : q.kind = "report" => \E r \in reports : r.task = q.task
    /\ \A t \in Tasks :
        /\ exec[t] \in Counted => \E r \in reports : r.task = t
        /\ exec[t] = "completed" => result[t] = "success"
        /\ exec[t] = "failed" => result[t] # "success"

\* The statistics are the numbers of counted tasks.
CountInv ==
    /\ completed = Cardinality(With("completed"))
    /\ failed = Cardinality(With("failed"))

Inv == TypeOK /\ LaunchInv /\ WireInv /\ ReportFaithful /\ AckInv /\ CountInv

------------------------------------------------------------------------------
(* Types. *)

USE DEF Phases, InPoll, PollEnded, PollGone, PollStates, ExecAlive, ExecLost,
        Counted, ExecStates, clientVars, coordVars

LEMMA TypeInit == Init => TypeOK
  BY DEF Init, TypeOK

\* Putting a call on the wire and taking one off it keep the types.
LEMMA CallType ==
  ASSUME TypeOK, NEW q \in Request, Call(q)
  PROVE  requests' \subseteq Request
  BY DEF TypeOK, Call

LEMMA AnswerType ==
  ASSUME TypeOK, NEW q \in requests, NEW val, Answer(q, val),
         [task |-> q.task, kind |-> q.kind, val |-> val] \in Reply
  PROVE  /\ requests' \subseteq Request
         /\ replies' \subseteq Reply
  BY DEF TypeOK, Answer

\* What the coordinator stores of a submission.
Filed(q) == [task |-> q.task, job |-> q.job, success |-> q.success]

\* What a request carries, by its kind.
LEMMA RequestIs ==
  ASSUME TypeOK, NEW q \in requests
  PROVE  /\ q.task \in Tasks /\ q.kind \in {"get", "mark", "report"}
         /\ q.kind # "get" => q.job \in Assignments
         /\ q.kind = "report" =>
              q \in [task : Tasks, kind : {"report"}, job : Assignments, success : BOOLEAN]
  BY DEF TypeOK, Request

\* What a task sends when its test is over.
LEMMA ReportCallIs ==
  ASSUME TypeOK, LaunchInv, NEW t \in Tasks, NEW verdict \in {"success", "error"},
         PerformReturns(t, verdict)
  PROVE  /\ ReportCall(t) \in Request
         /\ ReportCall(t).task = t
         /\ ReportCall(t).kind = "report"
         /\ ReportCall(t).job = job[t]
         /\ ReportCall(t).success <=> result'[t] = "success"
<1>1. job[t] \in Assignments
  BY DEF PerformReturns, LaunchInv
<1>2. (result'[t] = "success") \in BOOLEAN
  OBVIOUS
<1>3. ReportCall(t) \in [task : Tasks, kind : {"report"}, job : Assignments, success : BOOLEAN]
  BY <1>1, <1>2, Zenon DEF ReportCall
<1>4. ReportCall(t).success <=> result'[t] = "success"
  BY Zenon DEF ReportCall
<1> QED  BY <1>3, <1>4 DEF ReportCall, Request

LEMMA TypeStep == TypeOK /\ LaunchInv /\ WireInv /\ [Next]_vars => TypeOK'
<1> SUFFICES ASSUME TypeOK, LaunchInv, WireInv, [Next]_vars PROVE TypeOK'
  OBVIOUS
<1>1. ASSUME NEW t \in Tasks, Tick(t) PROVE TypeOK'
  <2>1. GetCall(t) \in Request
    BY DEF GetCall, Request
  <2> QED  BY <1>1, <2>1, CallType DEF TypeOK, Tick
<1>2. ASSUME NEW t \in Tasks, GetReplied(t) PROVE TypeOK'
  <2>1. PICK r \in replies :
          /\ r.task = t /\ r.kind = "get"
          /\ \/ /\ r.val = NoJob
                /\ poll' = [poll EXCEPT ![t] = "done"]
                /\ UNCHANGED <<job, requests>>
             \/ /\ r.val # NoJob
                /\ job' = [job EXCEPT ![t] = r.val]
                /\ poll' = [poll EXCEPT ![t] = "marking"]
                /\ Call(MarkCall(t))
    BY <1>2 DEF GetReplied
  <2>2. r.val \in Assignments \cup {NoJob}
    BY <2>1 DEF TypeOK, Reply
  <2>3. r.val # NoJob /\ job' = [job EXCEPT ![t] = r.val] => MarkCall(t) \in Request
    BY <2>2 DEF TypeOK, MarkCall, Request
  <2>4. requests' \subseteq Request
    BY <2>1, <2>3, CallType DEF TypeOK
  <2> QED  BY <1>2, <2>1, <2>2, <2>4 DEF TypeOK, GetReplied
<1>3. ASSUME NEW t \in Tasks, GetFailed(t) PROVE TypeOK'
  BY <1>3 DEF TypeOK, GetFailed
<1>4. ASSUME NEW t \in Tasks, MarkReplied(t) PROVE TypeOK'
  BY <1>4 DEF TypeOK, MarkReplied, Launch
<1>5. ASSUME NEW t \in Tasks, MarkFailed(t) PROVE TypeOK'
  BY <1>5 DEF TypeOK, MarkFailed, Launch
<1>6. ASSUME NEW t \in Tasks, PollTimeout(t) PROVE TypeOK'
  BY <1>6 DEF TypeOK, PollTimeout
<1>7. ASSUME NEW t \in Tasks, AwaitReturns(t) PROVE TypeOK'
  BY <1>7 DEF TypeOK, AwaitReturns
<1>8. ASSUME NEW t \in Tasks, Reap(t) PROVE TypeOK'
  BY <1>8 DEF TypeOK, Reap
<1>9. ASSUME NEW t \in Tasks, NEW verdict \in {"success", "error"},
             PerformReturns(t, verdict)
      PROVE  TypeOK'
  <2>1. Call(ReportCall(t)) /\ ReportCall(t) \in Request
    BY <1>9, ReportCallIs DEF PerformReturns
  <2>2. requests' \subseteq Request
    BY <2>1, CallType
  <2> QED  BY <1>9, <2>2 DEF TypeOK, PerformReturns
<1>10. ASSUME NEW t \in Tasks, PerformPanics(t) PROVE TypeOK'
  BY <1>10 DEF TypeOK, PerformPanics
<1>11. ASSUME NEW t \in Tasks, SubmitReplied(t) PROVE TypeOK'
  BY <1>11 DEF TypeOK, SubmitReplied, CountResult
<1>12. ASSUME NEW t \in Tasks, SubmitFailed(t) PROVE TypeOK'
  BY <1>12 DEF TypeOK, SubmitFailed
<1>13. ASSUME NEW t \in Tasks, ExecShutdown(t) PROVE TypeOK'
  BY <1>13 DEF TypeOK, ExecShutdown
<1>14. ASSUME NEW q \in requests, ServeGet(q) PROVE TypeOK'
  <2>1. PICK val \in Assignments \cup {NoJob} : Answer(q, val)
    BY <1>14 DEF ServeGet
  <2>2. [task |-> q.task, kind |-> q.kind, val |-> val] \in Reply
    BY <1>14, RequestIs DEF ServeGet, Reply
  <2> QED  BY <1>14, <2>1, <2>2, AnswerType DEF TypeOK, ServeGet, Answer
<1>15. ASSUME NEW q \in requests, ServeMark(q) PROVE TypeOK'
  <2> DEFINE val == status[q.job] = "pending"
  <2>1. Answer(q, val)
    BY <1>15 DEF ServeMark
  <2>2. [task |-> q.task, kind |-> q.kind, val |-> val] \in Reply
    BY <1>15, RequestIs DEF ServeMark, Reply
  <2>3. /\ requests' \subseteq Request
        /\ replies' \subseteq Reply
    BY <2>1, <2>2, AnswerType
  <2> QED  BY <1>15, <2>1, <2>3 DEF TypeOK, ServeMark, Answer
<1>16. ASSUME NEW q \in requests, ServeReport(q) PROVE TypeOK'
  <2>1. Answer(q, TRUE)
    BY <1>16 DEF ServeReport
  <2>2. [task |-> q.task, kind |-> q.kind, val |-> TRUE] \in Reply
    BY <1>16, RequestIs DEF ServeReport, Reply
  <2>3. /\ requests' \subseteq Request
        /\ replies' \subseteq Reply
    BY <2>1, <2>2, AnswerType
  <2>4. Filed(q) \in Report
    BY <1>16, RequestIs DEF ServeReport, Report, Filed
  <2>5. reports' \subseteq Report
    BY <1>16, <2>4 DEF ServeReport, TypeOK, Filed
  <2>6. status' \in [Assignments -> {"pending", "started", "reported"}]
    BY <1>16 DEF ServeReport, TypeOK
  <2> QED  BY <2>1, <2>3, <2>5, <2>6 DEF TypeOK, Answer
<1>17. ASSUME NEW r \in requests, LoseRequest(r) PROVE TypeOK'
  BY <1>17 DEF TypeOK, LoseRequest
<1>18. CASE CtrlC
  BY <1>18 DEF TypeOK, CtrlC
<1>19. CASE DropInner
  BY <1>19 DEF TypeOK, DropInner
<1>20. CASE Exit
  BY <1>20 DEF TypeOK, Exit
<1>21. CASE UNCHANGED vars
  BY <1>21 DEF TypeOK, vars
<1> QED
  BY <1>1, <1>2, <1>3, <1>4, <1>5, <1>6, <1>7, <1>8, <1>9, <1>10, <1>11,
     <1>12, <1>13, <1>14, <1>15, <1>16, <1>17, <1>18, <1>19, <1>20, <1>21
     DEF Next, PollTask, ExecTask, Coordinator, Terminated

------------------------------------------------------------------------------
(* Launching. *)

LEMMA LaunchInit == Init => LaunchInv
  BY DEF Init, LaunchInv

LEMMA LaunchStep == TypeOK /\ LaunchInv /\ [Next]_vars => LaunchInv'
<1> SUFFICES ASSUME TypeOK, LaunchInv, [Next]_vars PROVE LaunchInv'
  OBVIOUS
<1>1. ASSUME NEW t \in Tasks, Tick(t) PROVE LaunchInv'
  BY <1>1 DEF TypeOK, LaunchInv, Tick
<1>2. ASSUME NEW t \in Tasks, GetReplied(t) PROVE LaunchInv'
  <2>1. PICK r \in replies :
          /\ r.task = t /\ r.kind = "get"
          /\ \/ /\ poll' = [poll EXCEPT ![t] = "done"]
                /\ UNCHANGED job
             \/ /\ r.val # NoJob
                /\ job' = [job EXCEPT ![t] = r.val]
                /\ poll' = [poll EXCEPT ![t] = "marking"]
    BY <1>2 DEF GetReplied
  <2>2. r.val \in Assignments \cup {NoJob}
    BY <2>1 DEF TypeOK, Reply
  <2> QED  BY <1>2, <2>1, <2>2 DEF TypeOK, LaunchInv, GetReplied
<1>3. ASSUME NEW t \in Tasks, GetFailed(t) \/ PollTimeout(t) PROVE LaunchInv'
  BY <1>3 DEF TypeOK, LaunchInv, GetFailed, PollTimeout
<1>4. ASSUME NEW t \in Tasks, MarkReplied(t) \/ MarkFailed(t) PROVE LaunchInv'
  BY <1>4 DEF TypeOK, LaunchInv, MarkReplied, MarkFailed, Launch
<1>5. ASSUME NEW t \in Tasks, AwaitReturns(t) \/ Reap(t) PROVE LaunchInv'
  BY <1>5 DEF TypeOK, LaunchInv, AwaitReturns, Reap
<1>6. ASSUME NEW t \in Tasks, ExecTask(t) PROVE LaunchInv'
  <2>1. /\ UNCHANGED <<phase, poll, job>>
        /\ \E e \in ExecStates : exec' = [exec EXCEPT ![t] = e]
        /\ exec[t] \in ExecAlive
    BY <1>6 DEF ExecTask, PerformReturns, PerformPanics, SubmitReplied,
                SubmitFailed, ExecShutdown, CountResult
  <2> QED  BY <2>1 DEF TypeOK, LaunchInv
<1>7. CASE CtrlC
  BY <1>7 DEF LaunchInv, CtrlC
<1>8. CASE DropInner
  BY <1>8 DEF TypeOK, LaunchInv, DropInner
<1>9. CASE Exit
  BY <1>9 DEF TypeOK, LaunchInv, Exit
<1>10. CASE UNCHANGED clientVars
  BY <1>10 DEF LaunchInv
<1>11. ASSUME NEW q \in requests, Coordinator(q) PROVE UNCHANGED clientVars
  BY <1>11 DEF Coordinator, ServeGet, ServeMark, ServeReport, Answer
<1> QED
  BY <1>1, <1>2, <1>3, <1>4, <1>5, <1>6, <1>7, <1>8, <1>9, <1>10, <1>11
     DEF Next, PollTask, LoseRequest, Terminated, vars

------------------------------------------------------------------------------
(* Reports. *)

\* Only the actions named here touch what the three report invariants read.
LEMMA Frames ==
  ASSUME NEW t \in Tasks
  PROVE  /\ GetFailed(t) \/ PollTimeout(t) \/ AwaitReturns(t) \/ Reap(t) =>
              UNCHANGED <<exec, job, result, completed, failed, requests, replies, reports>>
         /\ MarkReplied(t) \/ MarkFailed(t) =>
              /\ poll[t] = "marking"
              /\ exec' = [exec EXCEPT ![t] = "running"]
              /\ UNCHANGED <<job, result, completed, failed, requests, replies, reports>>
         /\ PerformPanics(t) \/ ExecShutdown(t) \/ SubmitFailed(t) =>
              /\ \/ exec[t] = "running" /\ exec' = [exec EXCEPT ![t] = "panicked"]
                 \/ exec[t] = "running" /\ exec' = [exec EXCEPT ![t] = "cancelled"]
                 \/ exec[t] = "submitting" /\ exec' = [exec EXCEPT ![t] = "unsent"]
              /\ UNCHANGED <<job, result, completed, failed, requests, replies, reports>>
  BY DEF GetFailed, PollTimeout, AwaitReturns, Reap, MarkReplied, MarkFailed, Launch,
         PerformPanics, ExecShutdown, SubmitFailed

LEMMA ServeFrame ==
  ASSUME NEW q \in requests
  PROVE  /\ ServeGet(q) \/ ServeMark(q) =>
              /\ UNCHANGED <<exec, job, result, completed, failed, reports>>
              /\ requests' = requests \ {q}
              /\ \A r \in replies' : r.kind = "report" => r \in replies
         /\ ServeReport(q) =>
              /\ q.kind = "report"
              /\ requests' = requests \ {q}
              /\ reports' = reports \cup {Filed(q)}
              /\ \A r \in replies' : r \in replies \/ r.task = q.task
              /\ UNCHANGED <<exec, job, result, completed, failed>>
  BY DEF ServeGet, ServeMark, ServeReport, Answer, Filed

\* Two submissions of one task are one and the same.
LEMMA OneReportCall ==
  ASSUME TypeOK, WireInv, NEW p \in requests, NEW q \in requests,
         p.kind = "report", q.kind = "report", p.task = q.task
  PROVE  p = q
<1>1. /\ p \in [task : Tasks, kind : {"report"}, job : Assignments, success : BOOLEAN]
      /\ q \in [task : Tasks, kind : {"report"}, job : Assignments, success : BOOLEAN]
  BY RequestIs
<1>2. p.job = q.job /\ (p.success <=> q.success)
  BY DEF WireInv
<1>3. p.success = q.success
  BY <1>1, <1>2
<1> QED  BY <1>1, <1>2, <1>3

ReportVars == <<exec, job, result, completed, failed, requests, replies, reports>>

\* GetReplied as far as reports are concerned.
LEMMA GetRepliedFrame ==
  ASSUME TypeOK, LaunchInv, NEW t \in Tasks, GetReplied(t)
  PROVE  /\ exec[t] = "none"
         /\ \A u \in Tasks \ {t} : job'[u] = job[u]
         /\ requests' \subseteq requests \cup {MarkCall(t)}
         /\ MarkCall(t).kind = "mark"
         /\ UNCHANGED <<exec, result, completed, failed, replies, reports>>
<1>1. /\ \/ UNCHANGED <<job, requests>>
         \/ /\ \E v : job' = [job EXCEPT ![t] = v]
            /\ Call(MarkCall(t))
      /\ poll[t] = "getting"
      /\ UNCHANGED <<exec, result, completed, failed, replies, reports>>
  BY DEF GetReplied
<1> QED  BY <1>1 DEF TypeOK, LaunchInv, Call, MarkCall

LEMMA ReportInit == Init => WireInv /\ ReportFaithful /\ AckInv
  BY DEF Init, WireInv, ReportFaithful, AckInv

ReportInv == WireInv /\ ReportFaithful /\ AckInv

LEMMA ReportStep == TypeOK /\ LaunchInv /\ ReportInv /\ [Next]_vars => ReportInv'
<1> SUFFICES ASSUME TypeOK, LaunchInv, ReportInv, [Next]_vars PROVE ReportInv'
  OBVIOUS
<1> USE DEF ReportInv
<1>1. ASSUME NEW t \in Tasks, Tick(t) PROVE ReportInv'
  BY <1>1 DEF Tick, Call, GetCall, WireInv, ReportFaithful, AckInv
<1>2. ASSUME NEW t \in Tasks, GetReplied(t) PROVE ReportInv'
  <2>1. WireInv'
    BY <1>2, GetRepliedFrame, RequestIs DEF WireInv
  <2>2. ReportFaithful'
    BY <1>2, GetRepliedFrame DEF ReportFaithful, TypeOK, Report
  <2>3. AckInv'
    BY <1>2, GetRepliedFrame DEF AckInv
  <2> QED  BY <2>1, <2>2, <2>3
<1>3. ASSUME NEW t \in Tasks, MarkReplied(t) \/ MarkFailed(t) PROVE ReportInv'
  <2>1. exec[t] = "none"
    BY <1>3, Frames DEF LaunchInv
  <2>2. /\ exec' = [exec EXCEPT ![t] = "running"]
        /\ UNCHANGED <<job, result, requests, replies, reports>>
    BY <1>3, Frames
  <2>3. WireInv'
    BY <2>1, <2>2, RequestIs DEF WireInv, TypeOK
  <2>4. ReportFaithful'
    BY <2>1, <2>2 DEF ReportFaithful, TypeOK, Report
  <2>5. AckInv'
    BY <2>1, <2>2 DEF AckInv, TypeOK
  <2> QED  BY <2>3, <2>4, <2>5
<1>4. ASSUME NEW t \in Tasks, NEW verdict \in {"success", "error"},
             PerformReturns(t, verdict)
      PROVE  ReportInv'
  <2>1. /\ exec[t] = "running"
        /\ exec' = [exec EXCEPT ![t] = "submitting"]
        /\ result' = [result EXCEPT ![t] = verdict]
        /\ requests' \subseteq requests \cup {ReportCall(t)}
        /\ UNCHANGED <<job, replies, reports>>
    BY <1>4 DEF PerformReturns, Call
  <2>2. \A r \in reports : r.task # t
    BY <2>1 DEF ReportFaithful
  <2>3. WireInv'
    <3>1. ASSUME NEW q \in requests, q.kind = "report"
          PROVE  /\ q.task \in Tasks \ {t}
                 /\ exec'[q.task] = exec[q.task] /\ result'[q.task] = result[q.task]
      BY <2>1, <3>1, RequestIs DEF WireInv, TypeOK
    <3>2. exec'[t] = "submitting"
      BY <2>1 DEF TypeOK
    <3>3. /\ ReportCall(t).task = t /\ ReportCall(t).job = job[t]
          /\ ReportCall(t).success <=> result'[t] = "success"
      BY <1>4, ReportCallIs
    <3> QED  BY <2>1, <2>2, <3>1, <3>2, <3>3 DEF WireInv
  <2>4. ReportFaithful'
    BY <2>1, <2>2 DEF ReportFaithful, TypeOK, Report
  <2>5. AckInv'
    BY <2>1 DEF AckInv, TypeOK
  <2> QED  BY <2>3, <2>4, <2>5
<1>5. ASSUME NEW t \in Tasks, PerformPanics(t) \/ ExecShutdown(t) \/ SubmitFailed(t)
      PROVE  ReportInv'
  <2>1. /\ \/ exec[t] = "running" /\ exec' = [exec EXCEPT ![t] = "panicked"]
           \/ exec[t] = "running" /\ exec' = [exec EXCEPT ![t] = "cancelled"]
           \/ exec[t] = "submitting" /\ exec' = [exec EXCEPT ![t] = "unsent"]
        /\ UNCHANGED <<job, result, requests, replies, reports>>
    BY <1>5, Frames
  <2>2. WireInv'
    BY <2>1, RequestIs DEF WireInv, TypeOK
  <2>3. ReportFaithful'
    BY <2>1 DEF ReportFaithful, TypeOK, Report
  <2>4. AckInv'
    BY <2>1 DEF AckInv, TypeOK
  <2> QED  BY <2>2, <2>3, <2>4
<1>6. ASSUME NEW t \in Tasks, SubmitReplied(t) PROVE ReportInv'
  <2>1. /\ exec[t] = "submitting"
        /\ \/ exec' = [exec EXCEPT ![t] = "completed"] /\ result[t] = "success"
           \/ exec' = [exec EXCEPT ![t] = "failed"] /\ result[t] # "success"
        /\ UNCHANGED <<job, result, requests, replies, reports>>
    BY <1>6 DEF SubmitReplied, CountResult
  <2>2. \E r \in reports : r.task = t
    BY <1>6 DEF SubmitReplied, Replied, AckInv
  <2>3. WireInv'
    BY <2>1, RequestIs DEF WireInv, TypeOK
  <2>4. ReportFaithful'
    BY <2>1 DEF ReportFaithful, TypeOK, Report
  <2>5. AckInv'
    BY <2>1, <2>2 DEF AckInv, TypeOK
  <2> QED  BY <2>3, <2>4, <2>5
<1>7. ASSUME NEW q \in requests, ServeReport(q) PROVE ReportInv'
  <2>1. /\ q.kind = "report"
        /\ requests' = requests \ {q}
        /\ reports' = reports \cup {Filed(q)}
        /\ \A r \in replies' : r \in replies \/ r.task = q.task
        /\ UNCHANGED <<exec, job, result>>
    BY <1>7, ServeFrame
  <2>2. Filed(q).task = q.task /\ Filed(q).job = q.job /\ Filed(q).success = q.success
    BY DEF Filed
  <2>3. WireInv'
    BY <2>1, <2>2, OneReportCall DEF WireInv
  <2>4. ReportFaithful'
    BY <2>1, <2>2 DEF WireInv, ReportFaithful
  <2>5. AckInv'
    BY <2>1, <2>2 DEF AckInv
  <2> QED  BY <2>3, <2>4, <2>5
<1>8. ASSUME NEW q \in requests, ServeGet(q) \/ ServeMark(q) PROVE ReportInv'
  BY <1>8, ServeFrame DEF WireInv, ReportFaithful, AckInv
<1>9. ASSUME NEW r \in requests, LoseRequest(r) PROVE ReportInv'
  BY <1>9 DEF LoseRequest, WireInv, ReportFaithful, AckInv
<1>10. CASE Exit
  <2>1. /\ exec' = [t \in Tasks |-> IF exec[t] \in ExecAlive THEN "killed" ELSE exec[t]]
        /\ UNCHANGED <<job, result, requests, replies, reports>>
    BY <1>10 DEF Exit
  <2>2. WireInv'
    BY <2>1, RequestIs DEF WireInv, TypeOK
  <2>3. ReportFaithful'
    BY <2>1 DEF ReportFaithful, TypeOK, Report
  <2>4. AckInv'
    BY <2>1 DEF AckInv, TypeOK
  <2> QED  BY <2>2, <2>3, <2>4
<1>11. CASE UNCHANGED ReportVars
  BY <1>11 DEF ReportVars, WireInv, ReportFaithful, AckInv
<1>12. ASSUME NEW t \in Tasks,
              \/ GetFailed(t) \/ PollTimeout(t) \/ AwaitReturns(t) \/ Reap(t)
       PROVE  UNCHANGED ReportVars
  BY <1>12, Frames DEF ReportVars
<1>13. CtrlC \/ DropInner \/ UNCHANGED vars => UNCHANGED ReportVars
  BY DEF CtrlC, DropInner, vars, ReportVars
<1> QED
  BY <1>1, <1>2, <1>3, <1>4, <1>5, <1>6, <1>7, <1>8, <1>9, <1>10, <1>11, <1>12, <1>13
     DEF Next, PollTask, ExecTask, Coordinator, Terminated

------------------------------------------------------------------------------
(* Counting. *)

LEMMA WithFinite ==
  ASSUME NEW state
  PROVE  IsFiniteSet(With(state))
  BY TasksFinite, FS_Subset DEF With

LEMMA CountInit == Init => CountInv
<1> SUFFICES ASSUME Init PROVE CountInv
  OBVIOUS
<1>1. With("completed") = {} /\ With("failed") = {}
  BY DEF Init, With
<1> QED  BY <1>1, FS_EmptySet DEF Init, CountInv

\* Counting one more task.
LEMMA CountOne ==
  ASSUME TypeOK, NEW t \in Tasks, NEW state \in ExecStates, NEW other \in ExecStates,
         exec[t] # state, exec[t] # other, state # other,
         exec' = [exec EXCEPT ![t] = state]
  PROVE  /\ Cardinality(With(state)') = Cardinality(With(state)) + 1
         /\ With(other)' = With(other)
<1>1. With(state)' = With(state) \cup {t} /\ t \notin With(state)
  BY DEF With, TypeOK
<1>2. With(other)' = With(other)
  BY DEF With, TypeOK
<1> QED  BY <1>1, <1>2, WithFinite, FS_AddElement

LEMMA CountStep == TypeOK /\ LaunchInv /\ CountInv /\ [Next]_vars => CountInv'
<1> SUFFICES ASSUME TypeOK, LaunchInv, CountInv, [Next]_vars PROVE CountInv'
  OBVIOUS
<1>1. ASSUME NEW t \in Tasks, SubmitReplied(t) PROVE CountInv'
  <2>1. exec[t] = "submitting"
    BY <1>1 DEF SubmitReplied
  <2>2. CASE result[t] = "success"
    <3>1. /\ exec' = [exec EXCEPT ![t] = "completed"]
          /\ completed' = completed + 1 /\ failed' = failed
      BY <1>1, <2>2 DEF SubmitReplied, CountResult
    <3>2. /\ Cardinality(With("completed")') = Cardinality(With("completed")) + 1
          /\ With("failed")' = With("failed")
      BY <2>1, <3>1, CountOne
    <3> QED  BY <3>1, <3>2 DEF CountInv
  <2>3. CASE result[t] # "success"
    <3>1. /\ exec' = [exec EXCEPT ![t] = "failed"]
          /\ failed' = failed + 1 /\ completed' = completed
      BY <1>1, <2>3 DEF SubmitReplied, CountResult
    <3>2. /\ Cardinality(With("failed")') = Cardinality(With("failed")) + 1
          /\ With("completed")' = With("completed")
      BY <2>1, <3>1, CountOne
    <3> QED  BY <3>1, <3>2 DEF CountInv
  <2> QED  BY <2>2, <2>3
<1>2. ASSUME UNCHANGED <<completed, failed>>,
             \A t \in Tasks : exec'[t] # exec[t] => {exec[t], exec'[t]} \cap Counted = {}
      PROVE  CountInv'
  <2>1. With("completed")' = With("completed") /\ With("failed")' = With("failed")
    BY <1>2 DEF With, TypeOK
  <2> QED  BY <1>2, <2>1 DEF CountInv
<1>3. ASSUME NEW t \in Tasks, Tick(t) \/ GetReplied(t)
      PROVE  UNCHANGED <<completed, failed, exec>>
  BY <1>3 DEF Tick, GetReplied
<1>4. ASSUME NEW t \in Tasks, GetFailed(t) \/ PollTimeout(t) \/ AwaitReturns(t) \/ Reap(t)
      PROVE  UNCHANGED <<completed, failed, exec>>
  BY <1>4, Frames
<1>5. ASSUME NEW t \in Tasks, MarkReplied(t) \/ MarkFailed(t) PROVE CountInv'
  <2>1. exec[t] = "none" /\ exec' = [exec EXCEPT ![t] = "running"]
        /\ UNCHANGED <<completed, failed>>
    BY <1>5, Frames DEF LaunchInv
  <2> QED  BY <1>2, <2>1 DEF TypeOK
<1>6. ASSUME NEW t \in Tasks, NEW verdict \in {"success", "error"},
             PerformReturns(t, verdict)
      PROVE  CountInv'
  BY <1>2, <1>6 DEF PerformReturns, TypeOK
<1>7. ASSUME NEW t \in Tasks, PerformPanics(t) \/ ExecShutdown(t) \/ SubmitFailed(t)
      PROVE  CountInv'
  <2>1. /\ exec[t] \in ExecAlive
        /\ \E e \in ExecLost : exec' = [exec EXCEPT ![t] = e]
        /\ UNCHANGED <<completed, failed>>
    BY <1>7, Frames
  <2> QED  BY <1>2, <2>1 DEF TypeOK
<1>8. CASE Exit
  BY <1>2, <1>8 DEF Exit, TypeOK
<1>9. CASE UNCHANGED <<completed, failed, exec>>
  BY <1>2, <1>9
<1>10. ASSUME NEW q \in requests, Coordinator(q) \/ LoseRequest(q)
       PROVE  UNCHANGED <<completed, failed, exec>>
  BY <1>10 DEF LoseRequest, Coordinator, ServeGet, ServeMark, ServeReport, Answer
<1>11. CtrlC \/ DropInner \/ UNCHANGED vars => UNCHANGED <<completed, failed, exec>>
  BY DEF CtrlC, DropInner, vars
<1> QED
  BY <1>1, <1>3, <1>4, <1>5, <1>6, <1>7, <1>8, <1>9, <1>10, <1>11
     DEF Next, PollTask, ExecTask, Terminated

------------------------------------------------------------------------------
(* The inductive invariant and what follows from it. *)

LEMMA InvInit == Init => Inv
  BY TypeInit, LaunchInit, ReportInit, CountInit DEF Inv

LEMMA InvStep == Inv /\ [Next]_vars => Inv'
  BY TypeStep, LaunchStep, ReportStep, CountStep DEF Inv, ReportInv

(* Every reachable state satisfies the inductive invariant. *)
THEOREM Invariance == Spec => []Inv
  BY InvInit, InvStep, PTL DEF Spec

(* Types: no task, call or report leaves its state space. *)
THEOREM TypeCorrect == Spec => []TypeOK
<1>1. Inv => TypeOK
  BY DEF Inv
<1> QED  BY <1>1, Invariance, PTL

(* Every stored report says what its task found, about the test it took. *)
THEOREM ReportsFaithful == Spec => []ReportFaithful
<1>1. Inv => ReportFaithful
  BY DEF Inv
<1> QED  BY <1>1, Invariance, PTL

\* A counted task has its own report with the verdict it is counted under,
\* so counted tasks map injectively into stored reports.
LEMMA CountedAtMostStored ==
  ASSUME Inv, NEW state \in Counted, NEW verdict \in BOOLEAN,
         verdict <=> state = "completed"
  PROVE  Cardinality(With(state)) <= Cardinality(Stored(verdict))
<1> DEFINE owner == [r \in Stored(verdict) |-> r.task]
           pick  == [t \in With(state) |-> CHOOSE r \in Stored(verdict) : r.task = t]
<1> USE DEF Inv
<1>1. \A r \in reports : r \in Report
  BY DEF TypeOK
<1>2. \A r, s \in reports : r.task = s.task => r = s
  <2> SUFFICES ASSUME NEW r \in reports, NEW s \in reports, r.task = s.task
               PROVE  r = s
    OBVIOUS
  <2>1. r.job = s.job /\ (r.success <=> s.success)
    BY DEF ReportFaithful
  <2>2. r.success = s.success
    BY <1>1, <2>1 DEF Report
  <2> QED  BY <1>1, <2>1, <2>2 DEF Report
<1>3. owner \in Injection(Stored(verdict), Tasks)
  BY <1>1, <1>2 DEF Injection, IsInjective, Stored, Report
<1>4. IsFiniteSet(Stored(verdict))
  BY <1>3, TasksFinite, FS_Injection
<1>5. ASSUME NEW t \in With(state)
      PROVE  \E r \in Stored(verdict) : r.task = t
  <2>1. PICK r \in reports : r.task = t
    BY <1>5 DEF AckInv, With
  <2>2. r.success <=> state = "completed"
    BY <1>5, <2>1 DEF AckInv, With, ReportFaithful
  <2>3. r.success = verdict
    BY <1>1, <2>2 DEF Report
  <2> QED  BY <2>1, <2>3 DEF Stored
<1>6. \A t \in With(state) : pick[t] \in Stored(verdict) /\ pick[t].task = t
  BY <1>5
<1>7. pick \in Injection(With(state), Stored(verdict))
  BY <1>6 DEF Injection, IsInjective
<1> QED  BY <1>4, <1>7, FS_Injection

(* The statistics claim no test the coordinator has no report of. *)
THEOREM StatsAreBacked == Spec => []StatsBacked
<1>1. Inv => StatsBacked
  BY CountedAtMostStored DEF Inv, CountInv, StatsBacked
<1> QED  BY <1>1, Invariance, PTL

(* A dropped loop launches no test any more. *)
THEOREM NoLaunchOnceDropped == Spec => NoLaunchAfterDrop
<1> DEFINE Quiet == (phase \in {"dropped", "exited"}) =>
                       \A t \in Tasks : exec[t] = "none" => exec'[t] = "none"
<1>1. ASSUME Inv, [Next]_vars PROVE Quiet
  <2> SUFFICES ASSUME phase \in {"dropped", "exited"}, NEW t \in Tasks, exec[t] = "none"
               PROVE  exec'[t] = "none"
    OBVIOUS
  <2> USE <1>1 DEF Inv
  <2>1. poll[t] # "marking"
    BY DEF LaunchInv
  <2>2. ASSUME NEW u \in Tasks, Tick(u) \/ GetReplied(u)
        PROVE  exec' = exec
    BY <2>2 DEF Tick, GetReplied
  <2>3. ASSUME NEW u \in Tasks, PollTask(u) PROVE exec'[t] = exec[t]
    BY <2>1, <2>3, Frames DEF PollTask, GetReplied, TypeOK
  <2>4. ASSUME NEW u \in Tasks, ExecTask(u) PROVE exec'[t] = exec[t]
    BY <2>4 DEF ExecTask, PerformReturns, PerformPanics, SubmitReplied, SubmitFailed,
                ExecShutdown, CountResult, TypeOK
  <2>5. CASE Exit
    BY <2>5 DEF Exit
  <2>6. ASSUME NEW q \in requests, Coordinator(q) PROVE exec' = exec
    BY <2>6 DEF Coordinator, ServeGet, ServeMark, ServeReport, Answer
  <2> QED
    BY <2>2, <2>3, <2>4, <2>5, <2>6 DEF Next, LoseRequest, CtrlC, DropInner, Terminated, vars
<1> QED  BY <1>1, Invariance, PTL DEF Spec, NoLaunchAfterDrop

------------------------------------------------------------------------------
(* The shutdown is no verdict. *)

\* The endpoint is closed, and nothing of t's test got out before.
ShutOut(t) ==
    /\ phase # "up"
    /\ Unrecorded(t)
    /\ \A q \in requests : q.kind = "report" => q.task # t

LEMMA ShutOutStep ==
  ASSUME Inv, [Next]_vars, NEW t \in Tasks, ShutOut(t)
  PROVE  ShutOut(t)'
<1>0. TypeOK /\ LaunchInv
  BY DEF Inv
<1> USE DEF ShutOut, Unrecorded
<1>1. ASSUME phase' # "up", requests' \subseteq requests, reports' = reports,
             exec'[t] \notin Counted
      PROVE  ShutOut(t)'
  BY <1>1
<1>2. ASSUME NEW u \in Tasks, Tick(u) \/ PollTask(u) PROVE ShutOut(t)'
  <2>1. UNCHANGED <<phase, reports, requests>>
    BY <1>2 DEF Tick, PollTask, GetReplied, GetFailed, MarkReplied, MarkFailed, Launch,
                PollTimeout, AwaitReturns, Reap, Call, coordVars
  <2>2. exec'[t] = exec[t] \/ exec'[t] = "running"
    BY <1>0, <1>2 DEF Tick, PollTask, GetReplied, GetFailed, MarkReplied, MarkFailed, Launch,
                      PollTimeout, AwaitReturns, Reap, TypeOK
  <2> QED  BY <1>1, <2>1, <2>2
<1>3. ASSUME NEW u \in Tasks, ExecTask(u) PROVE ShutOut(t)'
  <2>1. UNCHANGED <<phase, reports, requests>>
    BY <1>3 DEF ExecTask, PerformReturns, PerformPanics, SubmitReplied, SubmitFailed,
                ExecShutdown, CountResult, Call, coordVars
  <2>2. ~SubmitReplied(t)
    BY DEF SubmitReplied, Replied, Inv, AckInv
  <2>3. exec'[t] = exec[t] \/ exec'[t] \in {"submitting"} \cup ExecLost
    BY <1>0, <1>3, <2>2 DEF ExecTask, PerformReturns, PerformPanics, SubmitReplied,
                            SubmitFailed, ExecShutdown, CountResult, TypeOK
  <2> QED  BY <1>1, <2>1, <2>3
<1>4. ASSUME NEW q \in requests, ServeGet(q) \/ ServeMark(q) \/ LoseRequest(q)
      PROVE  ShutOut(t)'
  BY <1>1, <1>4 DEF ServeGet, ServeMark, LoseRequest, Answer, coordVars
<1>5. ASSUME NEW q \in requests, ServeReport(q) PROVE ShutOut(t)'
  <2>1. /\ q.task # t /\ requests' = requests \ {q}
        /\ reports' = reports \cup {Filed(q)} /\ UNCHANGED <<phase, exec>>
    BY <1>5 DEF ServeReport, Answer, Filed
  <2>2. Filed(q).task # t
    BY <2>1 DEF Filed
  <2> QED  BY <2>1, <2>2
<1>6. CASE CtrlC \/ DropInner \/ Exit
  BY <1>0, <1>1, <1>6 DEF CtrlC, DropInner, Exit, TypeOK, coordVars
<1>7. CASE UNCHANGED vars
  BY <1>1, <1>7 DEF vars, coordVars
<1> QED
  BY <1>2, <1>3, <1>4, <1>5, <1>6, <1>7 DEF Next, Coordinator, Terminated

\* A test the endpoint was closed under is neither reported nor counted.
THEOREM ShutdownIsNoVerdict == Spec => NoVerdictByShutdown
<1>1. ASSUME NEW t \in Tasks
      PROVE  Spec => [](phase # "up" /\ exec[t] \in {"none", "running"} => []Unrecorded(t))
  <2> DEFINE Unfinished == phase # "up" /\ exec[t] \in {"none", "running"}
             Nothing    == Unrecorded(t)
             Out        == ShutOut(t)
  <2>1. Inv /\ Unfinished => Out
    BY DEF Inv, WireInv, ReportFaithful, ShutOut, Unrecorded
  <2>2. Inv /\ Out /\ [Next]_vars => Out'
    BY ShutOutStep
  <2>3. Out => Nothing
    BY DEF ShutOut
  <2> HIDE DEF Unfinished, Nothing, Out
  <2>4. Spec => [](Unfinished => []Nothing)
    BY <2>1, <2>2, <2>3, Invariance, PTL DEF Spec
  <2> QED  BY <2>4 DEF Unfinished, Nothing
<1> QED  BY <1>1 DEF NoVerdictByShutdown

------------------------------------------------------------------------------
(* The loop implements the ledger. *)

LEMMA LedgerInit == Init => Ledger!Init
  BY DEF Init, Ledger!Init

LEMMA LedgerStep == Inv /\ [Next]_vars => [Ledger!Next]_Ledger!vars
<1> SUFFICES ASSUME Inv, [Next]_vars PROVE [Ledger!Next]_Ledger!vars
  OBVIOUS
<1> USE DEF Inv
<1> DEFINE countedTasks == {t \in Tasks : exec[t] \in Counted}
<1>1. ASSUME NEW q \in requests, ServeReport(q) PROVE Ledger!Next
  <2>1. /\ \A r \in reports : r.task # q.task
        /\ reports' = reports \cup {Filed(q)}
        /\ UNCHANGED <<exec, completed, failed>>
    BY <1>1, ServeFrame DEF WireInv
  <2>2. Filed(q) \in Ledger!Report /\ Filed(q).task = q.task
    BY <1>1, ServeFrame, RequestIs DEF Ledger!Report, Filed
  <2>3. Ledger!Store(Filed(q))
    BY <2>1, <2>2 DEF Ledger!Store
  <2> QED  BY <2>2, <2>3 DEF Ledger!Next
<1>2. ASSUME NEW t \in Tasks, SubmitReplied(t) PROVE Ledger!Next
  <2>1. PICK r \in reports : r.task = t
    BY <1>2 DEF SubmitReplied, Replied, AckInv
  <2>2. r \in Ledger!Report /\ (r.success <=> result[t] = "success")
    BY <2>1 DEF TypeOK, Report, Ledger!Report, ReportFaithful
  <2>3. exec[t] = "submitting" /\ UNCHANGED reports
    BY <1>2 DEF SubmitReplied, CountResult
  <2>4. \/ /\ result[t] = "success"
           /\ exec' = [exec EXCEPT ![t] = "completed"]
           /\ completed' = completed + 1 /\ failed' = failed
        \/ /\ result[t] # "success"
           /\ exec' = [exec EXCEPT ![t] = "failed"]
           /\ completed' = completed /\ failed' = failed + 1
    BY <1>2 DEF SubmitReplied, CountResult
  <2>5. t \notin countedTasks /\ countedTasks' = countedTasks \cup {t}
    BY <2>3, <2>4 DEF TypeOK
  <2>6. Ledger!Count(r)
    BY <2>1, <2>2, <2>3, <2>4, <2>5 DEF Ledger!Count
  <2> QED  BY <2>2, <2>6 DEF Ledger!Next
<1>3. ASSUME UNCHANGED <<reports, completed, failed>>,
             \A t \in Tasks : exec'[t] # exec[t] => {exec[t], exec'[t]} \cap Counted = {}
      PROVE  UNCHANGED Ledger!vars
  <2>1. countedTasks' = countedTasks
    BY <1>3
  <2> QED  BY <1>3, <2>1 DEF Ledger!vars
<1>4. ASSUME NEW t \in Tasks, Tick(t) \/ GetReplied(t)
      PROVE  UNCHANGED <<reports, completed, failed, exec>>
  BY <1>4 DEF Tick, GetReplied
<1>5. ASSUME NEW t \in Tasks, GetFailed(t) \/ PollTimeout(t) \/ AwaitReturns(t) \/ Reap(t)
      PROVE  UNCHANGED <<reports, completed, failed, exec>>
  BY <1>5, Frames
<1>6. ASSUME NEW t \in Tasks, MarkReplied(t) \/ MarkFailed(t)
      PROVE  UNCHANGED Ledger!vars
  <2>1. exec[t] = "none" /\ exec' = [exec EXCEPT ![t] = "running"]
        /\ UNCHANGED <<reports, completed, failed>>
    BY <1>6, Frames DEF LaunchInv
  <2> QED  BY <1>3, <2>1 DEF TypeOK
<1>7. ASSUME NEW t \in Tasks, NEW verdict \in {"success", "error"},
             PerformReturns(t, verdict)
      PROVE  UNCHANGED Ledger!vars
  BY <1>3, <1>7 DEF PerformReturns, TypeOK
<1>8. ASSUME NEW t \in Tasks, PerformPanics(t) \/ ExecShutdown(t) \/ SubmitFailed(t)
      PROVE  UNCHANGED Ledger!vars
  <2>1. /\ exec[t] \in ExecAlive
        /\ \E e \in ExecLost : exec' = [exec EXCEPT ![t] = e]
        /\ UNCHANGED <<reports, completed, failed>>
    BY <1>8, Frames
  <2> QED  BY <1>3, <2>1 DEF TypeOK
<1>9. CASE Exit
  BY <1>3, <1>9 DEF Exit, TypeOK
<1>10. CASE UNCHANGED <<reports, completed, failed, exec>>
  BY <1>3, <1>10
<1>11. ASSUME NEW q \in requests, ServeGet(q) \/ ServeMark(q) \/ LoseRequest(q)
       PROVE  UNCHANGED <<reports, completed, failed, exec>>
  BY <1>11, ServeFrame DEF LoseRequest
<1>12. CtrlC \/ DropInner \/ UNCHANGED vars => UNCHANGED <<reports, completed, failed, exec>>
  BY DEF CtrlC, DropInner, vars
<1> QED
  BY <1>1, <1>2, <1>4, <1>5, <1>6, <1>7, <1>8, <1>9, <1>10, <1>11, <1>12
     DEF Next, PollTask, ExecTask, Coordinator, Terminated

(* Refinement: seen through its reports and statistics, the loop is a ledger. *)
THEOREM LoopIsLedger == Spec => ImplementsLedger
<1>1. Spec => Ledger!Spec
  BY LedgerInit, LedgerStep, Invariance, PTL DEF Spec, Ledger!Spec
<1> QED  BY <1>1 DEF ImplementsLedger

------------------------------------------------------------------------------
(* No started test is forgotten. *)

\* A task takes one assignment, once.
TakeInv ==
    /\ \A t \in Tasks : poll[t] \in {"unborn", "getting"} => job[t] = NoJob
    /\ \A q \in requests : q.kind = "mark" => job[q.task] = q.job

\* What the coordinator stored it holds for reported.
StoredInv == \A r \in reports : status[r.job] = "reported"

\* A task holds its assignment until it is reported or lost.
HeldInv ==
    \A t \in Tasks : job[t] \in Assignments =>
        \/ poll[t] = "marking" \/ exec[t] \in ExecAlive \/ Lost(t)
        \/ status[job[t]] = "reported"

OwnedInv ==
    \A a \in Assignments : status[a] = "started" => \E t \in Tasks : job[t] = a

\* A test the coordinator holds for started is in the hands of a task that
\* still marks, runs or submits it, or that was lost.
StartedIsHeld ==
    \A a \in Assignments : status[a] = "started" =>
        \E t \in Tasks :
            /\ job[t] = a
            /\ poll[t] = "marking" \/ exec[t] \in ExecAlive \/ Lost(t)

HoldInv == TakeInv /\ StoredInv /\ HeldInv /\ OwnedInv

LEMMA HoldInit == Init => HoldInv
  BY NoJobAssumption DEF Init, HoldInv, TakeInv, StoredInv, HeldInv, OwnedInv

\* What the hold on an assignment depends on.
HoldVars == <<poll, exec, job, requests, status, reports>>

\* A step that leaves jobs, reports and statuses alone keeps the invariant when
\* no task lets go.
LEMMA HoldKept ==
  ASSUME HoldInv, UNCHANGED <<job, status, reports>>,
         \A t \in Tasks : poll'[t] \in {"unborn", "getting"} => job[t] = NoJob,
         \A q \in requests' : q.kind = "mark" => q \in requests,
         \A t \in Tasks :
             job[t] \in Assignments /\ (poll[t] = "marking" \/ exec[t] \in ExecAlive \/ Lost(t)) =>
                 \/ poll'[t] = "marking" \/ exec'[t] \in ExecAlive \/ Lost(t)'
                 \/ status[job[t]] = "reported"
  PROVE  HoldInv'
  BY DEF HoldInv, TakeInv, StoredInv, HeldInv, OwnedInv

LEMMA HoldStep == Inv /\ HoldInv /\ [Next]_vars => HoldInv'
<1> SUFFICES ASSUME Inv, HoldInv, [Next]_vars PROVE HoldInv'
  OBVIOUS
<1> USE DEF Inv
<1>1. ASSUME NEW t \in Tasks, Tick(t) PROVE HoldInv'
  <2>1. /\ poll[t] = "unborn" /\ poll' = [poll EXCEPT ![t] = "getting"]
        /\ \A q \in requests' : q.kind = "mark" => q \in requests
        /\ UNCHANGED <<exec, job, status, reports>>
    BY <1>1 DEF Tick, Call, GetCall
  <2>2. \A u \in Tasks : Lost(u) => Lost(u)'
    BY <2>1 DEF Lost, TypeOK
  <2> QED  BY <2>1, <2>2, HoldKept DEF HoldInv, TakeInv, TypeOK
<1>2. ASSUME NEW t \in Tasks, GetReplied(t) PROVE HoldInv'
  <2>1. PICK r \in replies :
          /\ r.task = t /\ r.kind = "get"
          /\ \/ /\ r.val = NoJob
                /\ poll' = [poll EXCEPT ![t] = "done"]
                /\ UNCHANGED <<job, requests>>
             \/ /\ r.val # NoJob
                /\ job' = [job EXCEPT ![t] = r.val]
                /\ poll' = [poll EXCEPT ![t] = "marking"]
                /\ Call(MarkCall(t))
    BY <1>2 DEF GetReplied
  <2>2. r.val \in Assignments \cup {NoJob}
    BY <2>1 DEF TypeOK, Reply
  <2>3. /\ poll[t] = "getting" /\ job[t] = NoJob
        /\ UNCHANGED <<exec, status, reports>>
    BY <1>2 DEF GetReplied, HoldInv, TakeInv
  <2>4. \A u \in Tasks \ {t} : poll'[u] = poll[u] /\ job'[u] = job[u] /\ (Lost(u) => Lost(u)')
    BY <2>1, <2>3 DEF TypeOK, Lost
  <2>5. CASE job' = job /\ requests' = requests /\ poll' = [poll EXCEPT ![t] = "done"]
    BY <2>3, <2>4, <2>5, NoJobAssumption
       DEF HoldInv, TakeInv, StoredInv, HeldInv, OwnedInv, TypeOK
  <2>6. CASE r.val # NoJob /\ job' = [job EXCEPT ![t] = r.val]
             /\ poll' = [poll EXCEPT ![t] = "marking"] /\ Call(MarkCall(t))
    <3>1. job'[t] \in Assignments /\ poll'[t] = "marking"
      BY <2>2, <2>6 DEF TypeOK
    <3>2. requests' \subseteq requests \cup {MarkCall(t)}
      BY <2>6 DEF Call
    <3>3. ASSUME NEW q \in requests, q.kind = "mark"
          PROVE  q.task \in Tasks \ {t}
      BY <2>3, <3>3, RequestIs, NoJobAssumption DEF HoldInv, TakeInv
    <3>4. MarkCall(t).task = t /\ MarkCall(t).job = job'[t]
      BY DEF MarkCall
    <3>5. TakeInv'
      BY <2>4, <3>1, <3>2, <3>3, <3>4 DEF HoldInv, TakeInv
    <3>6. HeldInv'
      BY <2>3, <2>4, <3>1 DEF HoldInv, HeldInv
    <3>7. OwnedInv'
      BY <2>3, <2>4, NoJobAssumption DEF HoldInv, OwnedInv
    <3> QED  BY <2>3, <3>5, <3>6, <3>7 DEF HoldInv, StoredInv
  <2> QED  BY <2>1, <2>5, <2>6
<1>3. ASSUME NEW t \in Tasks, GetFailed(t) \/ PollTimeout(t) \/ AwaitReturns(t) \/ Reap(t)
      PROVE  HoldInv'
  <2>1. UNCHANGED <<exec, job, requests, status, reports>>
    BY <1>3 DEF GetFailed, PollTimeout, AwaitReturns, Reap, coordVars
  <2>2. \/ poll[t] = "getting" /\ poll' = [poll EXCEPT ![t] = "done"]
        \/ poll[t] \in InPoll /\ poll' = [poll EXCEPT ![t] = "timedout"]
        \/ poll[t] = "awaiting" /\ poll' = [poll EXCEPT ![t] = "done"]
        \/ poll[t] = "done" /\ poll' = [poll EXCEPT ![t] = "reaped"]
        \/ poll[t] = "timedout" /\ poll' = [poll EXCEPT ![t] = "expired"]
    BY <1>3 DEF GetFailed, PollTimeout, AwaitReturns, Reap
  <2>3. \A u \in Tasks \ {t} : poll'[u] = poll[u]
    BY <2>2 DEF TypeOK
  <2>4. poll'[t] \in {"done", "timedout", "reaped", "expired"}
    BY <2>2 DEF TypeOK
  <2>5. poll[t] = "marking" => poll'[t] = "timedout" /\ exec[t] = "none"
    BY <2>2 DEF TypeOK, LaunchInv
  <2>6. \A u \in Tasks : Lost(u) => Lost(u)'
    BY <2>1, <2>2, <2>3 DEF Lost, TypeOK
  <2>7. poll[t] = "marking" => Lost(t)'
    BY <2>1, <2>5 DEF Lost
  <2> QED  BY <2>1, <2>3, <2>4, <2>6, <2>7, HoldKept DEF HoldInv, TakeInv
<1>4. ASSUME NEW t \in Tasks, MarkReplied(t) \/ MarkFailed(t) PROVE HoldInv'
  <2>1. /\ poll[t] = "marking" /\ poll' = [poll EXCEPT ![t] = "awaiting"]
        /\ exec' = [exec EXCEPT ![t] = "running"]
        /\ UNCHANGED <<job, requests, status, reports>>
    BY <1>4 DEF MarkReplied, MarkFailed, Launch, coordVars
  <2>2. \A u \in Tasks \ {t} : poll'[u] = poll[u] /\ exec'[u] = exec[u] /\ (Lost(u) => Lost(u)')
    BY <2>1 DEF Lost, TypeOK
  <2>3. poll'[t] = "awaiting" /\ exec'[t] \in ExecAlive
    BY <2>1 DEF TypeOK
  <2> QED  BY <2>1, <2>2, <2>3, HoldKept DEF HoldInv, TakeInv
<1>5. ASSUME NEW t \in Tasks, NEW verdict \in {"success", "error"}, PerformReturns(t, verdict)
      PROVE  HoldInv'
  <2>1. /\ exec' = [exec EXCEPT ![t] = "submitting"]
        /\ exec[t] = "running"
        /\ \A q \in requests' : q.kind = "mark" => q \in requests
        /\ UNCHANGED <<poll, job, status, reports>>
    BY <1>5 DEF PerformReturns, Call, ReportCall, coordVars
  <2>2. \A u \in Tasks \ {t} : exec'[u] = exec[u] /\ (Lost(u) => Lost(u)')
    BY <2>1 DEF Lost, TypeOK
  <2>3. exec'[t] \in ExecAlive
    BY <2>1 DEF TypeOK
  <2> QED  BY <2>1, <2>2, <2>3, HoldKept DEF HoldInv, TakeInv
<1>6. ASSUME NEW t \in Tasks, PerformPanics(t) \/ ExecShutdown(t) \/ SubmitFailed(t)
      PROVE  HoldInv'
  <2>1. /\ exec' = [exec EXCEPT ![t] = exec'[t]] /\ exec'[t] \in ExecLost
        /\ UNCHANGED <<poll, job, requests, status, reports>>
    BY <1>6 DEF PerformPanics, ExecShutdown, SubmitFailed, TypeOK, coordVars
  <2>2. \A u \in Tasks \ {t} : exec'[u] = exec[u] /\ (Lost(u) => Lost(u)')
    BY <1>6 DEF PerformPanics, ExecShutdown, SubmitFailed, TypeOK, Lost
  <2>3. Lost(t)'
    BY <2>1 DEF Lost
  <2> QED  BY <2>1, <2>2, <2>3, HoldKept DEF HoldInv, TakeInv
<1>7. ASSUME NEW t \in Tasks, SubmitReplied(t) PROVE HoldInv'
  <2>1. /\ exec[t] = "submitting" /\ UNCHANGED <<poll, job, requests, status, reports>>
        /\ \A u \in Tasks \ {t} : exec'[u] = exec[u] /\ (Lost(u) => Lost(u)')
    BY <1>7 DEF SubmitReplied, CountResult, coordVars, TypeOK, Lost
  <2>2. PICK r \in reports : r.task = t
    BY <1>7 DEF SubmitReplied, Replied, AckInv
  <2>3. status[job[t]] = "reported"
    BY <2>2 DEF ReportFaithful, HoldInv, StoredInv
  <2> QED  BY <2>1, <2>3, HoldKept DEF HoldInv, TakeInv
<1>8. ASSUME NEW q \in requests, ServeGet(q) PROVE HoldInv'
  <2>1. UNCHANGED <<poll, exec, job, status, reports>> /\ requests' \subseteq requests
    BY <1>8 DEF ServeGet, Answer, coordVars, clientVars
  <2>2. \A u \in Tasks : Lost(u)' <=> Lost(u)
    BY <2>1 DEF Lost
  <2> QED  BY <2>1, <2>2, HoldKept DEF HoldInv, TakeInv
<1>9. ASSUME NEW q \in requests, ServeMark(q) PROVE HoldInv'
  <2>1. /\ UNCHANGED <<poll, exec, job, reports>> /\ requests' \subseteq requests
        /\ q.task \in Tasks /\ job[q.task] = q.job
        /\ status' = IF status[q.job] = "pending"
                     THEN [status EXCEPT ![q.job] = "started"] ELSE status
    BY <1>9, RequestIs DEF ServeMark, Answer, clientVars, HoldInv, TakeInv
  <2>2. \A a \in Assignments : status'[a] # status[a] => a = job[q.task] /\ status[a] = "pending"
    BY <2>1 DEF TypeOK
  <2>3. \A r \in reports : r.job \in Assignments
    BY DEF TypeOK, Report
  <2>4. StoredInv'
    BY <2>1, <2>2, <2>3 DEF HoldInv, StoredInv
  <2>5. \A u \in Tasks : Lost(u)' <=> Lost(u)
    BY <2>1 DEF Lost
  <2>6. HeldInv'
    BY <2>1, <2>2, <2>5 DEF HoldInv, HeldInv
  <2>7. OwnedInv'
    BY <2>1, <2>2 DEF HoldInv, OwnedInv
  <2> QED  BY <2>1, <2>4, <2>6, <2>7 DEF HoldInv, TakeInv
<1>10. ASSUME NEW q \in requests, ServeReport(q) PROVE HoldInv'
  <2>1. /\ UNCHANGED <<poll, exec, job>> /\ requests' \subseteq requests
        /\ q.job \in Assignments
        /\ reports' = reports \cup {Filed(q)}
        /\ status' = [status EXCEPT ![q.job] = "reported"]
    BY <1>10, RequestIs DEF ServeReport, Answer, clientVars, Filed
  <2>2. \A a \in Assignments : status'[a] = IF a = q.job THEN "reported" ELSE status[a]
    BY <2>1 DEF TypeOK
  <2>3. Filed(q).job = q.job
    BY DEF Filed
  <2>4. \A r \in reports : r.job \in Assignments
    BY DEF TypeOK, Report
  <2>5. StoredInv'
    BY <2>1, <2>2, <2>3, <2>4 DEF HoldInv, StoredInv
  <2>6. \A u \in Tasks : Lost(u)' <=> Lost(u)
    BY <2>1 DEF Lost
  <2>7. HeldInv'
    BY <2>1, <2>2, <2>6 DEF HoldInv, HeldInv
  <2>8. OwnedInv'
    BY <2>1, <2>2 DEF HoldInv, OwnedInv
  <2> QED  BY <2>1, <2>5, <2>7, <2>8 DEF HoldInv, TakeInv
<1>11. ASSUME NEW r \in requests, LoseRequest(r) PROVE HoldInv'
  <2>1. UNCHANGED <<poll, exec, job, status, reports>> /\ requests' \subseteq requests
    BY <1>11 DEF LoseRequest, coordVars, clientVars
  <2>2. \A u \in Tasks : Lost(u)' <=> Lost(u)
    BY <2>1 DEF Lost
  <2> QED  BY <2>1, <2>2, HoldKept DEF HoldInv, TakeInv
<1>12. CASE DropInner
  <2>1. /\ \A u \in Tasks : poll'[u] = IF poll[u] \in {"unborn"} \cup PollGone
                                       THEN poll[u] ELSE "aborted"
        /\ UNCHANGED <<exec, job, requests, status, reports>>
    BY <1>12 DEF DropInner, coordVars
  <2>2. \A u \in Tasks : (poll[u] = "marking" => exec[u] = "none")
    BY DEF LaunchInv
  <2>3. \A u \in Tasks : Lost(u) \/ poll[u] = "marking" => Lost(u)'
    BY <2>1, <2>2 DEF Lost
  <2> QED  BY <2>1, <2>3, HoldKept DEF HoldInv, TakeInv
<1>13. CASE Exit
  <2>1. /\ \A u \in Tasks : exec'[u] = IF exec[u] \in ExecAlive THEN "killed" ELSE exec[u]
        /\ UNCHANGED <<poll, job, requests, status, reports>>
    BY <1>13 DEF Exit, coordVars
  <2>2. \A u \in Tasks : Lost(u) \/ exec[u] \in ExecAlive => Lost(u)'
    BY <2>1 DEF Lost
  <2> QED  BY <2>1, <2>2, HoldKept DEF HoldInv, TakeInv
<1>14. CASE UNCHANGED HoldVars
  <2>1. \A u \in Tasks : Lost(u)' <=> Lost(u)
    BY <1>14 DEF HoldVars, Lost
  <2> QED  BY <1>14, <2>1, HoldKept DEF HoldVars, HoldInv, TakeInv
<1>15. CtrlC \/ UNCHANGED vars => UNCHANGED HoldVars
  BY DEF CtrlC, vars, HoldVars
<1> QED
  BY <1>1, <1>2, <1>3, <1>4, <1>5, <1>6, <1>7, <1>8, <1>9, <1>10, <1>11, <1>12, <1>13, <1>14,
     <1>15 DEF Next, PollTask, ExecTask, Coordinator, Terminated

\* The invariant of who holds what.
LEMMA HoldInvariance == Spec => []HoldInv
  BY HoldInit, HoldStep, Invariance, PTL DEF Spec

\* A test the coordinator was told has started is never forgotten: some task
\* has it in hand, or lost it in one of the ways StartedIsSettled names.
THEOREM StartedNotForgotten == Spec => []StartedIsHeld
<1>1. HoldInv => StartedIsHeld
  <2> SUFFICES ASSUME HoldInv, NEW a \in Assignments, status[a] = "started"
               PROVE  \E t \in Tasks :
                        /\ job[t] = a
                        /\ poll[t] = "marking" \/ exec[t] \in ExecAlive \/ Lost(t)
    BY DEF StartedIsHeld
  <2>1. PICK t \in Tasks : job[t] = a
    BY DEF HoldInv, OwnedInv
  <2>2. status[job[t]] # "reported"
    BY <2>1
  <2> QED  BY <2>1, <2>2 DEF HoldInv, HeldInv
<1> QED  BY <1>1, HoldInvariance, PTL

------------------------------------------------------------------------------
(* The tasks end. *)

\* A polling task in the set waits for a call, for the loop that reaps it, or
\* for an execution task that was spawned; an execution task is alive only in
\* a live process.
TasksGoOn ==
    \A t \in Tasks :
        /\ poll[t] = "awaiting" => exec[t] # "none"
        /\ poll[t] \in InPoll \cup {"awaiting"} \cup PollEnded => phase \in {"up", "closing"}
        /\ exec[t] \in ExecAlive => phase # "exited"

AliveInv ==
    \A t \in Tasks :
        /\ poll[t] = "awaiting" => exec[t] # "none"
        /\ exec[t] \in ExecAlive => phase # "exited"

\* What the process and the tasks of tick t have left to go through.
PhaseLeft ==
    CASE phase = "up"      -> 3
      [] phase = "closing" -> 2
      [] phase = "dropped" -> 1
      [] phase = "exited"  -> 0

PollLeft(t) ==
    CASE poll[t] = "unborn"    -> 5
      [] poll[t] = "getting"   -> 4
      [] poll[t] = "marking"   -> 3
      [] poll[t] = "awaiting"  -> 2
      [] poll[t] \in PollEnded -> 1
      [] poll[t] \in PollGone  -> 0

ExecLeft(t) ==
    CASE exec[t] = "none"       -> 3
      [] exec[t] = "running"    -> 2
      [] exec[t] = "submitting" -> 1
      [] exec[t] \in Counted \cup ExecLost -> 0

LeftBounds ==
    /\ PhaseLeft \in 0..3
    /\ \A t \in Tasks : PollLeft(t) \in 0..5 /\ ExecLeft(t) \in 0..3

\* Nothing goes back: a step of the client takes something away from what is
\* left of it, and any other takes a call off the wire.
NothingGoesBack ==
    /\ PhaseLeft' <= PhaseLeft
    /\ \A t \in Tasks : PollLeft(t)' <= PollLeft(t) /\ ExecLeft(t)' <= ExecLeft(t)

SomethingIsDone ==
    \/ PhaseLeft' < PhaseLeft
    \/ \E t \in Tasks : PollLeft(t)' < PollLeft(t) \/ ExecLeft(t)' < ExecLeft(t)

MovesOn ==
    \/ NothingGoesBack /\ SomethingIsDone
    \/ UNCHANGED clientVars /\ \E r \in requests : requests' = requests \ {r}

LEMMA PhaseLeftIs ==
  ASSUME TypeOK, TypeOK'
  PROVE  /\ PhaseLeft = IF phase = "up" THEN 3 ELSE IF phase = "closing" THEN 2
                        ELSE IF phase = "dropped" THEN 1 ELSE 0
         /\ PhaseLeft' = IF phase' = "up" THEN 3 ELSE IF phase' = "closing" THEN 2
                         ELSE IF phase' = "dropped" THEN 1 ELSE 0
  BY DEF TypeOK, PhaseLeft

LEMMA PollLeftIs ==
  ASSUME TypeOK, TypeOK', NEW t \in Tasks
  PROVE  /\ PollLeft(t) = IF poll[t] = "unborn" THEN 5 ELSE IF poll[t] = "getting" THEN 4
                          ELSE IF poll[t] = "marking" THEN 3 ELSE IF poll[t] = "awaiting" THEN 2
                          ELSE IF poll[t] \in PollEnded THEN 1 ELSE 0
         /\ PollLeft(t)' = IF poll'[t] = "unborn" THEN 5 ELSE IF poll'[t] = "getting" THEN 4
                           ELSE IF poll'[t] = "marking" THEN 3
                           ELSE IF poll'[t] = "awaiting" THEN 2
                           ELSE IF poll'[t] \in PollEnded THEN 1 ELSE 0
  BY DEF TypeOK, PollLeft

LEMMA ExecLeftIs ==
  ASSUME TypeOK, TypeOK', NEW t \in Tasks
  PROVE  /\ ExecLeft(t) = IF exec[t] = "none" THEN 3 ELSE IF exec[t] = "running" THEN 2
                          ELSE IF exec[t] = "submitting" THEN 1 ELSE 0
         /\ ExecLeft(t)' = IF exec'[t] = "none" THEN 3 ELSE IF exec'[t] = "running" THEN 2
                           ELSE IF exec'[t] = "submitting" THEN 1 ELSE 0
  BY DEF TypeOK, ExecLeft

LEMMA LeftIsBounded == ASSUME TypeOK PROVE LeftBounds
  BY DEF TypeOK, LeftBounds, PhaseLeft, PollLeft, ExecLeft

\* The polling task of tick t takes a step and its execution task none, or the
\* other way round.
LEMMA TaskMovesOn ==
  ASSUME TypeOK, TypeOK', NEW t \in Tasks, phase' = phase,
         PollLeft(t)' <= PollLeft(t), ExecLeft(t)' <= ExecLeft(t),
         PollLeft(t)' < PollLeft(t) \/ ExecLeft(t)' < ExecLeft(t),
         \A u \in Tasks \ {t} : poll'[u] = poll[u] /\ exec'[u] = exec[u]
  PROVE  NothingGoesBack /\ SomethingIsDone
<1>1. \A u \in Tasks \ {t} : PollLeft(u)' <= PollLeft(u) /\ ExecLeft(u)' <= ExecLeft(u)
  BY PollLeftIs, ExecLeftIs
<1>2. PhaseLeft' <= PhaseLeft
  BY PhaseLeftIs
<1> QED  BY <1>1, <1>2 DEF NothingGoesBack, SomethingIsDone

LEMMA StepMovesOn == ASSUME Inv, TypeOK', [Next]_vars PROVE [MovesOn]_vars
<1>0. TypeOK /\ LaunchInv
  BY DEF Inv
<1>1. ASSUME NEW t \in Tasks, Tick(t) \/ PollTask(t) PROVE MovesOn
  <2>1. phase' = phase
    BY <1>1 DEF Tick, PollTask, GetReplied, GetFailed, MarkReplied, MarkFailed, Launch,
                PollTimeout, AwaitReturns, Reap
  <2>2. \A u \in Tasks \ {t} : poll'[u] = poll[u] /\ exec'[u] = exec[u]
    BY <1>0, <1>1 DEF Tick, PollTask, GetReplied, GetFailed, MarkReplied, MarkFailed, Launch,
                PollTimeout, AwaitReturns, Reap, TypeOK
  <2>3. \/ poll[t] = "unborn" /\ poll'[t] = "getting"
        \/ poll[t] = "getting" /\ poll'[t] = "marking"
        \/ poll[t] \in InPoll /\ poll'[t] \in PollEnded
        \/ poll[t] = "marking" /\ poll'[t] = "awaiting"
        \/ poll[t] = "awaiting" /\ poll'[t] = "done"
        \/ poll[t] \in PollEnded /\ poll'[t] \in PollGone
    BY <1>0, <1>1 DEF Tick, PollTask, GetReplied, GetFailed, MarkReplied, MarkFailed, Launch,
                PollTimeout, AwaitReturns, Reap, TypeOK
  <2>4. exec'[t] = exec[t] \/ exec[t] = "none"
    BY <1>0, <1>1 DEF Tick, PollTask, GetReplied, GetFailed, MarkReplied, MarkFailed, Launch,
                PollTimeout, AwaitReturns, Reap, TypeOK, LaunchInv
  <2>5. PollLeft(t)' < PollLeft(t)
    BY <1>0, <2>3, PollLeftIs
  <2>6. ExecLeft(t)' <= ExecLeft(t)
    BY <1>0, <2>4, ExecLeftIs
  <2>7. PollLeft(t)' <= PollLeft(t)
    BY <1>0, <2>3, PollLeftIs
  <2> QED  BY <1>0, <2>1, <2>2, <2>5, <2>6, <2>7, TaskMovesOn DEF MovesOn
<1>2. ASSUME NEW t \in Tasks, ExecTask(t) PROVE MovesOn
  <2>1. UNCHANGED <<phase, poll>>
    BY <1>2 DEF ExecTask, PerformReturns, PerformPanics, SubmitReplied, SubmitFailed,
                ExecShutdown, CountResult
  <2>2. \A u \in Tasks \ {t} : exec'[u] = exec[u]
    BY <1>0, <1>2 DEF ExecTask, PerformReturns, PerformPanics, SubmitReplied, SubmitFailed,
                ExecShutdown, CountResult, TypeOK
  <2>3. \/ exec[t] = "running" /\ exec'[t] = "submitting"
        \/ exec[t] \in ExecAlive /\ exec'[t] \in Counted \cup ExecLost
    BY <1>0, <1>2 DEF ExecTask, PerformReturns, PerformPanics, SubmitReplied, SubmitFailed,
                ExecShutdown, CountResult, TypeOK
  <2>4. ExecLeft(t)' < ExecLeft(t) /\ ExecLeft(t)' <= ExecLeft(t)
    BY <1>0, <2>3, ExecLeftIs
  <2>5. PollLeft(t)' <= PollLeft(t)
    BY <1>0, <2>1, PollLeftIs
  <2> QED  BY <1>0, <2>1, <2>2, <2>4, <2>5, TaskMovesOn DEF MovesOn
<1>3. ASSUME NEW q \in requests, Coordinator(q) PROVE MovesOn
  <2>1. UNCHANGED clientVars /\ \E r \in requests : requests' = requests \ {r}
    BY <1>3 DEF Coordinator, ServeGet, ServeMark, ServeReport, Answer
  <2> QED  BY <2>1 DEF MovesOn
<1>4. ASSUME NEW r \in requests, LoseRequest(r) PROVE MovesOn
  BY <1>4 DEF LoseRequest, MovesOn
<1>5. CASE CtrlC \/ DropInner \/ Exit
  <2>1. PhaseLeft' < PhaseLeft /\ PhaseLeft' <= PhaseLeft
    BY <1>0, <1>5, PhaseLeftIs DEF CtrlC, DropInner, Exit
  <2>2. \A t \in Tasks : poll'[t] = poll[t] \/ poll'[t] \in PollGone
    BY <1>0, <1>5 DEF CtrlC, DropInner, Exit, TypeOK
  <2>3. \A t \in Tasks : exec'[t] = exec[t] \/ exec'[t] \in ExecLost
    BY <1>0, <1>5 DEF CtrlC, DropInner, Exit, TypeOK
  <2>4. \A t \in Tasks : PollLeft(t)' <= PollLeft(t)
    BY <1>0, <2>2, PollLeftIs
  <2>5. \A t \in Tasks : ExecLeft(t)' <= ExecLeft(t)
    BY <1>0, <2>3, ExecLeftIs
  <2> QED  BY <2>1, <2>4, <2>5 DEF MovesOn, NothingGoesBack, SomethingIsDone
<1> QED  BY <1>1, <1>2, <1>3, <1>4, <1>5 DEF Next, Terminated

LEMMA AliveStep == Inv /\ AliveInv /\ [Next]_vars => AliveInv'
<1> SUFFICES ASSUME Inv, AliveInv, [Next]_vars PROVE AliveInv'
  OBVIOUS
<1> USE DEF Inv
<1>1. ASSUME NEW t \in Tasks, Tick(t) \/ PollTask(t) PROVE AliveInv'
  <2>1. CASE MarkReplied(t) \/ MarkFailed(t)
    <3>1. phase # "exited"
      BY <2>1 DEF MarkReplied, MarkFailed, LaunchInv
    <3> QED  BY <2>1, <3>1 DEF MarkReplied, MarkFailed, Launch, AliveInv, TypeOK
  <2>2. CASE ~(MarkReplied(t) \/ MarkFailed(t))
    <3>1. /\ UNCHANGED <<phase, exec>>
          /\ \A u \in Tasks : poll'[u] = "awaiting" => poll[u] = "awaiting"
      BY <1>1, <2>2 DEF Tick, PollTask, GetReplied, GetFailed, PollTimeout, AwaitReturns, Reap,
                        TypeOK
    <3> QED  BY <3>1 DEF AliveInv
  <2> QED  BY <2>1, <2>2
<1>2. ASSUME NEW t \in Tasks, ExecTask(t) PROVE AliveInv'
  <2>1. /\ UNCHANGED <<phase, poll>>
        /\ exec[t] \in ExecAlive
        /\ \E e \in ExecStates \ {"none"} : exec' = [exec EXCEPT ![t] = e]
    BY <1>2 DEF ExecTask, PerformReturns, PerformPanics, SubmitReplied,
                SubmitFailed, ExecShutdown, CountResult
  <2> QED  BY <2>1 DEF AliveInv, TypeOK
<1>3. ASSUME NEW q \in requests, Coordinator(q) PROVE UNCHANGED clientVars
  BY <1>3 DEF Coordinator, ServeGet, ServeMark, ServeReport, Answer
<1>4. CASE CtrlC \/ DropInner \/ Exit
  BY <1>4 DEF CtrlC, DropInner, Exit, AliveInv, TypeOK
<1>5. CASE UNCHANGED clientVars
  BY <1>5 DEF AliveInv
<1> QED  BY <1>1, <1>2, <1>3, <1>4, <1>5 DEF Next, LoseRequest, Terminated, vars

\* No task of the loop is left in a state that nothing ends.
THEOREM NoTaskStranded == Spec => []TasksGoOn
<1>1. Init => AliveInv
  BY DEF Init, AliveInv
<1>2. Inv /\ AliveInv => TasksGoOn
  BY DEF Inv, LaunchInv, TypeOK, AliveInv, TasksGoOn
<1> QED  BY <1>1, <1>2, AliveStep, Invariance, PTL DEF Spec

\* A task is never started twice nor set back, so a loop with finitely many
\* ticks has finitely many steps, calls included.
THEOREM LoopMovesOn == Spec => []LeftBounds /\ [][MovesOn]_vars
<1>1. Inv => TypeOK /\ LeftBounds
  BY LeftIsBounded DEF Inv
<1> QED  BY <1>1, Invariance, StepMovesOn, PTL DEF Spec

------------------------------------------------------------------------------
(* The loop's tests are the tests that TestExecution and LatencyTest are. *)

\* What task t knows of its test: the execution task learns the verdict, or
\* goes down with the test.
VerdictOf(t) ==
    CASE exec[t] \in {"none", "running"}       -> "running"
      [] exec[t] \in {"panicked", "cancelled"} -> "failure"
      [] exec[t] \in {"submitting", "unsent", "killed"} \cup Counted ->
            IF result[t] = "success" THEN "success" ELSE "failure"

Performed(t) ==
    INSTANCE AssignedTest
        WITH Amount <- 1,
             moved <- IF VerdictOf(t) = "success" THEN 1 ELSE 0,
             verdict <- VerdictOf(t)

LEMMA VerdictIs ==
  ASSUME TypeOK, TypeOK', NEW t \in Tasks
  PROVE  /\ VerdictOf(t) = IF exec[t] \in {"none", "running"} THEN "running"
                           ELSE IF exec[t] \in {"panicked", "cancelled"} THEN "failure"
                           ELSE IF result[t] = "success" THEN "success" ELSE "failure"
         /\ VerdictOf(t)' = IF exec'[t] \in {"none", "running"} THEN "running"
                            ELSE IF exec'[t] \in {"panicked", "cancelled"} THEN "failure"
                            ELSE IF result'[t] = "success" THEN "success" ELSE "failure"
  BY DEF VerdictOf, TypeOK

\* A task learns its verdict while it runs, once.
VerdictSettles(t) ==
    VerdictOf(t)' # VerdictOf(t) => VerdictOf(t) = "running" /\ VerdictOf(t)' # "running"

LEMMA VerdictStep ==
  ASSUME Inv, TypeOK', [Next]_vars, NEW t \in Tasks
  PROVE  VerdictSettles(t)
<1>0. TypeOK /\ LaunchInv
  BY DEF Inv
<1> USE VerdictIs DEF VerdictSettles
<1>1. CASE UNCHANGED <<exec, result>>
  BY <1>1 DEF VerdictOf
<1>2. ASSUME NEW u \in Tasks, Tick(u) \/ GetReplied(u) PROVE UNCHANGED <<exec, result>>
  BY <1>2 DEF Tick, GetReplied
<1>3. ASSUME NEW u \in Tasks, GetFailed(u) \/ PollTimeout(u) \/ AwaitReturns(u) \/ Reap(u)
      PROVE  UNCHANGED <<exec, result>>
  BY <1>3, Frames
<1>4. ASSUME NEW u \in Tasks, MarkReplied(u) \/ MarkFailed(u) PROVE VerdictSettles(t)
  <2>1. /\ exec[u] = "none" /\ exec' = [exec EXCEPT ![u] = "running"]
        /\ result' = result
    BY <1>4, <1>0, Frames DEF LaunchInv
  <2> QED  BY <1>0, <2>1 DEF TypeOK
<1>5. ASSUME NEW u \in Tasks, ExecTask(u) PROVE VerdictSettles(t)
  <2>1. \/ exec[u] = "running" /\ exec'[u] \in {"submitting", "panicked", "cancelled"}
        \/ /\ exec[u] = "submitting" /\ exec'[u] \in {"unsent"} \cup Counted
           /\ result' = result
    BY <1>0, <1>5 DEF ExecTask, PerformReturns, PerformPanics, SubmitReplied, SubmitFailed,
                      ExecShutdown, CountResult, TypeOK
  <2>2. \A v \in Tasks \ {u} : exec'[v] = exec[v] /\ result'[v] = result[v]
    BY <1>0, <1>5 DEF ExecTask, PerformReturns, PerformPanics, SubmitReplied, SubmitFailed,
                      ExecShutdown, CountResult, TypeOK
  <2> QED  BY <1>0, <2>1, <2>2
<1>6. CASE Exit
  <2>1. /\ exec'[t] = IF exec[t] \in ExecAlive THEN "killed" ELSE exec[t]
        /\ result' = result
    BY <1>6 DEF Exit
  <2> QED  BY <1>0, <2>1
<1>7. ASSUME NEW q \in requests, Coordinator(q) PROVE UNCHANGED <<exec, result>>
  BY <1>7 DEF Coordinator, ServeGet, ServeMark, ServeReport, Answer
<1> QED
  BY <1>1, <1>2, <1>3, <1>4, <1>5, <1>6, <1>7
     DEF Next, PollTask, LoseRequest, CtrlC, DropInner, Terminated, vars

\* For the loop, every test it runs is one AssignedTest: it comes to one
\* verdict, whatever becomes of its report, and neither a late answer of the
\* coordinator nor the end of the process changes it.
THEOREM EveryTestIsOne == ASSUME NEW t \in Tasks PROVE Spec => Performed(t)!Spec
<1> DEFINE Success == VerdictOf(t) = "success"
<1>1. Init => Performed(t)!Init
  BY DEF Init, VerdictOf, Performed!Init
<1>2. ASSUME Inv, TypeOK', [Next]_vars
      PROVE  [Performed(t)!Next]_<<IF Success THEN 1 ELSE 0, VerdictOf(t)>>
  <2>1. VerdictOf(t) \in {"running", "success", "failure"}
        /\ VerdictOf(t)' \in {"running", "success", "failure"}
    BY <1>2, VerdictIs DEF Inv
  <2>2. VerdictSettles(t)
    BY <1>2, VerdictStep
  <2>3. CASE VerdictOf(t)' = VerdictOf(t)
    BY <2>3
  <2>4. CASE VerdictOf(t) = "running" /\ VerdictOf(t)' = "success"
    BY <2>4 DEF Performed!Next, Performed!Succeed
  <2>5. CASE VerdictOf(t) = "running" /\ VerdictOf(t)' = "failure"
    BY <2>5 DEF Performed!Next, Performed!Fail
  <2> QED  BY <2>1, <2>2, <2>3, <2>4, <2>5 DEF VerdictSettles
<1>3. Inv => TypeOK
  BY DEF Inv
<1> QED  BY <1>1, <1>2, <1>3, Invariance, PTL DEF Spec, Performed!Spec
=============================================================================
