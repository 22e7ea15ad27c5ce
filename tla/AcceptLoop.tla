----------------------------- MODULE AcceptLoop -----------------------------
(***************************************************************************)
(* The accept command (src/src/commands/accept.rs): every incoming         *)
(* connection gets a task of its own, and an atomic counter decides which  *)
(* of them draws the terminal interface.  A task takes the counter's old   *)
(* value before its handshake; the one that took 0 runs its session with a *)
(* Gui, the others run silently.  The counter goes down when a task ends.  *)
(*                                                                         *)
(* A session itself is DoctorSession.tla; here it only begins and ends.    *)
(***************************************************************************)
EXTENDS Naturals, FiniteSets

CONSTANT Incoming   \* connection attempts; bounds the tasks

ASSUME IncomingFinite == IsFiniteSet(Incoming)

VARIABLES
    endpoint,   \* open, closed (by Ctrl-C), exited (with the process)
    task,       \* task[i]: the task of connection i
    seat,       \* seat[i]: what fetch_add returned to it
    counter     \* connections: AtomicU64

vars == <<endpoint, task, seat, counter>>

Sessions == {"gui", "silent"}
Holding  == {"handshake", "release"} \cup Sessions   \* between add and sub

\* One invariant of types for the module.
TypeOK ==
    /\ endpoint \in {"open", "closed", "exited"}
    /\ task \in [Incoming -> {"none", "spawned", "ended", "killed"} \cup Holding]
    /\ seat \in [Incoming -> Nat]
    /\ counter \in Nat

Init ==
    /\ endpoint = "open"
    /\ task = [i \in Incoming |-> "none"]
    /\ seat = [i \in Incoming |-> 0]
    /\ counter = 0

\* Task i moves on by itself.
Goes(i, from, to) ==
    /\ task[i] = from
    /\ task' = [task EXCEPT ![i] = to]
    /\ UNCHANGED endpoint

\* endpoint.accept() and incoming.accept() succeed: spawn the task.  An
\* incoming that cannot be accepted is skipped and leaves no trace.
Accept(i) ==
    /\ endpoint = "open"
    /\ Goes(i, "none", "spawned")
    /\ UNCHANGED <<seat, counter>>

\* fetch_add(1)
FetchAdd(i) ==
    /\ Goes(i, "spawned", "handshake")
    /\ seat' = [seat EXCEPT ![i] = counter]
    /\ counter' = counter + 1

\* The handshake is done: a session with or without the interface.
Connected(i) ==
    /\ Goes(i, "handshake", IF seat[i] = 0 THEN "gui" ELSE "silent")
    /\ UNCHANGED <<seat, counter>>

\* A variant that returns early when the handshake fails.
ReturnEarly(i) ==
    /\ Goes(i, "handshake", "ended")
    /\ UNCHANGED <<seat, counter>>

\* A variant that gives the seat back twice when the handshake fails.
SubTwice(i) ==
    /\ Goes(i, "handshake", "release")
    /\ counter' = counter - 1
    /\ UNCHANGED seat

\* The handshake failed: print it and give the seat back.
HandshakeFails(i) ==
    /\ Goes(i, "handshake", "release")
    /\ UNCHANGED <<seat, counter>>

\* active_side returned, well or with an error.
SessionEnds(i) ==
    /\ \E kind \in Sessions : Goes(i, kind, "release")
    /\ UNCHANGED <<seat, counter>>

\* A variant that clears the counter when a task ends.
StoreZero(i) ==
    /\ Goes(i, "release", "ended")
    /\ counter' = 0
    /\ UNCHANGED seat

\* sub(1)
Release(i) ==
    /\ Goes(i, "release", "ended")
    /\ counter' = counter - 1
    /\ UNCHANGED seat

\* Ctrl-C closes the endpoint; its connections fail and no more are accepted.
CloseEndpoint ==
    /\ endpoint = "open"
    /\ endpoint' = "closed"
    /\ UNCHANGED <<task, seat, counter>>

\* accept() returned None or close() is done: the command returns and the
\* runtime is shut down with whatever tasks are left.
Exit ==
    /\ endpoint = "closed"
    /\ endpoint' = "exited"
    /\ task' = [i \in Incoming |-> IF task[i] \in {"none", "ended"} THEN task[i]
                                                                ELSE "killed"]
    /\ UNCHANGED <<seat, counter>>

Terminated ==
    /\ endpoint = "exited"
    /\ UNCHANGED vars

Handshake(i) == Connected(i) \/ HandshakeFails(i)

Next ==
    \/ \E i \in Incoming :
          Accept(i) \/ FetchAdd(i) \/ Handshake(i) \/ SessionEnds(i) \/ Release(i)
    \/ CloseEndpoint \/ Exit \/ Terminated

Spec == Init /\ [][Next]_vars

\* A spawned task runs, and handshakes end by the transport's timeouts.  A
\* session need not end: without `iterations`, which is the default, its test
\* goes on for as long as the peer stays.
FairSpec ==
    /\ Spec
    /\ \A i \in Incoming :
        /\ WF_vars(FetchAdd(i))
        /\ WF_vars(Handshake(i))
        /\ WF_vars(Release(i))

------------------------------------------------------------------------------
(* Properties. *)

(***************************************************************************)
(* Two tasks never draw the interface at the same time, however handshakes *)
(* overtake one another between the counter and the session.               *)
(***************************************************************************)
AtMostOneGui ==
    \A i, j \in Incoming : task[i] = "gui" /\ task[j] = "gui" => i = j

(***************************************************************************)
(* Seats are given back on every path: without a shutdown, once no more    *)
(* connections come, the counter counts the sessions that still go on and  *)
(* nothing else.  When these are over, a later one gets the interface.     *)
(***************************************************************************)
CounterSettles ==
    <>[](endpoint = "open" =>
            counter = Cardinality({i \in Incoming : task[i] \in Sessions}))
=============================================================================
