---------------------------- MODULE SwarmStartup ----------------------------
(***************************************************************************)
(* From the swarm-client command to the first tick of its main loop        *)
(* (src/src/commands/swarm_client.rs, swarm/client.rs, swarm/rpc.rs and    *)
(* the head of run_swarm_client_inner in swarm/runner.rs).                 *)
(*                                                                         *)
(* The endpoint is bound, the first net report awaited, the coordinator    *)
(* dialled and the node authenticated under one timeout, then registered;  *)
(* the router starts serving other nodes, the metrics client is built and  *)
(* the loop begins.  The net report, the registration and the metrics      *)
(* client are not under a timeout.                                         *)
(*                                                                         *)
(* There is one call at a time.  A call that the client gave up on may     *)
(* still be carried out by the coordinator.                                *)
(***************************************************************************)
EXTENDS Lifecycle

VARIABLES
    netReport,   \* the endpoint's net report: none, there
    extended,    \* the ExtendedNetworkReport made of it: none, empty, full
    request,     \* the call on the wire: none, auth, register
    answer,      \* what became of it: none, ok, refused, lost
    authed,      \* the coordinator has authenticated the connection
    registered   \* the report the coordinator registered the node with

coordinatorVars == <<authed, registered>>
startupVars == <<netReport, extended, request, answer, coordinatorVars>>

Connecting == {"dial", "auth"}               \* under the timeout
Untimed    == {"report", "register", "build"}
InRace     == {"build", "settle", "loop"}     \* run_swarm_client's race
StartupPhases == {"key", "bind"} \cup Untimed \cup Connecting \cup InRace

StartupTypeOK ==
    /\ netReport \in {"none", "there"}
    /\ extended \in {"none", "empty", "full"}
    /\ request \in {"none", "auth", "register"}
    /\ answer \in {"none", "ok", "refused", "lost"}
    /\ authed \in BOOLEAN
    /\ registered \in {"none", "empty", "full"}

StartupInit ==
    /\ netReport = "none"
    /\ extended = "none"
    /\ request = "none"
    /\ answer = "none"
    /\ authed = FALSE
    /\ registered = "none"

------------------------------------------------------------------------------
(* The client. *)

\* commands/swarm_client.rs looks for the file before anything else.
CheckKeyFile ==
    /\ phase = "key"
    /\ GoTo("bind") \/ Exit("error")
    /\ UNCHANGED <<endpoint, interrupted, startupVars>>

BindSwarm ==
    /\ phase = "bind"
    /\ \/ GoTo("report") /\ endpoint' = "open"
       \/ Exit("error") /\ UNCHANGED endpoint
    /\ UNCHANGED <<interrupted, startupVars>>

\* from_base_report: without a base report only the defaults are left.
Extend == extended' = IF netReport = "there" THEN "full" ELSE "empty"

\* A variant that takes whatever report there is.
TakeReport ==
    /\ phase = "report"
    /\ Extend
    /\ GoTo("dial")
    /\ UNCHANGED <<endpoint, interrupted, netReport, request, answer, coordinatorVars>>

\* initialized(): wait for the first report, then take it.
AwaitReport ==
    /\ phase = "report" /\ netReport = "there"
    /\ Extend
    /\ GoTo("dial")
    /\ UNCHANGED <<endpoint, interrupted, netReport, request, answer, coordinatorVars>>

Call(kind) == request' = kind /\ answer' = "none"

\* with_ssh_key: read and parse the key, connect; then the auth call.
Dial ==
    /\ phase = "dial"
    /\ \/ GoTo("auth") /\ Call("auth")
       \/ Exit("error") /\ UNCHANGED <<request, answer>>
    /\ UNCHANGED <<endpoint, interrupted, netReport, extended, coordinatorVars>>

Authenticated ==
    /\ phase = "auth" /\ answer = "ok"
    /\ GoTo("register") /\ Call("register")
    /\ UNCHANGED <<endpoint, interrupted, netReport, extended, coordinatorVars>>

\* A variant with a timeout for the dial alone.
DialTimeout ==
    /\ phase = "dial"
    /\ Exit("error")
    /\ UNCHANGED <<endpoint, interrupted, startupVars>>

\* COORDINATOR_CONNECT_TIMEOUT_SECS
ConnectTimeout ==
    /\ phase \in Connecting
    /\ Exit("error")
    /\ UNCHANGED <<endpoint, interrupted, startupVars>>

\* Registered: the router is spawned and the race begins.
Registered ==
    /\ phase = "register" /\ answer = "ok"
    /\ GoTo("build") /\ Call("none")
    /\ UNCHANGED <<endpoint, interrupted, netReport, extended, coordinatorVars>>

\* A variant that does not hear of the end of its connection.
RefusalFails ==
    /\ phase \in {"auth", "register"} /\ answer = "refused"
    /\ Exit("error")
    /\ UNCHANGED <<endpoint, interrupted, startupVars>>

\* The call was refused, or its connection lost.
CallFails ==
    /\ phase \in {"auth", "register"} /\ answer \in {"refused", "lost"}
    /\ Exit("error")
    /\ UNCHANGED <<endpoint, interrupted, startupVars>>

\* The iroh_services client: on an error the loop's function returns, which
\* ends the race and the command as if all were well.
BuildMetricsClient ==
    /\ phase = "build"
    /\ GoTo("settle") \/ Exit("ok")
    /\ UNCHANGED <<endpoint, interrupted, startupVars>>

\* One second later the interval ticks for the first time.
FirstTick ==
    /\ phase = "settle"
    /\ GoTo("loop")
    /\ UNCHANGED <<endpoint, interrupted, startupVars>>

StartupClient ==
    \/ CheckKeyFile \/ BindSwarm \/ AwaitReport \/ Dial \/ Authenticated
    \/ ConnectTimeout \/ Registered \/ CallFails \/ FirstTick

------------------------------------------------------------------------------
(* The network and the coordinator. *)

\* The endpoint's first net report; it is never taken back.
ReportArrives ==
    /\ endpoint # "none" /\ netReport = "none"
    /\ netReport' = "there"
    /\ UNCHANGED <<lifecycleVars, extended, request, answer, coordinatorVars>>

\* The coordinator carries out a call, even of a client that is gone; it
\* registers authenticated nodes only.
Serve ==
    /\ request # "none" /\ answer = "none"
    /\ \/ /\ answer' = "ok"
          /\ IF request = "auth"
             THEN authed' = TRUE /\ UNCHANGED registered
             ELSE authed /\ registered' = extended /\ UNCHANGED authed
       \/ /\ answer' = "refused"
          /\ UNCHANGED coordinatorVars
    /\ UNCHANGED <<lifecycleVars, netReport, extended, request>>

\* The connection to the coordinator breaks.
LoseCall ==
    /\ request # "none" /\ answer # "lost"
    /\ answer' = "lost"
    /\ UNCHANGED <<lifecycleVars, netReport, extended, request, coordinatorVars>>

------------------------------------------------------------------------------
(* Properties. *)

(***************************************************************************)
(* With a net report, and a coordinator that answers every call, the       *)
(* startup always comes to its first tick or to an end.                    *)
(***************************************************************************)
AnsweredStartupEnds ==
    WF_startupVars(ReportArrives) /\ WF_startupVars(Serve)
        /\ WF_lifecycleVars(BuildMetricsClient)
        => (phase = "key" ~> phase \in {"loop", "exited"})
=============================================================================
