------------------------------ MODULE DoctorRun ------------------------------
(***************************************************************************)
(* The process: main (src/src/main.rs), doctor::run with its commands and  *)
(* make_endpoint (src/src/doctor.rs), the configuration they start from    *)
(* (src/src/config.rs, logging.rs) and the commands that have no module of *)
(* their own (src/src/commands/port_map.rs, report.rs, connect.rs).  The   *)
(* swarm-client command is SwarmStartup; the sessions of accept and        *)
(* connect are DoctorSession, and relay-urls is RelayProbe: one step here. *)
(***************************************************************************)
EXTENDS SwarmStartup

VARIABLES
    command,     \* the subcommand
    files,       \* the configuration files and the environment variable
    flags,       \* the options local_relay_server and service_node
    relayNodes,  \* relay_nodes of the NodeConfig: n0, listed, empty
    relays,      \* the relays the endpoint uses: unset, n0, listed, local, empty
    local,       \* the port mapper knows the local port
    subscribed,  \* the watcher exists
    mapping,     \* the external address: none, mapped
    fresh        \* the watcher has not seen the latest change

settingVars == <<command, files, flags>>
watchVars == <<local, subscribed, mapping, fresh>>
doctorVars == <<settingVars, relayNodes, relays, watchVars>>
vars == <<lifecycleVars, startupVars, doctorVars>>

Commands == {"report", "accept", "connect", "port-map", "port-map-probe", "relay-urls", "swarm-client"}
Racing == InRace \cup {"body"}
File == {"none", "good", "bad"}

\* One invariant of types for the module.
TypeOK ==
    /\ phase \in StartupPhases \cup
         {"load", "logging", "secret", "open", "service", "online", "body",
          "open report", "stream", "mapper", "watch", "borrow", "probe", "probing", "exited"}
    /\ status \in {"running", "ok", "error", "killed"}
    /\ endpoint \in {"none", "open", "closing", "closed"}
    /\ interrupted \in BOOLEAN
    /\ StartupTypeOK
    /\ command \in Commands
    /\ files \in [{"explicit", "default", "env"} -> File]
    /\ flags \subseteq {"local", "service"}
    /\ relayNodes \in {"n0", "listed", "empty"}
    /\ relays \in {"unset", "n0", "listed", "local", "empty"}
    /\ local \in BOOLEAN
    /\ subscribed \in BOOLEAN
    /\ mapping \in {"none", "mapped"}
    /\ fresh \in BOOLEAN

Init ==
    /\ phase = "load"
    /\ status = "running"
    /\ endpoint = "none"
    /\ interrupted = FALSE
    /\ StartupInit
    /\ command \in Commands
    /\ files \in [{"explicit", "default", "env"} -> File]
    /\ flags \in SUBSET {"local", "service"}
    /\ relayNodes = "n0"
    /\ relays = "unset"
    /\ local = FALSE
    /\ subscribed = FALSE
    /\ mapping = "none"
    /\ fresh = FALSE

------------------------------------------------------------------------------
(* Startup of any command. *)

\* A step of the process in which nothing but its phase and status change.
Step == UNCHANGED <<endpoint, interrupted, startupVars, doctorVars>>

\* The explicit file, or else the default one if it exists.
ConfigFile == IF files["explicit"] # "none" THEN files["explicit"] ELSE files["default"]

\* NodeConfig::load, whose result nobody can change later; without a file the
\* relays are n0's.
LoadConfig ==
    /\ phase = "load"
    /\ IF "bad" \in {ConfigFile, files["env"]}
       THEN Exit("error") /\ UNCHANGED relayNodes
       ELSE /\ GoTo("logging")
            /\ IF ConfigFile = "good" THEN relayNodes' \in {"n0", "listed", "empty"}
                                      ELSE UNCHANGED relayNodes
    /\ UNCHANGED <<endpoint, interrupted, startupVars, settingVars, relays, watchVars>>

\* The first thing each command does.
FirstPhase ==
    CASE command \in {"accept", "connect", "swarm-client"} -> "secret"
      [] command = "report"     -> "open report"
      [] command = "port-map"   -> "mapper"
      [] command = "port-map-probe" -> "probe"
      [] command = "relay-urls" -> "probing"

\* The data directory, init_terminal_and_file_logging, the choice of command.
InitLogging ==
    /\ phase = "logging"
    /\ GoTo(FirstPhase) \/ Exit("error")
    /\ Step

\* create_secret_key
CreateSecretKey ==
    /\ phase = "secret"
    /\ GoTo(IF command = "swarm-client" THEN "key" ELSE "open") \/ Exit("error")
    /\ Step

------------------------------------------------------------------------------
(* accept and connect: make_endpoint and the race. *)

\* NodeConfig::relay_map; an empty list is no map at all.
relay_map(none) == IF relayNodes = "empty" THEN none ELSE relayNodes

\* The local relay, the configured ones, or those of the n0 preset.
MakeEndpoint ==
    /\ phase = "open"
    /\ relays' = IF "local" \in flags THEN "local" ELSE relay_map("n0")
    /\ \/ /\ endpoint' = "open"
          /\ GoTo(IF "service" \in flags THEN "service" ELSE "online")
       \/ UNCHANGED endpoint /\ Exit("error")
    /\ UNCHANGED <<interrupted, startupVars, settingVars, relayNodes, watchVars>>

\* The iroh_services client, without a timeout.
ServiceClient ==
    /\ phase = "service"
    /\ GoTo("online") \/ Exit("error")
    /\ Step

\* online() returns once a relay is connected.
Online ==
    /\ phase = "online"
    /\ relays # "empty"
    /\ GoTo("body")
    /\ Step

OnlineTimeout ==
    /\ phase = "online"
    /\ Exit("error")
    /\ Step

\* A variant in which a failed incoming connection ends accept.
BodyReturnsEarly ==
    /\ phase = "body"
    /\ Exit("ok")
    /\ Step

\* connect returns when it could not dial or its session is over, accept when
\* the endpoint takes no more connections; errors are printed, no more.
BodyReturns ==
    /\ phase = "body"
    /\ command = "connect" \/ endpoint # "open"
    /\ Exit("ok")
    /\ Step

------------------------------------------------------------------------------
(* report, port-map, relay-urls. *)

\* report: reports are printed until the endpoint closes, which nobody does.
OpenReport ==
    /\ phase = "open report"
    /\ relays' = relay_map("empty")
    /\ \/ endpoint' = "open" /\ GoTo("stream")
       \/ UNCHANGED endpoint /\ Exit("error")
    /\ UNCHANGED <<interrupted, startupVars, settingVars, relayNodes, watchVars>>

\* port_map: the protocol has to be one of three; subscribe to the address.
Subscribe ==
    /\ phase = "mapper" /\ ~subscribed
    /\ \/ subscribed' = TRUE /\ UNCHANGED <<phase, status>>
       \/ UNCHANGED subscribed /\ Exit("error")
    /\ UNCHANGED <<endpoint, interrupted, startupVars, settingVars, relayNodes, relays, local, mapping, fresh>>

\* A variant that asks for the mapping before it watches for it.
UpdatePortFirst ==
    /\ phase = "mapper" /\ ~local
    /\ local' = TRUE
    /\ UNCHANGED <<lifecycleVars, startupVars, settingVars, relayNodes, relays, subscribed, mapping, fresh>>

UpdateLocalPort ==
    /\ phase = "mapper" /\ ~local
    /\ subscribed
    /\ local' = TRUE
    /\ UNCHANGED <<lifecycleVars, startupVars, settingVars, relayNodes, relays, subscribed, mapping, fresh>>

Watch ==
    /\ phase = "mapper" /\ subscribed /\ local
    /\ GoTo("watch")
    /\ Step

\* The port mapper found a mapping, or lost it.
Publish ==
    /\ local /\ phase # "exited"
    /\ mapping' = IF mapping = "none" THEN "mapped" ELSE "none"
    /\ fresh' = subscribed
    /\ UNCHANGED <<lifecycleVars, startupVars, settingVars, relayNodes, relays, local, subscribed>>

\* changed() returns and marks the change as seen.
Changed ==
    /\ phase = "watch" /\ fresh
    /\ fresh' = FALSE
    /\ GoTo("borrow")
    /\ UNCHANGED <<endpoint, interrupted, startupVars, settingVars, relayNodes, relays, local, subscribed, mapping>>

\* What is read is the latest value, not the one whose change was seen.
Borrow ==
    /\ phase = "borrow"
    /\ Exit(IF mapping = "mapped" THEN "ok" ELSE "error")
    /\ Step

WatchTimeout ==
    /\ phase = "watch"
    /\ Exit("error")
    /\ Step

\* port_map_probe: the port mapper answers, without a timeout.
ProbeMapper ==
    /\ phase = "probe"
    /\ Exit("ok") \/ Exit("error")
    /\ Step

\* relay-urls: see RelayProbe.
ProbeRelays ==
    /\ phase = "probing"
    /\ Exit("ok")
    /\ Step

------------------------------------------------------------------------------
DoctorStep ==
    \/ LoadConfig \/ InitLogging \/ CreateSecretKey
    \/ MakeEndpoint \/ Online \/ OnlineTimeout
    \/ OpenReport \/ Subscribe \/ UpdateLocalPort \/ Watch \/ Changed \/ Borrow
    \/ ProbeRelays

\* The swarm client's startup; Ctrl-C is below, for all commands.
SwarmClient ==
    /\ command = "swarm-client"
    /\ StartupClient \/ BuildMetricsClient
    /\ UNCHANGED doctorVars

Network ==
    /\ command = "swarm-client"
    /\ ReportArrives \/ Serve \/ LoseCall
    /\ UNCHANGED doctorVars

CtrlC   == Press(Racing) /\ UNCHANGED <<startupVars, doctorVars>>
Closes  == Closing(Racing) /\ UNCHANGED <<startupVars, doctorVars>>

\* What goes on for ever: the reports of report, and accept, connect and the
\* swarm's loop, which have modules of their own.
Works == phase \in {"stream", "body", "loop"} /\ UNCHANGED vars

Terminated == phase = "exited" /\ UNCHANGED vars

Next ==
    \/ DoctorStep \/ ServiceClient \/ BodyReturns \/ WatchTimeout \/ ProbeMapper \/ Publish
    \/ SwarmClient \/ Network \/ CtrlC \/ Closes \/ Works \/ Terminated

Spec == Init /\ [][Next]_vars

(***************************************************************************)
(* Fairness: the process goes on when it can, a timeout that is due fires  *)
(* and closing an endpoint ends.  Not fair are Ctrl-C, the network, the    *)
(* port mapper and its timeout, the session of connect, and the clients of *)
(* iroh_services and the probe of the port mapper, which have no timeout.  *)
(***************************************************************************)
FairSpec ==
    /\ Spec
    /\ WF_vars(DoctorStep)
    /\ WF_vars(StartupClient /\ UNCHANGED doctorVars)
    /\ WF_vars(Closes)

------------------------------------------------------------------------------
(* Properties. *)

(***************************************************************************)
(* The node that ticks, and whose router serves other nodes, is the one    *)
(* the coordinator authenticated and registered with a real net report; it *)
(* never registers with the defaults that stand for a missing report. A    *)
(* swarm client that ends with status 0 was such a node, though its        *)
(* metrics client may have failed before the first tick.                   *)
(***************************************************************************)
ServesAsRegistered ==
    /\ registered # "empty"
    /\ phase \in InRace \/ (status = "ok" /\ command = "swarm-client") =>
          authed /\ registered = "full"

(***************************************************************************)
(* report, accept and a swarm client never end on their own account, and   *)
(* the swarm client not before its endpoint is closed for good.  There is  *)
(* one exception: when the metrics client cannot be built, a client that   *)
(* is registered ends, its endpoint open, as if all were well.             *)
(***************************************************************************)
OnlyInterruptEnds ==
    [][status = "running" /\ status' # "running" =>
          /\ phase = "stream" \/ (phase = "body" /\ command = "accept") => interrupted'
          /\ phase \in InRace => \/ interrupted /\ endpoint = "closed"
                                 \/ phase = "build" /\ status' = "ok"]_vars

(***************************************************************************)
(* Ctrl-C ends every command, whatever it is waiting for.                  *)
(***************************************************************************)
InterruptEnds == interrupted ~> phase = "exited"

(***************************************************************************)
(* Startup is bounded: a command can be held for ever only by a client of  *)
(* iroh_services, by the swarm's first net report or by its registration,  *)
(* and by the port mapper: the probe of it has no timeout, and the one of  *)
(* the wait for a mapping is not assumed to be fair.                       *)
(***************************************************************************)
StartupSettles ==
    <>[](phase \in Untimed \cup {"service", "probe", "body", "stream", "watch", "loop", "exited"})

(***************************************************************************)
(* A port mapping that stays is never missed, however early it comes: the  *)
(* command ends without its timeout.                                       *)
(***************************************************************************)
MappingIsNoticed == []<>(mapping = "none" \/ phase = "exited")
=============================================================================
