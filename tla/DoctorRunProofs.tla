--------------------------- MODULE DoctorRunProofs ---------------------------
(***************************************************************************)
(* Safety of the process.  The argument for the swarm client: the report   *)
(* is taken only when there is one, and every call is made after that, so  *)
(* a call that is served, however late, is served with a real report; each *)
(* phase from "auth" on belongs to one call, and an "ok" of that call is   *)
(* what the coordinator has on record.  Then types, what ends a command,   *)
(* and what those who wait for Ctrl-C, a phase or a mapping can rely on.   *)
(***************************************************************************)
EXTENDS DoctorRun, Naturals, TLAPS

SwarmPhases == {"load", "logging", "secret", "exited"} \cup StartupPhases

\* Calls and what the coordinator has on record.
CallInv ==
    /\ registered # "empty"
    /\ phase \in Connecting \cup {"register"} \cup InRace => extended = "full"
    /\ request # "none" => extended = "full"
    /\ phase = "auth" => request = "auth"
    /\ phase = "register" => request = "register"
    /\ answer = "ok" /\ request = "auth" => authed
    /\ answer = "ok" /\ request = "register" => authed /\ registered = "full"
    /\ phase \in InRace => authed /\ registered = "full"

\* Which command is in which phase, and with which result.
RunInv ==
    /\ command \in Commands
    /\ command = "swarm-client" => phase \in SwarmPhases
    /\ status = "ok" => phase = "exited"
    /\ status = "ok" /\ command = "swarm-client" => authed /\ registered = "full"

Inv == CallInv /\ RunInv

LEMMA InvInit == Init => Inv
  BY DEF Init, StartupInit, Inv, CallInv, RunInv,
         SwarmPhases, StartupPhases, Untimed, Connecting, InRace

------------------------------------------------------------------------------
(* Steps that leave the swarm client's calls alone. *)

\* What such a step may do.
LEMMA OutsideStep ==
    ASSUME Inv,
           UNCHANGED <<startupVars, command>>,
           phase' \notin Connecting \cup {"register"} \cup InRace,
           command = "swarm-client" => phase' \in SwarmPhases,
           status' = "ok" => phase' = "exited",
           status' = "ok" => command # "swarm-client" \/ phase \in InRace \/ status = "ok"
    PROVE  Inv'
  BY DEF Inv, CallInv, RunInv, startupVars, coordinatorVars, Connecting, InRace

\* The commands' own steps; the swarm client takes the first three.
LEMMA DoctorMoves ==
    ASSUME Inv, DoctorStep \/ ServiceClient \/ BodyReturns \/ WatchTimeout \/ ProbeMapper \/ Publish
    PROVE  /\ UNCHANGED <<startupVars, command>>
           /\ phase' = phase \/ phase' \notin Connecting \cup {"register"} \cup InRace
           /\ command = "swarm-client" => phase' \in SwarmPhases
           /\ status' = "ok" => phase' = "exited"
           /\ status' = "ok" => command # "swarm-client" \/ status = "ok"
<1> USE DEF Inv, RunInv, GoTo, Exit, Step, SwarmPhases, StartupPhases,
            Untimed, Connecting, InRace, startupVars, coordinatorVars, doctorVars, settingVars, watchVars
<1>1. CASE LoadConfig
  BY <1>1 DEF LoadConfig
<1>2. CASE InitLogging
  <2>1. FirstPhase \in {"secret", "open report", "mapper", "probe", "probing"}
        /\ (command = "swarm-client" => FirstPhase = "secret")
    BY DEF FirstPhase, Commands
  <2> QED  BY <1>2, <2>1 DEF InitLogging
<1>3. CASE CreateSecretKey
  BY <1>3 DEF CreateSecretKey
<1>4. CASE MakeEndpoint
  BY <1>4 DEF MakeEndpoint, relay_map
<1>5. CASE Online \/ OnlineTimeout \/ ServiceClient
  BY <1>5 DEF Online, OnlineTimeout, ServiceClient
<1>6. CASE OpenReport
  BY <1>6 DEF OpenReport, relay_map
<1>7. CASE Subscribe \/ UpdateLocalPort \/ Publish
  BY <1>7 DEF Subscribe, UpdateLocalPort, Publish, lifecycleVars
<1>8. CASE Watch \/ Changed \/ Borrow \/ WatchTimeout
  BY <1>8 DEF Watch, Changed, Borrow, WatchTimeout
<1>9. CASE ProbeRelays \/ ProbeMapper \/ BodyReturns
  BY <1>9 DEF ProbeRelays, ProbeMapper, BodyReturns
<1> QED  BY <1>1, <1>2, <1>3, <1>4, <1>5, <1>6, <1>7, <1>8, <1>9 DEF DoctorStep

LEMMA DoctorInvStep ==
    ASSUME Inv, DoctorStep \/ ServiceClient \/ BodyReturns \/ WatchTimeout \/ ProbeMapper \/ Publish
    PROVE  Inv'
<1>1. CASE phase' = phase
  BY <1>1, DoctorMoves DEF Inv, CallInv, RunInv, startupVars, coordinatorVars
<1>2. CASE phase' # phase
  BY <1>2, DoctorMoves, OutsideStep
<1> QED  BY <1>1, <1>2

------------------------------------------------------------------------------
(* The swarm client's startup. *)

LEMMA SwarmInvStep == ASSUME Inv, SwarmClient PROVE Inv'
<1> USE DEF Inv, CallInv, RunInv, GoTo, Exit, Call, SwarmPhases, StartupPhases,
            Untimed, Connecting, InRace, startupVars, coordinatorVars, doctorVars, settingVars, watchVars
<1>1. command = "swarm-client" /\ UNCHANGED doctorVars
  BY DEF SwarmClient
<1>2. CASE CheckKeyFile \/ BindSwarm
  BY <1>1, <1>2 DEF CheckKeyFile, BindSwarm
<1>3. CASE AwaitReport
  BY <1>1, <1>3 DEF AwaitReport, Extend
<1>4. CASE Dial
  BY <1>1, <1>4 DEF Dial
<1>5. CASE Authenticated
  BY <1>1, <1>5 DEF Authenticated
<1>6. CASE Registered
  BY <1>1, <1>6 DEF Registered
<1>7. CASE ConnectTimeout \/ CallFails
  BY <1>1, <1>7 DEF ConnectTimeout, CallFails
<1>8. CASE BuildMetricsClient \/ FirstTick
  BY <1>1, <1>8 DEF BuildMetricsClient, FirstTick
<1> QED  BY <1>2, <1>3, <1>4, <1>5, <1>6, <1>7, <1>8 DEF SwarmClient, StartupClient

LEMMA NetworkInvStep == ASSUME Inv, Network PROVE Inv'
<1> USE DEF Inv, CallInv, RunInv, Network, lifecycleVars,
            coordinatorVars, doctorVars, settingVars, watchVars
<1>1. CASE ReportArrives
  BY <1>1 DEF ReportArrives
<1>2. CASE Serve
  BY <1>2 DEF Serve
<1>3. CASE LoseCall
  BY <1>3 DEF LoseCall
<1> QED  BY <1>1, <1>2, <1>3

------------------------------------------------------------------------------
(* Ctrl-C. *)

LEMMA CtrlCInvStep == ASSUME Inv, CtrlC \/ Closes PROVE Inv'
<1> USE DEF Inv, CallInv, RunInv, Exit, SwarmPhases, StartupPhases,
            Untimed, Connecting, InRace, Racing, startupVars, coordinatorVars, doctorVars, settingVars, watchVars
<1>1. CASE CtrlC
  BY <1>1 DEF CtrlC, Press
<1>2. CASE Closes
  BY <1>2 DEF Closes, Closing, StartClose, FinishClose, WinRace
<1> QED  BY <1>1, <1>2

LEMMA InvStep == Inv /\ [Next]_vars => Inv'
<1> SUFFICES ASSUME Inv, [Next]_vars PROVE Inv'
  OBVIOUS
<1>1. CASE Works \/ Terminated \/ UNCHANGED vars
  BY <1>1 DEF Works, Terminated, vars, lifecycleVars, startupVars, coordinatorVars, doctorVars,
              settingVars, watchVars, Inv, CallInv, RunInv
<1> QED  BY <1>1, DoctorInvStep, SwarmInvStep, NetworkInvStep, CtrlCInvStep DEF Next

------------------------------------------------------------------------------
(* Types.  Booleans and the other values go to different provers. *)

Flagged ==
    /\ interrupted \in BOOLEAN /\ authed \in BOOLEAN
    /\ local \in BOOLEAN /\ subscribed \in BOOLEAN /\ fresh \in BOOLEAN

Phases ==
    StartupPhases \cup
        {"load", "logging", "secret", "open", "service", "online", "body", "open report",
         "stream", "mapper", "watch", "borrow", "probe", "probing", "exited"}

Valued ==
    /\ phase \in Phases
    /\ status \in {"running", "ok", "error", "killed"}
    /\ endpoint \in {"none", "open", "closing", "closed"}
    /\ netReport \in {"none", "there"}
    /\ extended \in {"none", "empty", "full"}
    /\ request \in {"none", "auth", "register"}
    /\ answer \in {"none", "ok", "refused", "lost"}
    /\ registered \in {"none", "empty", "full"}
    /\ relayNodes \in {"n0", "listed", "empty"}
    /\ relays \in {"unset", "n0", "listed", "local", "empty"}
    /\ mapping \in {"none", "mapped"}
    /\ command \in Commands
    /\ files \in [{"explicit", "default", "env"} -> File]
    /\ flags \subseteq {"local", "service"}

LEMMA TypeIs == TypeOK <=> Flagged /\ Valued
  BY DEF TypeOK, StartupTypeOK, Flagged, Valued, Phases

LEMMA FlaggedStep == ASSUME Flagged, [Next]_vars PROVE Flagged'
<1> USE Zenon DEF Flagged
<1>1. CASE DoctorStep \/ ServiceClient \/ BodyReturns \/ WatchTimeout \/ ProbeMapper \/ Publish
  <2> USE DEF Step, startupVars, coordinatorVars, doctorVars, settingVars, watchVars, lifecycleVars
  <2>1. CASE LoadConfig \/ InitLogging \/ CreateSecretKey \/ MakeEndpoint \/ Online \/ OnlineTimeout
    BY <2>1, Zenon DEF LoadConfig, InitLogging, CreateSecretKey, MakeEndpoint, Online, OnlineTimeout
  <2>2. CASE OpenReport \/ Subscribe \/ UpdateLocalPort \/ Watch \/ Changed \/ Borrow \/ ProbeRelays
    BY <2>2, Zenon DEF OpenReport, Subscribe, UpdateLocalPort, Watch, Changed, Borrow, ProbeRelays
  <2>3. CASE ServiceClient \/ BodyReturns \/ WatchTimeout \/ ProbeMapper \/ Publish
    BY <2>3, Zenon DEF ServiceClient, BodyReturns, WatchTimeout, ProbeMapper, Publish
  <2> QED  BY <1>1, <2>1, <2>2, <2>3 DEF DoctorStep
<1>2. CASE SwarmClient
  <2> USE DEF startupVars, coordinatorVars, doctorVars, settingVars, watchVars
  <2>1. local' = local /\ subscribed' = subscribed /\ fresh' = fresh
    BY <1>2 DEF SwarmClient
  <2>2. interrupted' = interrupted /\ authed' = authed
    BY <1>2, Zenon DEF SwarmClient, StartupClient, CheckKeyFile, BindSwarm, AwaitReport, Dial,
            Authenticated, ConnectTimeout, Registered, CallFails, BuildMetricsClient, FirstTick
  <2> QED  BY <2>1, <2>2, Zenon
<1>3. CASE Network
  BY <1>3, Zenon DEF Network, ReportArrives, Serve, LoseCall,
      coordinatorVars, doctorVars, watchVars, lifecycleVars
<1>4. CASE CtrlC \/ Closes
  BY <1>4, Zenon DEF CtrlC, Press, Closes, Closing, StartClose, FinishClose, WinRace,
      startupVars, coordinatorVars, doctorVars, watchVars
<1>5. CASE Works \/ Terminated \/ UNCHANGED vars
  BY <1>5, Zenon DEF Works, Terminated, vars, lifecycleVars, startupVars, coordinatorVars,
      doctorVars, watchVars
<1> QED  BY <1>1, <1>2, <1>3, <1>4, <1>5 DEF Next

LEMMA FirstPhaseIs ==
    command \in Commands => FirstPhase \in {"secret", "open report", "mapper", "probe", "probing"}
  BY DEF FirstPhase, Commands

LEMMA ValuedStep == ASSUME Valued, [Next]_vars PROVE Valued'
<1> USE DEF Valued, Phases, GoTo, Exit, Step, StartupPhases, Untimed, Connecting, InRace,
            startupVars, coordinatorVars, doctorVars, settingVars, watchVars, lifecycleVars
<1>1. CASE LoadConfig \/ CreateSecretKey \/ Online \/ OnlineTimeout
  BY <1>1 DEF LoadConfig, CreateSecretKey, Online, OnlineTimeout
<1>2. CASE InitLogging
  <2>1. phase' \in {"secret", "open report", "mapper", "probe", "probing", "exited"}
    BY <1>2, FirstPhaseIs DEF InitLogging
  <2>2. phase' \in Phases
    BY <2>1
  <2>3. status' = status \/ status' = "error"
    BY <1>2 DEF InitLogging
  <2>4. Step
    BY <1>2 DEF InitLogging
  <2> HIDE DEF Phases
  <2> QED  BY <2>2, <2>3, <2>4
<1>3. CASE MakeEndpoint \/ OpenReport
  BY <1>3 DEF MakeEndpoint, OpenReport, relay_map
<1>4. CASE Subscribe \/ UpdateLocalPort \/ Watch \/ Changed \/ Borrow
  BY <1>4 DEF Subscribe, UpdateLocalPort, Watch, Changed, Borrow
<1>5. CASE ServiceClient \/ BodyReturns \/ WatchTimeout \/ ProbeMapper \/ ProbeRelays \/ Publish
  BY <1>5 DEF ServiceClient, BodyReturns, WatchTimeout, ProbeMapper, ProbeRelays, Publish
<1>6. CASE SwarmClient
  <2>1. CASE CheckKeyFile \/ BindSwarm \/ ConnectTimeout
    BY <1>6, <2>1 DEF SwarmClient, CheckKeyFile, BindSwarm, ConnectTimeout
  <2>2. CASE AwaitReport
    BY <1>6, <2>2 DEF SwarmClient, AwaitReport, Extend
  <2>3. CASE Dial \/ Authenticated \/ Registered
    BY <1>6, <2>3 DEF SwarmClient, Dial, Authenticated, Registered, Call
  <2>4. CASE CallFails \/ BuildMetricsClient \/ FirstTick
    BY <1>6, <2>4 DEF SwarmClient, CallFails, BuildMetricsClient, FirstTick
  <2> QED  BY <1>6, <2>1, <2>2, <2>3, <2>4 DEF SwarmClient, StartupClient
<1>7. CASE Network
  BY <1>7 DEF Network, ReportArrives, Serve, LoseCall
<1>8. CASE CtrlC \/ Closes
  BY <1>8 DEF CtrlC, Press, Closes, Closing, StartClose, FinishClose, WinRace
<1>9. CASE Works \/ Terminated \/ UNCHANGED vars
  BY <1>9 DEF Works, Terminated, vars
<1> QED  BY <1>1, <1>2, <1>3, <1>4, <1>5, <1>6, <1>7, <1>8, <1>9 DEF Next, DoctorStep

------------------------------------------------------------------------------
(* Who ends a command. *)

\* An endpoint is only closed for Ctrl-C, and whoever works with one has one.
EndpointInv ==
    /\ endpoint \in {"closing", "closed"} => interrupted
    /\ phase \in {"service", "online", "body", "stream"} => endpoint # "none"

LEMMA EndpointInvStep == ASSUME EndpointInv, Valued, [Next]_vars PROVE EndpointInv'
<1> USE DEF EndpointInv, GoTo, Exit, Step, Racing, InRace,
            startupVars, coordinatorVars, doctorVars, settingVars, watchVars, lifecycleVars
<1>1. CASE LoadConfig \/ CreateSecretKey \/ Online \/ OnlineTimeout
  BY <1>1 DEF LoadConfig, CreateSecretKey, Online, OnlineTimeout
<1>2. CASE InitLogging
  <2>1. FirstPhase \in {"secret", "open report", "mapper", "probe", "probing"}
    BY FirstPhaseIs DEF Valued
  <2> QED  BY <1>2, <2>1 DEF InitLogging
<1>3. CASE MakeEndpoint \/ OpenReport
  BY <1>3 DEF MakeEndpoint, OpenReport
<1>4. CASE Subscribe \/ UpdateLocalPort \/ Watch \/ Changed \/ Borrow
  BY <1>4 DEF Subscribe, UpdateLocalPort, Watch, Changed, Borrow
<1>5. CASE ServiceClient \/ BodyReturns \/ WatchTimeout \/ ProbeMapper \/ ProbeRelays \/ Publish
  BY <1>5 DEF ServiceClient, BodyReturns, WatchTimeout, ProbeMapper, ProbeRelays, Publish
<1>6. CASE SwarmClient
  BY <1>6 DEF SwarmClient, StartupClient, CheckKeyFile, BindSwarm, AwaitReport, Dial,
              Authenticated, ConnectTimeout, Registered, CallFails, BuildMetricsClient, FirstTick
<1>7. CASE Network
  BY <1>7 DEF Network, ReportArrives, Serve, LoseCall
<1>8. CASE CtrlC \/ Closes
  BY <1>8 DEF CtrlC, Press, Closes, Closing, StartClose, FinishClose, WinRace
<1>9. CASE Works \/ Terminated \/ UNCHANGED vars
  BY <1>9 DEF Works, Terminated, vars
<1> QED  BY <1>1, <1>2, <1>3, <1>4, <1>5, <1>6, <1>7, <1>8, <1>9 DEF Next, DoctorStep

\* The condition that OnlyInterruptEnds puts on a step.
EndsByInterrupt ==
    status = "running" /\ status' # "running" =>
        /\ phase = "stream" \/ (phase = "body" /\ command = "accept") => interrupted'
        /\ phase \in InRace => \/ interrupted /\ endpoint = "closed"
                               \/ phase = "build" /\ status' = "ok"

LEMMA EndingStep == ASSUME EndpointInv, Valued, [Next]_vars PROVE EndsByInterrupt
<1> USE DEF EndsByInterrupt, InRace, Exit, GoTo, Step, lifecycleVars
<1>1. CASE DoctorStep
  BY <1>1 DEF DoctorStep, LoadConfig, InitLogging, CreateSecretKey, MakeEndpoint, Online,
              OnlineTimeout, OpenReport, Subscribe, UpdateLocalPort, Watch, Changed, Borrow, ProbeRelays
<1>2. CASE BodyReturns
  BY <1>2 DEF BodyReturns, EndpointInv, Valued
<1>3. CASE ServiceClient \/ WatchTimeout \/ ProbeMapper \/ Publish
  BY <1>3 DEF ServiceClient, WatchTimeout, ProbeMapper, Publish
<1>4. CASE SwarmClient
  BY <1>4 DEF SwarmClient, StartupClient, CheckKeyFile, BindSwarm, AwaitReport, Dial, Connecting,
              Authenticated, ConnectTimeout, Registered, CallFails, BuildMetricsClient, FirstTick
<1>5. CASE Network
  BY <1>5 DEF Network, ReportArrives, Serve, LoseCall
<1>6. CASE CtrlC
  BY <1>6 DEF CtrlC, Press, Racing, InRace
<1>7. CASE Closes
  BY <1>7 DEF Closes, Closing, StartClose, FinishClose, WinRace, EndpointInv
<1>8. CASE Works \/ Terminated \/ UNCHANGED vars
  BY <1>8 DEF Works, Terminated, vars
<1> QED  BY <1>1, <1>2, <1>3, <1>4, <1>5, <1>6, <1>7, <1>8 DEF Next

LEMMA TypeInit == Init => Flagged /\ Valued /\ EndpointInv
<1> USE DEF Init, StartupInit
<1>1. Init => Flagged
  BY Zenon DEF Flagged
<1>2. Init => Valued
  BY DEF Valued, Phases
<1>3. Init => EndpointInv
  BY DEF EndpointInv
<1> QED  BY <1>1, <1>2, <1>3

------------------------------------------------------------------------------
(* Theorems. *)

\* The invariant holds in every reachable state.
THEOREM Invariance == Spec => []Inv
  BY InvInit, InvStep, PTL DEF Spec

\* Who serves other nodes is registered with a real net report, and so was a
\* swarm client that ended well.
THEOREM OnlyRegisteredServe == Spec => []ServesAsRegistered
<1>1. Inv => ServesAsRegistered
  BY DEF Inv, CallInv, RunInv, ServesAsRegistered
<1> QED  BY <1>1, Invariance, PTL

LEMMA TypesInvariant == Spec => [](Flagged /\ Valued /\ EndpointInv)
<1>1. Flagged /\ Valued /\ EndpointInv /\ [Next]_vars => (Flagged /\ Valued /\ EndpointInv)'
  BY FlaggedStep, ValuedStep, EndpointInvStep
<1> QED  BY <1>1, TypeInit, PTL DEF Spec

\* Every variable keeps its type.
THEOREM TypeCorrect == Spec => []TypeOK
<1>1. Flagged /\ Valued /\ EndpointInv => TypeOK
  BY TypeIs
<1> QED  BY <1>1, TypesInvariant, PTL

\* Nothing but Ctrl-C ends report, accept or the swarm's loop, and the loop
\* only once its endpoint is closed.
THEOREM OnlyInterruptsEnd == Spec => OnlyInterruptEnds
<1>1. Flagged /\ Valued /\ EndpointInv /\ [Next]_vars => [EndsByInterrupt]_vars
  BY EndingStep
<1> QED  BY <1>1, TypesInvariant, PTL DEF Spec, OnlyInterruptEnds, EndsByInterrupt

------------------------------------------------------------------------------
(* What Ctrl-C does to whoever waits. *)

\* Before make_endpoint there is no endpoint to close, from then on there is.
NoEndpointYet == {"load", "logging", "secret", "key", "bind", "open", "open report"}
HasEndpoint   == {"report", "register", "service", "online", "stream"} \cup Connecting \cup Racing

WhoHasEndpoint ==
    /\ phase \in NoEndpointYet => endpoint = "none"
    /\ phase \in HasEndpoint => endpoint # "none"

Interruptible == interrupted => phase \in Racing \cup {"exited"}

\* A process that was interrupted is over, or in a race that closing its
\* endpoint decides.
InterruptHeard ==
    interrupted => phase = "exited" \/ (phase \in Racing /\ endpoint # "none")

\* How far the endpoint is from closed.
CloseLeft ==
    CASE endpoint = "none"    -> 3
      [] endpoint = "open"    -> 2
      [] endpoint = "closing" -> 1
      [] endpoint = "closed"  -> 0

LEMMA WhoHasEndpointStep == ASSUME WhoHasEndpoint, Valued, [Next]_vars PROVE WhoHasEndpoint'
<1> USE DEF WhoHasEndpoint, NoEndpointYet, HasEndpoint, GoTo, Exit, Step, Racing, InRace, Connecting,
            startupVars, coordinatorVars, doctorVars, settingVars, watchVars, lifecycleVars
<1>1. CASE LoadConfig \/ CreateSecretKey \/ Online \/ OnlineTimeout
  BY <1>1 DEF LoadConfig, CreateSecretKey, Online, OnlineTimeout
<1>2. CASE InitLogging
  <2>1. FirstPhase \in {"secret", "open report", "mapper", "probe", "probing"}
    BY FirstPhaseIs DEF Valued
  <2> QED  BY <1>2, <2>1 DEF InitLogging
<1>3. CASE MakeEndpoint \/ OpenReport
  BY <1>3 DEF MakeEndpoint, OpenReport
<1>4. CASE Subscribe \/ UpdateLocalPort \/ Watch \/ Changed \/ Borrow
  BY <1>4 DEF Subscribe, UpdateLocalPort, Watch, Changed, Borrow
<1>5. CASE ServiceClient \/ BodyReturns \/ WatchTimeout \/ ProbeMapper \/ ProbeRelays \/ Publish
  BY <1>5 DEF ServiceClient, BodyReturns, WatchTimeout, ProbeMapper, ProbeRelays, Publish
<1>6. CASE SwarmClient
  BY <1>6 DEF SwarmClient, StartupClient, CheckKeyFile, BindSwarm, AwaitReport, Dial,
              Authenticated, ConnectTimeout, Registered, CallFails, BuildMetricsClient, FirstTick
<1>7. CASE Network
  BY <1>7 DEF Network, ReportArrives, Serve, LoseCall
<1>8. CASE CtrlC \/ Closes
  BY <1>8 DEF CtrlC, Press, Closes, Closing, StartClose, FinishClose, WinRace
<1>9. CASE Works \/ Terminated \/ UNCHANGED vars
  BY <1>9 DEF Works, Terminated, vars
<1> QED  BY <1>1, <1>2, <1>3, <1>4, <1>5, <1>6, <1>7, <1>8, <1>9 DEF Next, DoctorStep

\* A race is left for good.
LEMMA InterruptibleStep == ASSUME Interruptible, Valued, [Next]_vars PROVE Interruptible'
<1> USE DEF GoTo, Exit, Step, lifecycleVars
<1>1. CASE CtrlC
  BY <1>1, Zenon DEF CtrlC, Press, Interruptible
<1>2. ASSUME interrupted' = interrupted,
             phase \in Racing \cup {"exited"} => phase' \in Racing \cup {"exited"}
      PROVE  Interruptible'
  BY <1>2, Zenon DEF Interruptible
<1> USE DEF Racing, InRace
<1>3. CASE DoctorStep
  BY <1>2, <1>3 DEF DoctorStep, LoadConfig, InitLogging, CreateSecretKey, MakeEndpoint, Online,
              OnlineTimeout, OpenReport, Subscribe, UpdateLocalPort, Watch, Changed, Borrow, ProbeRelays
<1>4. CASE ServiceClient \/ BodyReturns \/ WatchTimeout \/ ProbeMapper \/ Publish
  BY <1>2, <1>4 DEF ServiceClient, BodyReturns, WatchTimeout, ProbeMapper, Publish
<1>5. CASE SwarmClient
  BY <1>2, <1>5 DEF SwarmClient, StartupClient, CheckKeyFile, BindSwarm, AwaitReport, Dial,
       Connecting, Authenticated, ConnectTimeout, Registered, CallFails, BuildMetricsClient, FirstTick
<1>6. CASE Network
  BY <1>2, <1>6 DEF Network, ReportArrives, Serve, LoseCall
<1>7. CASE Closes
  BY <1>2, <1>7 DEF Closes, Closing, StartClose, FinishClose, WinRace
<1>8. CASE Works \/ Terminated \/ UNCHANGED vars
  BY <1>2, <1>8 DEF Works, Terminated, vars
<1> QED  BY <1>1, <1>3, <1>4, <1>5, <1>6, <1>7, <1>8 DEF Next

\* What a step may do to the endpoint.
LEMMA EndpointStep ==
    ASSUME WhoHasEndpoint, Valued, [Next]_vars
    PROVE  \/ endpoint' = endpoint
           \/ endpoint = "none" /\ endpoint' = "open"
           \/ endpoint = "open" /\ endpoint' = "closing"
           \/ endpoint = "closing" /\ endpoint' = "closed"
<1> USE DEF Step, lifecycleVars
<1>1. CASE MakeEndpoint \/ OpenReport \/ SwarmClient
  BY <1>1 DEF MakeEndpoint, OpenReport, WhoHasEndpoint, NoEndpointYet, SwarmClient, StartupClient,
              CheckKeyFile, BindSwarm, AwaitReport, Dial, Authenticated, ConnectTimeout,
              Registered, CallFails, BuildMetricsClient, FirstTick
<1>2. CASE CtrlC \/ Closes
  BY <1>2 DEF CtrlC, Press, Closes, Closing, StartClose, FinishClose, WinRace
<1>3. CASE LoadConfig \/ InitLogging \/ CreateSecretKey \/ Online \/ OnlineTimeout \/ Subscribe
           \/ UpdateLocalPort \/ Watch \/ Changed \/ Borrow \/ ProbeRelays
  BY <1>3 DEF LoadConfig, InitLogging, CreateSecretKey, Online, OnlineTimeout, Subscribe,
              UpdateLocalPort, Watch, Changed, Borrow, ProbeRelays
<1>4. CASE ServiceClient \/ BodyReturns \/ WatchTimeout \/ ProbeMapper \/ Publish \/ Network
  BY <1>4 DEF ServiceClient, BodyReturns, WatchTimeout, ProbeMapper, Publish, Network,
              ReportArrives, Serve, LoseCall
<1>5. CASE Works \/ Terminated \/ UNCHANGED vars
  BY <1>5 DEF Works, Terminated, vars
<1> QED  BY <1>1, <1>2, <1>3, <1>4, <1>5 DEF Next, DoctorStep

------------------------------------------------------------------------------
(* No phase comes twice. *)

\* The order of the phases, for all commands together.
RankOf(p) ==
    CASE p = "load"    -> 0
      [] p = "logging" -> 1
      [] p \in {"secret", "open report", "mapper", "probe", "probing"} -> 2
      [] p \in {"key", "open", "stream", "watch"} -> 3
      [] p \in {"bind", "service", "borrow"} -> 4
      [] p \in {"report", "online"} -> 5
      [] p \in {"dial", "body"} -> 6
      [] p = "auth"     -> 7
      [] p = "register" -> 8
      [] p = "build"    -> 9
      [] p = "settle"   -> 10
      [] p = "loop"     -> 11
      [] p = "exited"   -> 12

Onward == phase' # phase => RankOf(phase') > RankOf(phase)

LEMMA Ranks ==
    /\ RankOf("load") = 0 /\ RankOf("logging") = 1 /\ RankOf("exited") = 12
    /\ \A p \in {"secret", "open report", "mapper", "probe", "probing"} : RankOf(p) = 2
    /\ \A p \in {"key", "open", "stream", "watch"} : RankOf(p) = 3
    /\ \A p \in {"bind", "service", "borrow"} : RankOf(p) = 4
    /\ \A p \in {"report", "online"} : RankOf(p) = 5
    /\ \A p \in {"dial", "body"} : RankOf(p) = 6
    /\ RankOf("auth") = 7 /\ RankOf("register") = 8 /\ RankOf("build") = 9
    /\ RankOf("settle") = 10 /\ RankOf("loop") = 11
<1>1. RankOf("load") = 0 /\ RankOf("logging") = 1 /\ RankOf("exited") = 12
  BY DEF RankOf
<1>2. \A p \in {"secret", "open report", "mapper", "probe", "probing"} : RankOf(p) = 2
  BY DEF RankOf
<1>3. \A p \in {"key", "open", "stream", "watch"} : RankOf(p) = 3
  BY DEF RankOf
<1>4. \A p \in {"bind", "service", "borrow"} : RankOf(p) = 4
  BY DEF RankOf
<1>5. \A p \in {"report", "online"} : RankOf(p) = 5
  BY DEF RankOf
<1>6. \A p \in {"dial", "body"} : RankOf(p) = 6
  BY DEF RankOf
<1>7. RankOf("auth") = 7 /\ RankOf("register") = 8 /\ RankOf("build") = 9
      /\ RankOf("settle") = 10 /\ RankOf("loop") = 11
  BY DEF RankOf
<1> QED  BY <1>1, <1>2, <1>3, <1>4, <1>5, <1>6, <1>7

LEMMA RankBelowExit == \A p \in Phases \ {"exited"} : RankOf(p) \in 0 .. 11
<1> SUFFICES ASSUME NEW p \in Phases \ {"exited"} PROVE RankOf(p) \in 0 .. 11
  OBVIOUS
<1>1. \/ RankOf(p) = 0 \/ RankOf(p) = 1 \/ RankOf(p) = 2 \/ RankOf(p) = 3
      \/ RankOf(p) = 4 \/ RankOf(p) = 5 \/ RankOf(p) = 6 \/ RankOf(p) = 7
      \/ RankOf(p) = 8 \/ RankOf(p) = 9 \/ RankOf(p) = 10 \/ RankOf(p) = 11
  BY Ranks, Zenon DEF Phases, StartupPhases, Untimed, Connecting, InRace
<1> QED  BY <1>1

\* Where a phase may lead, apart from the exit.
LEMMA PhaseStep ==
    ASSUME Valued, [Next]_vars, phase' # phase, phase' # "exited"
    PROVE  \/ phase = "load" /\ phase' = "logging"
           \/ /\ phase = "logging"
              /\ phase' \in {"secret", "open report", "mapper", "probe", "probing"}
           \/ phase = "secret" /\ phase' \in {"key", "open"}
           \/ phase = "key" /\ phase' = "bind"
           \/ phase = "bind" /\ phase' = "report"
           \/ phase = "report" /\ phase' = "dial"
           \/ phase = "dial" /\ phase' = "auth"
           \/ phase = "auth" /\ phase' = "register"
           \/ phase = "register" /\ phase' = "build"
           \/ phase = "build" /\ phase' = "settle"
           \/ phase = "settle" /\ phase' = "loop"
           \/ phase = "open" /\ phase' \in {"service", "online"}
           \/ phase = "service" /\ phase' = "online"
           \/ phase = "online" /\ phase' = "body"
           \/ phase = "open report" /\ phase' = "stream"
           \/ phase = "mapper" /\ phase' = "watch"
           \/ phase = "watch" /\ phase' = "borrow"
<1> USE DEF GoTo, Exit, Step, lifecycleVars
<1>1. CASE InitLogging
  <2>1. FirstPhase \in {"secret", "open report", "mapper", "probe", "probing"}
    BY FirstPhaseIs DEF Valued
  <2> QED  BY <1>1, <2>1 DEF InitLogging
<1>2. CASE LoadConfig \/ CreateSecretKey \/ MakeEndpoint \/ Online \/ OnlineTimeout \/ OpenReport
  BY <1>2 DEF LoadConfig, CreateSecretKey, MakeEndpoint, Online, OnlineTimeout, OpenReport
<1>3. CASE Subscribe \/ UpdateLocalPort \/ Watch \/ Changed \/ Borrow \/ ProbeRelays
  BY <1>3 DEF Subscribe, UpdateLocalPort, Watch, Changed, Borrow, ProbeRelays
<1>4. CASE ServiceClient \/ BodyReturns \/ WatchTimeout \/ ProbeMapper \/ Publish
  BY <1>4 DEF ServiceClient, BodyReturns, WatchTimeout, ProbeMapper, Publish
<1>5. CASE SwarmClient
  BY <1>5 DEF SwarmClient, StartupClient, CheckKeyFile, BindSwarm, AwaitReport, Dial,
              Authenticated, ConnectTimeout, Registered, CallFails, BuildMetricsClient, FirstTick
<1>6. CASE Network \/ CtrlC \/ Closes
  BY <1>6 DEF Network, ReportArrives, Serve, LoseCall, CtrlC, Press, Closes, Closing, StartClose,
              FinishClose, WinRace
<1>7. CASE Works \/ Terminated \/ UNCHANGED vars
  BY <1>7 DEF Works, Terminated, vars
<1> QED  BY <1>1, <1>2, <1>3, <1>4, <1>5, <1>6, <1>7 DEF Next, DoctorStep

\* Whatever ends a process, it had not ended before.
LEMMA RankStep == ASSUME Valued, [Next]_vars PROVE Onward
<1> SUFFICES ASSUME phase' # phase PROVE RankOf(phase') > RankOf(phase)
  BY DEF Onward
<1>1. CASE phase' = "exited"
  <2>1. RankOf(phase) \in 0 .. 11
    BY <1>1, RankBelowExit DEF Valued
  <2>2. RankOf(phase') = 12
    BY <1>1, Ranks
  <2> HIDE DEF RankOf
  <2> QED  BY <2>1, <2>2
<1>2. CASE phase' # "exited"
  <2>1. \/ RankOf(phase) = 0 /\ RankOf(phase') = 1
        \/ RankOf(phase) = 1 /\ RankOf(phase') = 2
        \/ RankOf(phase) = 2 /\ RankOf(phase') = 3
        \/ RankOf(phase) = 3 /\ RankOf(phase') \in {4, 5}
        \/ RankOf(phase) = 4 /\ RankOf(phase') = 5
        \/ RankOf(phase) = 5 /\ RankOf(phase') = 6
        \/ RankOf(phase) = 6 /\ RankOf(phase') = 7
        \/ RankOf(phase) = 7 /\ RankOf(phase') = 8
        \/ RankOf(phase) = 8 /\ RankOf(phase') = 9
        \/ RankOf(phase) = 9 /\ RankOf(phase') = 10
        \/ RankOf(phase) = 10 /\ RankOf(phase') = 11
    <3>1. CASE phase \in {"load", "logging", "auth", "register", "build", "settle"}
      BY <1>2, <3>1, PhaseStep, Ranks, Zenon
    <3>2. CASE phase \in {"secret", "open report", "mapper"}
      BY <1>2, <3>2, PhaseStep, Ranks, Zenon
    <3>3. CASE phase \in {"key", "open", "watch"}
      BY <1>2, <3>3, PhaseStep, Ranks, Zenon
    <3>4. CASE phase \in {"bind", "service", "report", "online", "dial"}
      BY <1>2, <3>4, PhaseStep, Ranks, Zenon
    <3> QED  BY <1>2, <3>1, <3>2, <3>3, <3>4, PhaseStep, Zenon
  <2> QED  BY <2>1
<1> QED  BY <1>1, <1>2

------------------------------------------------------------------------------
(* The port mapping. *)

\* There is nobody who publishes before there is somebody who watches.
MapperInv ==
    /\ local => subscribed
    /\ mapping = "mapped" => fresh \/ phase \in {"borrow", "exited"}

\* A command that waits for a mapping has not slept through one.
NoMappingMissed == phase = "watch" /\ mapping = "mapped" => fresh

LEMMA MapperInvStep == ASSUME MapperInv, Flagged, Valued, [Next]_vars PROVE MapperInv'
<1> USE Zenon DEF MapperInv, GoTo, Exit, Step, doctorVars, watchVars, lifecycleVars
<1>1. CASE Subscribe
  BY <1>1, Zenon DEF Subscribe
<1>2. CASE UpdateLocalPort
  BY <1>2, Zenon DEF UpdateLocalPort
<1>3. CASE Publish
  <2>1. local' = local /\ subscribed' = subscribed /\ fresh' = subscribed /\ local
    BY <1>3, Zenon DEF Publish
  <2> QED  BY <2>1, Zenon
<1>4. CASE Changed
  BY <1>4, Zenon DEF Changed
<1>5. ASSUME UNCHANGED watchVars,
             phase' = phase \/ phase \notin {"borrow", "exited"} \/ phase' = "exited"
      PROVE  MapperInv'
  BY <1>5, Zenon
<1>6. CASE Borrow \/ Watch \/ WatchTimeout
  BY <1>5, <1>6 DEF Borrow, Watch, WatchTimeout
<1>7. CASE LoadConfig \/ InitLogging \/ CreateSecretKey \/ MakeEndpoint \/ Online \/ OnlineTimeout
           \/ OpenReport \/ ProbeRelays
  <2>1. UNCHANGED watchVars /\ phase \notin {"borrow", "exited"}
    BY <1>7 DEF LoadConfig, InitLogging, CreateSecretKey, MakeEndpoint, Online, OnlineTimeout,
              OpenReport, ProbeRelays
  <2> QED  BY <1>5, <2>1
<1>8. CASE ServiceClient \/ BodyReturns \/ ProbeMapper
  BY <1>5, <1>8 DEF ServiceClient, BodyReturns, ProbeMapper
<1>9. CASE SwarmClient
  <2>1. UNCHANGED watchVars
    BY <1>9 DEF SwarmClient
  <2>2. phase \notin {"borrow", "exited"}
    BY <1>9 DEF SwarmClient, StartupClient, CheckKeyFile, BindSwarm, AwaitReport, Dial, Connecting,
              Authenticated, ConnectTimeout, Registered, CallFails, BuildMetricsClient, FirstTick
  <2> QED  BY <1>5, <2>1, <2>2
<1>10. CASE Network \/ CtrlC \/ Closes
  BY <1>5, <1>10 DEF Network, ReportArrives, Serve, LoseCall, CtrlC, Press, Closes, Closing,
              StartClose, FinishClose, WinRace
<1>11. CASE Works \/ Terminated \/ UNCHANGED vars
  BY <1>5, <1>11 DEF Works, Terminated, vars
<1> QED
  BY <1>1, <1>2, <1>3, <1>4, <1>6, <1>7, <1>8, <1>9, <1>10, <1>11 DEF Next, DoctorStep

LEMMA WaitersInvariant ==
    Spec => [](Flagged /\ Valued /\ WhoHasEndpoint /\ Interruptible /\ MapperInv)
<1>1. Init => WhoHasEndpoint
  BY DEF Init, WhoHasEndpoint, HasEndpoint, Connecting, Racing, InRace
<1>2. Init => Interruptible /\ MapperInv
  BY Zenon DEF Init, Interruptible, MapperInv
<1>3. Valued /\ WhoHasEndpoint /\ [Next]_vars => WhoHasEndpoint'
  BY WhoHasEndpointStep
<1>4. Valued /\ Interruptible /\ [Next]_vars => Interruptible'
  BY InterruptibleStep
<1>5. Flagged /\ Valued /\ MapperInv /\ [Next]_vars => MapperInv'
  BY MapperInvStep
<1> QED  BY <1>1, <1>2, <1>3, <1>4, <1>5, TypesInvariant, PTL DEF Spec

\* Ctrl-C is never lost: a process that was interrupted has ended, or has an
\* endpoint that comes nearer to being closed and never back, which ends it.
THEOREM InterruptIsHeard == Spec => []InterruptHeard /\ [][CloseLeft' <= CloseLeft]_vars
<1>1. WhoHasEndpoint /\ Interruptible => InterruptHeard
  <2>1. WhoHasEndpoint => (phase \in Racing => endpoint # "none")
    BY DEF WhoHasEndpoint, HasEndpoint
  <2> QED  BY <2>1, Zenon DEF Interruptible, InterruptHeard
<1>2. Valued /\ WhoHasEndpoint /\ [Next]_vars => [CloseLeft' <= CloseLeft]_vars
  <2> SUFFICES ASSUME Valued, WhoHasEndpoint, [Next]_vars PROVE CloseLeft' <= CloseLeft
    OBVIOUS
  <2>1. endpoint \in {"none", "open", "closing", "closed"}
    BY DEF Valued
  <2> QED  BY <2>1, EndpointStep DEF CloseLeft
<1> QED  BY <1>1, <1>2, WaitersInvariant, PTL DEF Spec

\* No command comes back to what it has left, so it has finitely many phases
\* and is held up, if at all, in one of them.
THEOREM NoPhaseTwice == Spec => [][Onward]_vars
<1>1. Valued /\ [Next]_vars => [Onward]_vars
  BY RankStep
<1> QED  BY <1>1, TypesInvariant, PTL DEF Spec

\* The port mapper may publish and withdraw a mapping at any moment; the
\* command never waits for a change while the mapping is there and seen.
THEOREM MappingNotMissed == Spec => []NoMappingMissed
<1>1. MapperInv => NoMappingMissed
  BY Zenon DEF MapperInv, NoMappingMissed
<1> QED  BY <1>1, WaitersInvariant, PTL
=============================================================================
