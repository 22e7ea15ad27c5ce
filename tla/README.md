# iroh-doctor in TLA+

`iroh-doctor` diagnoses connectivity of iroh endpoints.  It has a set of
one-shot commands (`report`, `port-map`, `port-map-probe`, `relay-urls`), a pair of commands that
run a benchmark session between two nodes (`accept` is the active side,
`connect` the passive one), and a long-running `swarm-client` that polls a
coordinator for test assignments, runs them against other nodes and reports the
results.  These modules model the program's own logic: what its tasks do between
two awaits and how they meet over calls, streams, channels, timeouts and
shutdown.  iroh (endpoints, connections, QUIC streams), tokio, irpc and the
coordinator are not in this repository; they appear only as far as the code
relies on them, and `PROJECT.json` marks those definitions external.

## Inventory

| component | source (`src/src/`) | state | operations | what is hard | what makes it correct |
|---|---|---|---|---|---|
| swarm main loop | `swarm/runner.rs`, `swarm/client.rs` | JoinSet of polling tasks, detached execution tasks, shutdown channel, `SwarmStats` | tick, get, mark, perform, submit, count, reap, shutdown | a timeout over half of the task; calls carried out but not answered; tasks that outlive the loop | statistics never ahead of the coordinator; reports say what their task found; a shutdown is no verdict; started tests are settled; tasks drain |
| swarm startup | `commands/swarm_client.rs`, `swarm/client.rs`, `swarm/rpc.rs`, `runner.rs:236` | endpoint, net report, the call on the wire, what the coordinator has on record | key file, bind, first report, dial, authenticate, register, metrics client, first tick | one timeout over two of five waits; calls carried out for a client that gave up | who serves is registered with a real report; which waits may last |
| test execution | `swarm/execution.rs` | a connection, its clones in stream tasks | throughput, latency, fingerprint executors | result after a failure, close of the connection, tasks that outlive the result | a success is complete; no stream survives a test for ever |
| throughput transfer | `swarm/tests/throughput.rs`, `swarm/transfer_utils.rs` | per-stream counters | split, open, header, send, drain, aggregate | deadlock under flow control, partial failure of parallel streams | the shares sum up, the transfer ends |
| latency test | `swarm/tests/latency.rs`, `runner.rs:193` | ping number, timeouts | ping, pong, timeout, average | silent peers, late answers, zero iterations | reported pings were measured; both sides end |
| swarm protocol handler | `swarm/runner.rs:37` | JoinSet of stream tasks | accept, dispatch, wait | end of the connection against running streams | it returns after every test |
| test parameters | `swarm/rpc.rs:262-314`, `swarm/types.rs` | none | defaults, clamps, conversions | boundaries | the reported chunk is the one on the wire |
| NAT classifier | `nat_classifier.rs`, `swarm/net_report_ext.rs` | none | classify, difficulty | partial information | a verdict on evidence, and only then |
| doctor session | `doctor.rs:205-600` | one stream at a time | send, receive and echo tests, request handling, graceful close | flow-control deadlock, awaiting a progress task whose sender is alive, closing before the peer is done | sessions end, and end cleanly |
| progress updates | `progress.rs`, `doctor.rs:232` | byte counter, channel with room for one, bar position | write, try_send, receive, show | updates that are dropped; the end of the task | the bar is never ahead and never goes back; awaiting it ends |
| accept loop | `commands/accept.rs` | connection counter | accept, handshake, GUI or silent session, release | check-then-act on a counter over tasks | at most one session draws the GUI |
| connect command | `commands/connect.rs` | | dial, passive session | `close_reason` read before the session | it ends with its session |
| relay probe | `commands/relay_urls.rs` | success and fail lists | connect, ping, timeouts | a relay that talks but does not answer | every probe in exactly one list, the command ends |
| process and command line | `main.rs`, `doctor.rs:612-892` | command, endpoint, exit status, the race with Ctrl-C | choose, make the endpoint, wait for a relay, race, close, exit | Ctrl-C in any await; a close dropped half done | Ctrl-C ends every command; nothing else ends what runs for ever |
| port mapping | `commands/port_map.rs` | watcher, local port | subscribe, update, wait, read; probe | a change before the wait, or between the wait and the read | a mapping that stays is noticed |
| report | `commands/report.rs` | endpoint, relays | bind, print reports | never ends by itself | ends by Ctrl-C |
| configuration, logging, metrics | `config.rs`, `logging.rs`, `metrics.rs` | relays, log files, registry | load, default, initialise | which file is read, what fails | a command starts with a valid configuration or ends |
| stream statistics | `swarm/types.rs:104-270` | none | variance, balance | floating point | not modelled |

How they meet: the main loop spawns one polling task per tick, and each polling
task spawns one execution task, which calls `perform_test_assignment`.  The
executors open a connection to another node, whose protocol handler serves
their streams.  Executors, stream tasks and handlers share nothing but the
connection, and its end, by `close()`, by the drop of its last handle or by
loss, is the only signal among them.  `accept` and `connect` talk over streams
of one connection in the same way.

## Modules

Every action is what one task does between two awaits.  Calls and streams are
external; whatever they can do to the task is a choice of the model.

### `DoctorRun`, `SwarmStartup`, `Lifecycle`

The process from `main` to its exit status, in three layers that extend each
other.

- `Lifecycle` is the end: `phase` is what the process awaits, `status` how it
  ended.  `close_endpoint_on_ctrl_c` and the body of a command race.  From the
  start of the race SIGINT is listened for: the first one starts `close()`, a
  second one does nothing; before, and in commands without a race, it kills the
  process.  When the body returns first, the close is dropped half done.
- `SwarmStartup` is `swarm-client` up to the first tick.  There is one `request`
  at a time with its `answer`; the coordinator may carry out a call of a client
  that has already given up.  `netReport` is the endpoint's, `extended` what the
  client made of it, `registered` what the coordinator stored.  An error of the
  metrics client returns from the loop's function, which the race takes for the
  end: status 0.
- `DoctorRun` adds `NodeConfig::load` (which of the files is read, what is
  invalid), logging, secret keys, `make_endpoint` with its relays, and the
  commands `report`, `port-map` and `port-map-probe`.  `fresh` is tokio's
  version of a watched value: a change counts for a watcher that existed when
  it happened.  The sessions of `accept` and `connect`, the swarm's loop and
  `relay-urls` have modules of their own and are one step here.

### `SwarmRunner`, `ReportLedger`

`SwarmRunner` is `run_swarm_client_inner` with its polling tasks
(`assignment_processing_task`) and execution tasks, and the conversation with
the coordinator.

- `poll[t]` is the polling task of tick `t`: `getting` and `marking` are its two
  remote calls, both under the 20 s timeout (`PollTimeout`), `awaiting` is the
  wait for its execution task, outside the timeout; `done` and `timedout` are
  in the JoinSet until `Reap`.
- `exec[t]` is the execution task: `running` a test, `submitting` the report,
  then `completed` or `failed` when it was counted, or one of four ways to be
  lost (`unsent`, `panicked`, `cancelled`, `killed`).
- A call is in `requests` until the coordinator takes it or it is lost; the
  answer is in `replies` from then on.  It carries what the client knew when it
  made the call (`MarkCall`: the test, `ReportCall`: the test and the verdict),
  and that is what the coordinator acts upon, however late.  The client may fail at any moment of
  it, so a call that failed may have been carried out, be carried out later, or
  never.  `ServeGet`, `ServeMark` and `ServeReport` are what the client expects
  of the coordinator: pending tests are handed out, a test is marked once, a
  report is stored as it was sent.  `request_id` is drawn anew for each call and
  tells the reports of two tasks apart; the model has the task in its place.
- `phase` is the shutdown: Ctrl-C starts `endpoint.close()` (`closing`), then
  the loop is dropped with its JoinSet (`DropInner`), then the runtime kills
  what is left (`Exit`).  The shutdown channel is never sent on; execution
  tasks see it closed after `DropInner` (`ExecShutdown`).
- `PerformReturns` is a whole test.  `PerformPanics` is the division by zero of
  a latency test with `iterations: Some(0)`, see `LatencyTest`.

`ReportLedger` is the promise without tasks, calls and timeouts: one report per
task is stored, and it is counted once, after it was stored, in the class of its
verdict.  `SwarmRunner` implements it with `stored <- reports` and `counted`
the tasks that are `completed` or `failed`.

### `DoctorSession`

`active_side` and `passive_side`.  The active side runs `send_test`,
`recv_test` and `echo_test` in turn (`Kind(test)`), each on a stream of its own,
while a spawned task (`reader`) copies what comes back.  The passive side takes
one stream at a time and handles its request in one task.  `up` and `down` are
the two directions of the current stream with the blocks written and read and
the finish; `CanWrite` is flow control.  `writers` holds the `ProgressWriter`s
that are still alive: a side in state `progress` awaits its progress task, which
ends when the writer is gone; `ProgressWriter` has that task.  Sessions without
the interface have a progress task that ends at once; the model has the
interface, where it must be waited for.  `Lose` may take the connection at any time, Ctrl-C included.

### `ProgressWriter`

The writer under each of these copies.  `accepted` is what the inner writer took
and `counted` the writer's own counter; after a write the total goes into a
channel with room for one, or is dropped when that is full.  The progress task
(`progress`, `held`) shows what it receives, until the writer is gone and the
channel empty.  `ProgressEnds` is what `DoctorSession` takes for granted when a
side in state `progress` goes on.

### `AcceptLoop`

One task per connection around the atomic counter of `accept`: `FetchAdd` takes
the old value as the `seat`, the handshake and the session follow, `Release`
gives it back.  A session is one step here; `DoctorSession` has its inside.

### `TestExecution`

`perform_test_assignment` with its three executors (`phase`, `result`, `fault`),
one task per parallel stream (`client[i]`), and the peer's handler with a
receiving and a sending task per stream.  `upSent`, `upRead`, `downSent` and
`downRead` count bytes in both directions under flow control (`Window`), and
`MaxStreams` is the transport's limit of concurrent streams.  The executor awaits the stream tasks in
order (`AwaitStream`); the first failure or the timeout returns a result while
the others run on with their own handles.  `DropLast` is the close of a
connection nobody closes: it happens when the last handle is gone.  `Cancel` is
the drop of the whole executor at shutdown, in whatever await it is; it comes
after the endpoint was closed, so there is no connection left that is up.  The
latency phase is one step, `LatencyTest` has its inside.  The peer runs this
program.

### `LatencyTest`

`run_latency_test_on_connection` and `handle_latency_test`: one stream per ping,
the timeout over the wait for the pong only, the average that panics when there
was no ping.

### `AssignedTest`

What the main loop expects of the test it awaits (`runner.rs:101-146`): data is
moved, or measurements made, a part at a time, and there is one verdict, which
is final; success comes only with everything done.  `TestExecution` implements
it with the bytes summed over both directions, `LatencyTest` with the latencies
measured.  What goes on after a timeout or a shutdown, in stream tasks nobody
awaits or a pong on its way, must be a stutter.

### `TestParams`

What `throughput_config` and `latency_config` make of the optional numbers in an
assignment, and what `send_data_on_stream` and `ThroughputResult::new` make of
the chunk size after that.  A state is an assignment; a step changes a setting.

### `NatClassifier`

`classify_nat_type` and `p2p_difficulty` over all reports the types admit:
four flags, four optional observations, and no report at all.  A step is a new
observation.

### `RelayProbe`

The `relay-urls` command: rounds of connect, ping and pong with their timeouts,
a relay that may answer, send something else, or keep silent, and the two lists
that are printed.

### Proof modules

`SwarmRunnerProofs`, `AcceptLoopProofs`, `TestExecutionProofs`,
`LatencyTestProofs`, `RelayProbeProofs` and `DoctorRunProofs` extend the module
of the same name, `DoctorSessionProofs` extends `DoctorSession` and
`ProgressWriter`, `TestParamsProofs` extends `TestParams` and `NatClassifier`.
`MCSwarmRunner` gives constants their values; `MCData` does so too and joins
`TestParams` and `NatClassifier` in one run, each explored while the other is at
its start.

## Runs

| run | question | instance |
|---|---|---|
| `swarm` | do statistics and reports stay true under loss, late calls, timeouts and shutdown; does a shutdown pass for a verdict; are tests settled and tasks reaped, silence of the coordinator apart | 2 polling tasks, 2 tests, one of them without iterations |
| `swarm_duplicate` (finding) | does the answer of `mark_test_started` prevent a second run | the same |
| `session` | do the sides stay in step, wait for each other in a circle, end, and end cleanly | 2 iterations (6 tests), 4 blocks, window 1 |
| `accept` | can two sessions draw the interface; is the seat given back on every path, with sessions that may never end | 3 connections |
| `progress` | is the bar ever ahead or going back; does awaiting it end | 5 bytes, writes of up to 3 |
| `execution` | is a success complete; is the verdict one and final; can the tasks wait in a circle; does a transfer end by itself; is everything released | 2 streams, 3 bytes, chunks of 2, window 1, one stream admitted at a time |
| `execution_success` (finding) | does a success mean that nothing failed | the same, 2 streams admitted |
| `latency` | are reported pings measured; is the verdict final; do both sides end | 5 pings |
| `data` | do defaults, clamps and conversions agree; is a verdict given exactly on evidence | both sides of every bound and default; all 1297 reports |
| `params_defaults` (finding) | are the documented defaults in force | the same |
| `relay` | is each probe in one list; does the command end | 2 relays, 2 rounds, timeouts of 2 ticks |
| `process` | who serves is registered; what may end, and what may hold, a command | complete: the module has no constants |

Why these bounds are enough to be of interest.

- *swarm*: two tasks are what it takes to compete for a test, and two tests what
  it takes to tell them apart; `Tasks` also bounds the ticks.  The safety
  properties are proved for any number.
- *session*: two iterations have the first test follow the last one again.  A window of one
  block is the strictest: with any larger one a side can only write sooner.
  Four blocks are more than the window, so that a side that does not read blocks
  the other.
- *accept*: with three tasks one can hold seat 0 while two others overtake it.
- *progress*: one write fits several times, so that updates are dropped with
  the channel full and with the task holding one.
- *execution*: three bytes over two streams leave a remainder for the last
  stream, and chunks of two leave one within a share; the window of one byte is
  smaller than a share.  With one
  stream admitted at a time the second waits for the first, the case in which a
  cyclic wait could arise; `execution_success` admits both.
- *latency*: a first, a last and three middle pings.
- *data*: `MCChoices` has a missing value, zero, every default and the values
  on both sides of every bound; the reports are all there are.
- *relay*: after the first, every probe follows a success and a
  failure; two ticks allow a stray message before and after a tick.

`CHECK_DEADLOCK` is on everywhere: a module's `Terminated` names the states in
which its component may rest, so a state where everyone waits on everyone is
reported.

## Fairness

- `SwarmRunner`: a timer that is due fires (`PollTimeout`), a task that is ready
  is polled (`AwaitReturns`, `Reap`, and `SubmitReplied` once the answer is
  there), and shutdown goes on once it has begun.  A test ends (`PerformEnds`): each
  executor has a timeout or the timeouts of its pings; `TestExecution` and
  `LatencyTest` have the detail.  Nothing makes the coordinator answer, a
  request survive, or the user press Ctrl-C.  In particular `submit_result` has
  no timeout (`runner.rs:127`, outside the one of `runner.rs:315`), so neither an
  answer nor an error of it is fair; `StartedIsSettled` and `TasksDrain` name
  the silent coordinator as the one that may hold a test and its two tasks.
- `DoctorRun`: the process goes on when it can, a timeout that is due fires and
  closing an endpoint ends.  Not fair are Ctrl-C, the network, the coordinator,
  the port mapper and its timeout (`MappingIsNoticed` must not rest on it, and so
  `StartupSettles` lists the phase `watch` among those that may last), and
  the clients of `iroh_services` and the probe, which have no timeout.
  `AnsweredStartupEnds` assumes of the network what its formula says.
- `ProgressWriter`: the progress task is polled when it is ready; the writer need
  not write, nor be dropped.
- `DoctorSession`: the three tasks are polled when they are ready.  The loss of
  the connection need not come, so a session ends by itself.
- `AcceptLoop`: tasks run, handshakes end by the transport's own timeout.
  A session may last for ever: without `--iterations`, the default, it goes on
  until its peer leaves (`doctor.rs:97-99`).  `CounterSettles` therefore says
  that the counter comes to be the number of sessions that stay.
- `TestExecution`: tasks run at both ends, connecting and the latency phase end.
  `Timeout` has no fairness, so that `ExecutionEnds` says the transfer never
  needs it.
- `LatencyTest`: the client's task and timers run.  `TestEnds` holds with a peer
  that never answers; `HandlerReturns` assumes that the peer's tasks run, as its
  formula says.  Both sides of a choice between pong and timeout are open.
- `RelayProbe`: time passes and a timeout that is due is seen.  A relay owes
  nothing.  That sending the ping ends is an assumption: `relay_urls.rs:112` is
  not under a timeout.

## Findings

Three runs state what the repository says of the program and are violated by
what the code does.

1. `swarm_duplicate`.  `mark_test_started` is documented to prevent duplicate
   assignments and answers whether the test was marked; `runner.rs:89` launches
   the test whatever the answer is.  Two polling tasks that got the same pending
   test both run it.
2. `execution_success`.  `TestResultReport::success` is documented as "Check if
   the test was successful"; a fingerprint test that failed in any of its phases
   is returned as a `Fingerprint` result, for which it is true, without an error
   message.  The statistics count it as completed.
3. `params_defaults`.  The documented defaults of `chunk_size_kb` (64) and
   `ping_timeout_ms` (1000) are not the ones in force (1024 and 3000); the
   documented range of the chunk size, 16-512, is not enforced either.

Seen while modelling and not given a run of their own.
`submit_result` has no timeout: a coordinator that stays connected and never
answers keeps the execution task and the polling task that awaits it for ever,
and every tick may add another pair to the JoinSet.
`network.connection_timeout_secs` is a documented setting of an assignment
(`types.rs:79`) that nothing reads.  The text of a timed-out transfer says 30
seconds (`execution.rs:148`), the default is five minutes (`types.rs:12`).
`report` closes its endpoint after a stream that does not end
(`report.rs:53`).  `swarm-client` ignores the configured relays
(`swarm_client.rs:36`).  When the metrics client of the swarm cannot be built,
the command ends with status 0.  `classify_nat_type` says
it checks both the IPv4 and the IPv6 variation (`nat_classifier.rs:68`), but an
IPv4 mapping that does not vary hides an IPv6 mapping that does.

## Proofs

TLAPS proves every safety property that a run checks, invariants and action
properties, for every value of the constants, under the assumptions the modules
name (`Tasks` and `Incoming` are finite; sizes and numbers are natural,
`Streams`, `ChunkSize` and the limits positive).  `TestParamsProofs` shows that
the numbers that reach `TestExecution` from an assignment satisfy the latter's
assumptions.

### Safety

None of the invariants is inductive by itself.  What is added, and why:

- `SwarmRunnerProofs`.  `StatsBacked` compares two counters with a set that only
  the coordinator changes.  `CountInv` says that a counter is the number of tasks
  counted in its class, `AckInv` that every such task has a stored report and the
  verdict of its class, and that an answer to a submission exists only for a
  stored report; the map from tasks to their reports is then an injection, and
  the cardinalities follow.  `WireInv` says what a call on the wire carries:
  the test its task took, and for a report the verdict that task reached and
  keeps, so that two submissions of a task are the same one.  What is
  stored of it long after the task gave up is then still true
  (`ReportFaithful`).  `LaunchInv` orders polling task, execution task and
  shutdown (`NoLaunchAfterDrop`).  `ShutdownIsNoVerdict` needs one thing more for each task
  that was not done when the endpoint closed: `ShutOut`, that none of its
  submissions is on the wire or stored, which no later step changes, since
  a closed endpoint sends nothing and an answer is counted only for a stored
  report.  With these, every step is a step of
  `ReportLedger` or a stutter (`LoopIsLedger`).
- `DoctorSessionProofs`.  No message names the test, so `Lockstep` needs to know
  where each request is: `ServeInv` says that there is one request, on the
  stream or being served, for the current test; `BetweenInv` that between two
  tests both sides have counted the same number; `DataInv` ties bytes written,
  read and finished to the kind of the test, which gives `NoShortTransfer`.
- `AcceptLoopProofs`.  The counter is the number of tasks between `fetch_add` and
  `sub`, and among those one at most holds seat 0: a seat of 0 is only taken when
  there are none.
- `TestExecutionProofs`.  The sums over the tasks awaited so far are the sums of
  their shares, and a task that ended well has carried its share both ways
  (`SumInv`, `DataInv`); the arithmetic is that shares add up to the size and
  chunks to a share.
- `LatencyTestProofs`.  Latencies measured are pings passed, and a result is only
  made at the last.
- `DoctorRunProofs`.  A call served late is the difficulty: the coordinator may
  register a client whose phase is long another.  `CallInv` says that from the
  dial on there is a real report, that a call is only made with one, which call
  belongs to which phase, and that an `ok` of that call is what the coordinator
  has on record.  The end with status 0 then follows from the phase it was
  reached from.  `OnlyInterruptsEnd` needs `EndpointInv`: an endpoint in use is
  closed by the handler of Ctrl-C alone, so a step that ends a registered client
  finds it closed only after an interrupt, or is the failure of the metrics
  client, which the property names as the one other end.
- `DoctorSessionProofs`, second part.  `ProgressInv` orders the numbers: shown,
  held, in the channel, counted, accepted, each at most the next.
- `RelayProbeProofs`.  A pong in the inbox is the answer to the ping of the probe
  in hand, which a success then needs no check of.
- `TestParamsProofs`.  A chunk size in force is a whole number of kibibytes
  within the sender's own bounds, so that neither the second clamp nor the
  division for the report changes it.  For the classifier, the type of a report
  is all it takes, also for the action property (`PortsRefineOnly`).

### One test, from the loop to its last byte

`TestExecution` implements `AssignedTest` (`ExecutionIsTest`: the bytes moved are
the sums over awaited tasks, they grow only while the executor runs, and are all
of the data when it returns without a fault), and so does `LatencyTest`
(`LatencyIsTest`).  `EveryTestIsOne` is the other half: for each task of the main
loop, the verdict that task has of its test is that of an `AssignedTest` (of one part,
done with its success).  `PerformReturns` settles it, or a panic, the shutdown or
the end of the process does, as a failure; neither a late answer of the
coordinator, nor a failed submission, nor the drop of the loop changes it.
So what the loop takes for one step and what the executors do have the same
abstract test between them, and what the loop then promises of its verdict
(`ReportFaithful`, `LoopIsLedger`) is about the test that was run.

### What stands behind the liveness properties

Fairness and ENABLED are beyond the prover, so no liveness property is a theorem.
Proved is the part of each argument that does not need them: *no step goes back*
(what is left is bounded, and every step of the program lowers it, whatever the
others do and in whatever order), and *someone can go
on* (as long as the thing is not over, a task has its next step and does not need
a loss, a timeout or Ctrl-C for it).  With the fairness named above, the two give
the liveness property; that last inference is TLC's, on the instances.

| property (TLC) | no step goes back | someone can go on |
|---|---|---|
| `SessionEnds` | `SessionMovesOn` | `NoCyclicWait` of `DoctorSessionProofs` |
| `ExecutionEnds`, `EverythingReleased` | `ExecutionMovesOn` | `NoCyclicWait` of `TestExecutionProofs` |
| `TestEnds`, `HandlerReturns` | `TestMovesOn` | `ConnectionIsReleased` |
| `TasksDrain` | `LoopMovesOn` | `NoTaskStranded` |
| `StartedIsSettled` | `LoopMovesOn` | `StartedNotForgotten` |
| `CounterSettles` | `SeatsComeBack` | |
| `ProgressEnds` | `TaskDrains` | |
| `ProbingEnds` | `ProbingMovesOn` | |
| `StartupSettles`, `AnsweredStartupEnds` | `NoPhaseTwice` | |
| `InterruptEnds` | `InterruptIsHeard` | |
| `MappingIsNoticed` | | `MappingNotMissed` |

- *No cyclic wait.*  `NeverStuck` of `DoctorSession` and of `TestExecution` is an
  invariant of the runs too.  It is written as what each task waits for, not with
  ENABLED.  In a session the argument follows the stream: if the active side
  cannot write, the window is full and the passive side, which serves the same
  test (`Lockstep`), can read or, in an echo, write to a reader that is always
  willing.  In a transfer it is for all streams at once: with more streams than
  the transport admits, the task that waits for one waits for another stream to
  be finished, and the task of that stream, whatever its window, is not waiting
  for anybody but its own peer; the executor awaits tasks in order, but the tasks
  do not await the executor.  After a failure, the handles that are left are those
  of tasks that can go on, and the last of them takes the connection along.
- *Measures.*  For a session and a latency test the measure is a sum; where
  streams or tasks are many it is taken by each (a step lowers one and raises
  none), which for a finite set is as good and needs no sum in the proof.
  `SessionMovesOn` excepts only `Lose`, the loss of the connection, which happens
  once.  In `ProbingMovesOn` a stray message may arrive without end, but gives a
  probe no new time.
  In `LoopMovesOn` a step of the coordinator takes a call off the wire, and calls
  come only from steps of tasks.  Steps of the network in `DoctorRun` change no
  phase and are not counted; `NoPhaseTwice` is about phases alone, and which of
  them may last is `StartupSettles`'s to say.
- *Started tests.*  `StartedIsHeld` is the state in which a started test may be
  before it is settled: some task marks, runs or submits it, or it is `Lost` in
  one of the ways the property names.  `HeldInv` and `OwnedInv` make it
  inductive: a task takes one assignment once, and lets go of it only when the
  coordinator holds it for reported.
- *Mappings.*  A mapping that is there while `port-map` waits is fresh for its
  watcher: nobody publishes before there is a watcher, since the local port is
  only set after the subscription (`MapperInv`).

### Only model-checked

The liveness properties themselves, the table's first column.  Type invariants
are proved as parts of the invariants and no run repeats them, but for
`AcceptLoop`'s, which says that the counter never goes below zero.

## Not modelled

- Durations, rates, latencies and the statistics over streams
  (`TestStats::from_streams`): floating-point results that no control depends on.
- The wording of reports and logs, the drawing of progress bars, the formats of
  configuration files and keys, command-line parsing, the metrics server (a task
  that nothing waits for), cache directories.
- The transport configuration of `SwarmClient::connect` (u32 arithmetic at
  `client.rs:65`): its only caller passes none.
- Sending the ping of `relay-urls` (`relay_urls.rs:112`) is assumed to end.
- Sessions without a number of iterations, the default of `accept` and
  `connect`: `DoctorSession` has a given number, and `SessionEnds` is about such
  sessions only.
- `TestExecution` allows a limit of concurrent streams as low as one
  (`MaxStreams`), and its properties hold for all of them; the default transport
  admits more streams than a test opens, so this program meets the limit only with a
  transport configuration that its command does not pass.
- `send_blocks` with a block size of 0, which no active side of this program asks
  for.
- `close_reason` in `connect`: it is read before the session (`connect.rs:30`)
  and only decides how the last line reads.
- The accuracy of timeouts: a timeout may fire at any moment after its start,
  in `RelayProbe` after `Patience` ticks.

## Plan

Done, in this order: the swarm main loop and its ledger; the session and the
accept loop; test execution with its transfer and handler; latency test; test
parameters; NAT classifier; relay probe; the process with the startup of the
swarm and the remaining commands; progress updates; the abstract test and its
two refinements; proofs of the safety properties of all of them.

What could follow:

1. The composition of `SwarmRunner` with `AssignedTest`, in which `PerformReturns`
   is no longer one step.  `EveryTestIsOne` has the abstract half of it.
2. A handler that serves streams of both kinds of one connection, and several
   connections at a time.
