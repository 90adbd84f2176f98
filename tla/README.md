# TLA+ models of networker-tester

networker-tester measures network paths. A control plane (C#, `src/src/Networker.ControlPlane`) keeps
test runs in PostgreSQL and hands them to agents; an agent (C#, `src/src/Networker.Agent`) holds one
WebSocket to the control plane and executes each run by starting the Rust program `networker-tester`
(`src/crates/networker-tester`). The tester probes a target, which may be the project's own server
`networker-endpoint` or an application that mounts the SDK route (`src/sdk/rust`), and stores what it
measured; all Rust programs log through `networker-log`.

This directory models four questions:

1. does every run reach exactly one well-defined end, whatever connections, processes and sweeps do
   (run control, agent presence)?
2. does a tester publish exactly the attempts it made, and does each attempt say what happened on the
   wire (run loop, probers)?
3. do the servers it measures against answer exactly, and within their limits (endpoint, SDK)?
4. does what was measured arrive, whole and honestly labelled, in files, database and log (output,
   log pipeline)?

## 1. Inventory

### Control plane and agent (C#)

| Part | State it keeps | Operations | Talks to |
|---|---|---|---|
| `RunDispatcher` | none of its own; `test_run` rows | launch, inline dispatch, select agent, assign and claim, redispatch, cancel | registry (sends), rows |
| `QueuedRunRedispatchService` | its tick | one `RedispatchQueuedAsync` per tick, under a leader lock | `RunDispatcher` |
| `AgentConnectionRegistry` | agent id to live connection (memory) | register, unregister (compare and remove), online tests, sends | endpoint, dispatcher, watchdog |
| `AgentSocketEndpoint` | the socket of a connection | accept, register, receive loop, cleanup | registry, processor |
| `AgentMessageProcessor` | `test_run`, `agent`, attempt rows | one handler per frame type, connect, disconnect | rows, event bus |
| `WatchdogService` | the lists of its tick | fail stale running and stuck queued runs; sweep deployments | rows, registry |
| `AgentWorker` | handle table, run slots, recently finished ids | assign, cancel, shutdown, task body, teardown | executor, socket client |
| `RunExecutor` | a child process per run | start, relay, finish, fail, cancel | frame sink |
| `RawWebSocketClient` | bounded outbound channel | connect, pump, receive, try/critical sends | endpoint |
| API-key rotation | key hash of the agent row | write the hash, send `shutdown` | registry |
| `ReaperService` | the lists of its tick; `agent` rows | flip stale rows offline, retire, purge | rows, registry |
| Provisioning orchestrator, deploy runner, recovery | deployments, testers, pending runs | provision, promote, tear down | cloud CLIs, rows |
| Leader election, power state, scheduler, inactivity, auto-upgrade | rows and advisory locks | one periodic tick each | rows, cloud CLIs |

### Tester, endpoint, log and SDK (Rust)

| Part | State it keeps | Operations | Talks to |
|---|---|---|---|
| Run loop (`cli.rs`, `target_runner.rs`, `benchmark.rs`) | resolved configuration, sequence counter, attempts, phase counters, plan | resolve and validate, warm up, iterate over modes and sizes, retry, pilot, adaptive stop, stacks | `dispatch_once`, `h3_offer` memo |
| `dispatch.rs` | none | choose the prober, cap the attempt | probers |
| Packet probers | outstanding-probe table, search interval | UDP echo, STAMP, ping, UDP transfers, path MTU, trace | endpoint's UDP services, kernel error queue |
| Stream probers | results of the stages passed | DNS, TCP, proxy, TLS, HTTP/1.1, 2, 3, native TLS, curl, WebSocket, dual stack, transfers | any server |
| Page and browser loads | per-connection and per-asset state, shared connection, request map | manifest, assets, warm reuse; CDP event drain | endpoint, Chrome |
| Load probers | load connections, byte counters, samples | ramp, saturate, paced probes, stop | endpoint |
| Result store | migrations, a transaction | migrate, save a run, URL test or TLS profile | PostgreSQL, SQL Server |
| Benchmark artifact | none | cases, samples, summaries, quality gates | stdout, store |
| Capture, URL diagnostic, TLS profile | a tshark child; a diagnostic run; a profile | start, finalise, summarise; navigate, validate; handshake, probe, judge | tshark, Chrome, TLS servers |
| `networker-endpoint` | bound sockets, tasks, upload states | bind, serve, reply, shut down | clients |
| `networker-log` | sender slot, channel, batch, metrics | log an event, flush, retry, shut down | PostgreSQL |
| Rust SDK | rate buckets, slot counters, byte budget | gate, limit, stream, drain | host application |
| Report writers, dashboard, other SDKs, installers, benchmark orchestrator | - | formatting, user interface, scripts | - |

### What is hard here

* **Every await is a hole.** An assignment is three awaits (select, send, claim) and a redispatch
  tick works through rows it read at its start; cancels, frames and sweeps fall in between. A page
  load is a dozen awaits with different deadlines, and some without.
* **Two views of liveness.** The registry lives in memory and is lost at a restart; the rows live
  in the database; the agent decides by itself what a disconnect means for its runs.
* **Old messages speak late.** Frames of a broken connection, echoes of an earlier probe, an ICMP
  error about an earlier datagram, an acknowledgement of an earlier upload.
* **Bounded things.** Run slots, dedupe memory, outbound channel; SDK slots, rate buckets and byte
  budgets; the log channel.
* **One step of several fails.** A bind, an insert, an asset, a flush: what was done before must be
  kept, undone or reported, not half of each.
* **A measurement that is wrong looks like one that is right.** Loss, rates and latencies that are
  attributed to the wrong probe, load or size raise no error.
* **Everything must end**: runs, attempts, testers, shutdowns.

PROJECT.json lists every part with its status, and the hazards at their lines with the properties
that would catch them.

## 2. Modules

| Module | Models | State |
|---|---|---|
| `RunWire` | frames and connections (`AgentProtocol`, `RawWebSocketClient`) | `conn`, `open`, `wire`, `inbox`, `outbox` |
| `AgentWorker` | `AgentWorker`, `RunExecutor` | `task`, `handle`, `permits`, `recent` |
| `RunControl` | `RunDispatcher`, redispatcher, registry, processor, run sweeps, key rotation | `run`, `registry`, `op`, `sweep`, `cancelling`, `stale`, `stuck` |
| `RunSystem` | the composition: connects, disconnects and faults; fairness; properties | `faults` |
| `RunLifecycle` | abstract: what may happen to a row's `status` and `worker_id` | `row` |
| `AgentPresence` | one agent's connections: every await of `AgentSocketEndpoint.HandleAsync`, the agent row, `ReaperService` | `dialed`, `link`, `handler`, `seen`, `registry`, `row`, `reaper`, `restarts` |
| `RunSafetyProofs`, `AgentPresenceProofs` | theorems about run control, with proofs | |
| `ProbeRunProofs`, `WireProbesProofs`, `BulkProbesProofs`, `TesterOutputProofs`, `ServerProofs`, `LogPipelineProofs` | theorems about the Rust programs, with proofs | |
| `ProbeModes`, `Dispatch` | the modes and which prober, sizes, caps and HTTP/3 checks each has; the mode being probed | `mode` |
| `ProbeRun` | `Cli::resolve`, `validate`, `run_for_target`, `benchmark.rs`, `h3_offer` | `cfg`, `pc`, `seq`, `queue`, `active`, `batch`, `attempts`, `iters`, `counts`, `plan`, `warm`, `memo` ... |
| `Datagrams` | the network between a packet prober and the endpoint | `toServer`, `toClient`, `dups` |
| `EchoTrain` | `udp.rs`, `stamp.rs`, `ping.rs` and the endpoint's echo and STAMP reflector | `sent`, `credited`, `arrived`, `returned`, `nextSeq` ... |
| `UdpThroughput` | both sides of the UDP bulk transfer | `chunks`, `got`, `blasts`, `upload`, `reached` |
| `PathSearch` | `pmtud.rs` (Linux, portable, Windows) and `path.rs` | `path`, `lo`, `hi`, `tries`, `seen`, `hops`, `late` ... |
| `StreamProbes` | the request-response probers, stage by stage | `todo`, `have`, `completed`, `resp`, `attempt` ... |
| `WireProbes` | composition of the four families above under `dispatch_once` | |
| `PageLoad` | `pageload.rs`: HTTP/1.1, 2, 3, cold and warm | `at`, `up`, `silent`, `asset`, `shared`, `loads` ... |
| `BrowserLoad` | `browser.rs`: Chrome, its event streams, the waterfall | `queue`, `pending`, `order`, `browsed`, `profile` |
| `LoadProbes` | `rpm.rs`, `responsiveness.rs`, `mthroughput.rs`, `load_gen.rs` | `conns`, `counters`, `snaps`, `measure`, `satAt` ... |
| `BulkProbes` | composition of the three families above | |
| `EndpointServer` | `networker-endpoint` processes of one host | `pc`, `h3_port`, `sockets`, `tasks`, `up`, `session` |
| `SdkService` | the SDK route under concurrent requests | `now`, `global`, `ips`, `in_flight`, `transfers`, `used`, `req` |
| `ResultStore` | `output/db`: migrations and saves, PostgreSQL and SQL Server | `schema`, `recorded`, `advisory`, `stored`, `session`, `faults` |
| `Capture`, `UrlDiagnostic`, `TlsProfile` | `capture.rs`, `url_diagnostic.rs`, `tls_profile.rs` | `tshark`, `pcap`, `summary`; `url`; `tls` |
| `BenchmarkArtifact` | `output/json.rs`, a pure function of a run | |
| `TesterOutput` | `main.rs` and the two other command lines: work, capture, artifacts, database, exit | `stage`, `runs`, `files`, `artifact` |
| `LogPipeline` | `networker-log`: layer, channel, batch writer, guard | `slot`, `channel`, `buffer`, `writer`, `rows`, `metrics` ... |
| `MCRunSystem`, `MCProbeRun`, `MCWireProbes`, `MCServers`, `MCTesterOutput` | instances for TLC | |

`RunSystem` extends `RunControl` and `AgentWorker`, which both extend `RunWire`. `AgentPresence` stands
beside them: `RunSystem` takes a connect (accept and register) and a cleanup as one step each, which
is what `AgentPresence` takes apart. Its `LiveConnectionRegistered` is what makes the coarser view
right, and it needs the same assumption (`PromptConnect`). `ProbeRun` takes an attempt as one step
(it succeeds or fails, and how many bytes it carries); `WireProbes` and `BulkProbes` take one attempt
apart. `TesterOutput` starts where `ProbeRun` ends.

### Run control

A `test_run` row is `status`, `worker_id`, `tester_id` and two clocks: `aged` (older than
`QueuedMinAgeSecs`) and `quiet`, the silence since the last heartbeat in the levels the sweeps tell
apart (120 s, 300 s, 15 min). Each await of `TryAssignAsync` is one action (`TryAssignSelect`,
`TryAssignSend`, `TryAssignStamp`; a send over a connection that is gone or being torn down is refused, or
accepted and lost), run by the launch request of each run and by the one redispatch
tick. `CancelAsync` is `Cancel` (guarded update) and `CancelFanOut` (select and send). A watchdog tick
is a scan and one reap per snapshot, with the registry asked at the reap. An agent task is the
`Task.Run` body: `waiting` for a slot, `acquired`, `executing`, `done` (before its `finally`); its token
is the `CancellationTokenSource` of its handle. A connection is numbered; frames of an older one remain
in its own `outbox` until processed. `Saturation` says how full the outbound channel gets: never, for a
moment (plain sends are lost) or longer than `CriticalSendTimeout` (terminal frames are lost too).

In `AgentPresence` an update through EF's change tracker (`HandleConnectAsync`, `OnHeartbeat`,
`HandleDisconnectAsync`) is a read and a save; the save writes the status only if it differs from the
one that was read, so that two handlers can skip or overwrite each other's change. `beat` is the age
of `last_heartbeat` in the levels 90 s and 30 days. Rows of different agents never meet, so one agent
is enough.

Payloads, counters, attempts and messages are data no property of run control is about.
`attempt_event` and `run_progress` are one frame (both only touch heartbeat and counters). Relayed
stderr lines are left out: `OnError` recognises their prefix and ignores them. Compatibility of
agent versions is the set `Compatible`. Equal loads are broken arbitrarily (the code takes the
query's order). `CancelAllRuns` is one step. A method of the agent is one step from one await to
the next, though the thread pool could interleave two of them there: `HandleAssign` looks up
`_recentlyFinished` (`AgentWorker.cs:211`) before it registers the handle (`:220`), so a repeated
`assign_run` that is looked up just before the first task finishes and registered just after it would be
executed again, one after the other; no property is about that. The limit of a redispatch query
(`QueuedRedispatchLimit`) is not reached. There is one control-plane process. A pending run
(`PendingRun`) is launched and can be cancelled, but not promoted, and its row never says
`provisioning`. A tick of the queued sweep that is skipped because a tester is waking is a tick not
taken. A process that dies is started again and redials.

### Run loop and probers

`ProbeRun` begins with a command line and an optional configuration file, resolves and validates them as
`cli.rs` does, and then takes one step per task start, per try and per end of an iteration.
`buffer_unordered` is the set `active`: any of its tasks may end next, and the head of `queue` joins it if
`Joins` allows (its mode is the running one and a place is free; for a stack, nothing runs). A sample's tries are kept in its
task until the burst is over, as in the code; the sequence numbers are taken in blocks up front for
targets and one by one for stacks. Elapsed time and error bounds enter as a choice wherever
`benchmark_adaptive_status` compares them.

In `WireProbes` a datagram is what a receiver can tell of it (command, sequence number, transfer); the
network loses, delays and reorders without limit and duplicates `MaxDuplicates` times. Round-trip times
are abstracted to which probe a reply is credited to: `arrived` and `returned` are history that the
properties compare with the result. A stream probe is a sequence of stages, taken from the code per mode
(`Stages`); a stage succeeds, fails with one of the causes the code distinguishes, or falls silent, and
then only a deadline of the code can end it. The evidence an attempt keeps on each failure path is
`Kept`. `PathSearch` has small sizes between a floor and a ceiling, a path with its own MTU and any mixture of
ICMP, echo and silence, and feedback that comes after its window and is attributed to a later datagram. Its sizes
are payloads throughout: a router's MTU enters less the header that `pmtud.rs:371,395` takes off, and a
result without the header that `:559` adds.

In `BulkProbes` every connection task and asset fetch is a step of its own, with the deadline the code
puts around that await, or none. The browser's four streams are queues read in any order. Load is a set
of connections with byte counters sampled by the controller's tick.

### Servers

`EndpointServer` has two processes on one host, so that a bind can fail, at any of its five sockets. A
request is a session: sizes are clamped, bodies sent in chunks, and a client may stop. A UDP reply
is sent from the address the request came to, or unpinned when the kernel refuses. `SdkService` has every
atomic operation of a request as a step: the bucket check under its lock, each compare-and-swap of the
slot counters, the budget reservation, each frame, the drop of the permit; a request may hang up between
any two.

### Output

`ResultStore` has one step per SQL statement: an insert succeeds, is refused because the schema lacks a
table or column, or fails with its connection. Tables are names; a row is its table and the record it
belongs to. `migrate` takes the advisory lock of the session, and a dying session gives it up.
`BenchmarkArtifact` is a function, evaluated on every run of the instance over small integer values
(square roots are avoided by comparing squares, percentiles are in thousandths). In `TesterOutput` the
order of capture, artifacts, stdout and database, and every early return, is that of the three command
lines.

`LogPipeline` has an application that emits events and exits with or without `LogGuard::shutdown`, the
channel, and the writer task with its timer. A flush that fails may have stored its rows or not.

## 3. Runs

| Run | Instance | Shows |
|---|---|---|
| `assignment` | 2 runs, 2 interchangeable agents, 2 tasks, 1 slot, no fault | `SingleExecutor`, `TasksCancellable` |
| `lifecycle` | 2 runs (one pending), 2 agents in different projects, a pinned tester, 1 fault of any kind | `TypeOK`, `PermitsConserved`, `OneTaskPerRun`, `NoneOutlivesItsConnection`, `ProjectIsolation`, `TerminalIsFinal`, refinement `LifecycleSpec` |
| `launched_runs_end` | 1 run, 2 agents that stay connected, channel full at times | `LaunchedRunsEnd` |
| `started_runs_end` | 1 run, 1 agent, 1 fault of any kind, channel stalled at times | `StartedRunsEnd` |
| `presence` | 2 connections, 1 restart, any initial row | `LiveConnectionRegistered`, `ConnectedShownOnline`, `VanishedShownOffline` |
| `probe_run` | 11 invocations that between them take every branch | `AttemptsExact`, `PhasesAgree`, `StopHonest`, `Terminates` |
| `wire_probes` | every single-exchange mode; trains of 3, transfers of 0 or 2 chunks, 10 targets | `TrainHonest`, `LossNotUnderstated`, `PathHonest`, `EvidenceHonest`, `TransferVerified`, `ProbesEnd` |
| `bulk_probes` | every page, browser and load mode; pages of 0 or 3 assets, 2 connections, 2 loads | `PagesHonest`, `DrainOrderFree`, `LoadHonest`, `LoadsEnd` |
| `servers` | 2 endpoint processes and 2 sessions; or 3 SDK requests of 7 kinds | `HealthHonest`, `RepliesExact`, `SlotsConserved`, `BudgetHeld` |
| `output` | 2 testers, 4 kinds of job, 4 database schemas, 1 fault | `ResultsWhole`, `MigrationsSerial`, `DiagnosticsHonest`, `ArtifactHonest`, `TestersLeave` |
| `log` | 5 events, channel of 3, batches of 2 | `PipelineHonest`, `StoredInOrder`, `EntriesLeave` |

Some of these are conjunctions of named parts, which the modules state and comment one by one:
`AttemptsExact` (unique sequence numbers, modes isolated, every sample published exactly once),
`PipelineHonest` (entries accounted for, loss reported, shutdown drains), `TrainHonest` (credits exact,
figures add up), `PathHonest` (MTU, trace), `EvidenceHonest` (phases reached, blame), `PagesHonest`,
`LoadHonest`, `RepliesExact` (bodies, reply source), `DiagnosticsHonest` (tshark reaped, confidence
earned, URL run, TLS profile), `ArtifactHonest` (adds up, verdict earned).

**Bounds, run control.** `MaxConns` is one more than the connections a behaviour can lose. Two tasks and
one slot make a task wait behind another; two runs on two agents make the load decide. `MaxQuiet` is 0
where the sweeps are not asked about, 1 where a reap may race a frame, and 3 where every cutoff has to
pass. `RecentCapacity` is 2 (128 in the code): no instance evicts, so `OneTaskPerRun` is checked for
repeats within the memory's capacity. Two connections are what a late handler needs to meet a newer one.
`OutboxBound` caps relayed progress only; the other frames are bounded by the tasks. Without faults
`TasksCancellable` holds; which faults it survives, and which not, is said below and in section 4. With `PromptDispatch` the model takes for granted what the redispatcher's age limit of 15 s is for, that the
inline dispatch has finished.

**Bounds, tester and servers.** Three probes let a reply overtake one and be late for another; one
duplicate suffices for double counting; stale datagrams of an earlier transfer (`StaleSeqs`) hit a
sequence number in use. Five sizes between floor and ceiling make the search take both directions. Three
assets on two connections give one connection two of them. Two load connections, windows of two ticks and
a capacity of 4 let the goodput stabilise before, at and never within the cap. A browser's page has up to two
requests of one chunk each, answered in any order, which is what the streams need to overtake one another. Two endpoint processes
contend for two of their ports; one connection and one stream make HTTP/3 wait. Three SDK requests with
two slots, one transfer slot and a budget of three bytes exhaust each of them; the clock moves by one
window. The two testers migrate the same database while the first may die at any statement. Five events
with a channel of three fill the channel, complete two batches and leave a remainder.

**Symmetry and deadlock.** Agents, tasks and runs are interchangeable in `assignment`, tasks in
`lifecycle`, sessions in `servers`; the symmetry is over exactly those sets, and the runs with a temporal
property under fairness use none. Deadlock is checked where a stuck prober, tester or writer would be an
error. It is not where a bounded behaviour ends when there is nothing more to do (run control, presence,
the SDK's requests).

**Fairness.** Users (launch, cancel, rotate), faults, the network and remote servers promise nothing.
In run control weak fairness holds for requests in progress, frame handling, agent receive loops,
redials, teardown and time. A tester process under an agent ends because the invocation has a deadline that kills it
(`ComputeInvocationDeadline`); the models of the tester itself have no such deadline. Each tick of the watchdog runs both of its scans and ticks recur,
but a scan is not enabled while the other's list is worked off: strong fairness. `SemaphoreSlim`
releases waiters in turn, while the permit is taken and returned by others: strong fairness of
`AcquireSlot`. In `AgentPresence` handlers run on (the idle timeout ends the loop of a lost connection),
a connected agent beats (every 30 s), reaper ticks recur and time passes. In the Rust modules the tasks
of the program itself are polled by the runtime and its timers fire: weak fairness of the run loop, of
each prober family, of the page tasks and the load controller, of the log writer and the shutdown, and of
each tester's own work and statements (a database answers or the connection fails). None of it covers a
wait for a peer that the code leaves without a deadline (`resp.collect()` in `http.rs:1056`, the bodies of
`pageload.rs`), and `attempt_cap` caps the short modes only.
`ProbeRun` is therefore fair to `Prompt` alone, the steps that wait for nothing or for something with a
deadline, and `Terminates` says that a run ends or comes to rest in `Waiting`, where only uncapped waits
are left (or, with `--concurrency 0`, nothing will ever be polled); `TesterOutput` is fair to the tester
only while it is not `Measuring`, and `TestersLeave` excepts a probe that never ends; `ProbesEnd` leaves
out the modes that carry sized transfers, and `LoadsEnd` the waits of `pageload.rs` (`Unbounded`).

### What the code does against its own description

`claimed_run_stranded` checks `ClaimedRunsMove`, which a comment of the code states, and TLC refutes it:
the connection breaks after the claim and before `run_started`; the redispatch query skips claimed runs,
the disconnect fails nothing, and the sweep of queued runs waits for a moment without any agent online.
The row stays `queued`.

Further disagreements met while modelling. Those marked * were seen as TLC counterexamples with the
modules here under other constants or with the property named.

Run control:
* `AgentWorker.cs:84` against `AgentMessageProcessor.cs:270-278`: the agent cancels its runs when the
  connection ends, so it is back within the grace period with nothing to continue; the row says `running`
  until the no-progress cutoff. `NoneOutlivesItsConnection` is what the agent does.
* *`RunDispatcher.cs:276` against the comment at `:265`: the cancel frame is routed by a new selection,
  which prefers the idle agent to the owner; the row ends cancelled, the probe runs on.
* *`AgentWorker.cs:261`: a task that ends after a reconnect removes and disposes the handle of a newer task
  of the same run (`TasksCancellable` with a restart).
* *`AgentConnectionRegistry.cs:100`: a handler delayed in `HandleConnect` registers its lost connection over
  the newer one (`LiveConnectionRegistered` without `PromptConnect`).
* *`ReaperService.cs:140`: the agent connects between the reaper's registry check and its UPDATE, whose guard
  it satisfies; the next heartbeat repairs the row (`ConnectedShownOnline`).
* `TesterWriteEndpoints.RotateKey.cs:72` wants a rotation to drop the live connection; the agent's handler
  (`AgentWorker.cs:181`) aborts its runs and stays on it.

Run loop and probers:
* *`cli.rs:82` ("Number of sequential runs per mode"): the fixed-count plan of a benchmark
  (`target_runner.rs:680-690`) compares `runs` with the samples of each case, so with bursts of `--samples`
  the measured loop stops after fewer iterations than `runs`.
* *`--concurrency 0` passes validation and `buffer_unordered(0)` never polls a task; the error of one target
  discards the results of the earlier ones (`main.rs:260-274`); two tasks may both ask for one HTTP/3 offer.
* `throughput.rs:89-91` against `:122-125`: the doc of `verify_upload` marks an attempt failed if the header
  `X-Networker-Received-Bytes` "is absent on an otherwise successful attempt"; the code skips the check, so
  the throughput of such an upload is reported unverified. `TransferVerified` passes over it.
* `stamp.rs:177-190`: probes lost after the last reply are attributed to the forward direction.
* `pageload.rs`: the comment at `:1281` says "only a fully drained **2xx** response counts", but a body
  that breaks off after a 2xx head counts as fetched except over a cold HTTP/3 connection (`:758`, `:1172`,
  `:2503`, `:3079`), which is why `PageHonest` asks for whole bodies only there; bodies are awaited
  without a deadline; a warm load never reconnects and bypasses `dispatch_once` with its cap; a page of no
  assets is a success with an error.
* `browser.rs:452`: the profile directory is named after the process, so concurrent browser attempts share it.
* `rpm.rs:221-227` promises to "fail loudly" if the load generator "never got a single byte moving"; a
  download that was started and moved no byte satisfies `load_ok`, so a second idle baseline can be reported
  as loaded latency. `LoadHonest` says nothing of the load of rpm but that it is gone at the end. `mthroughput.rs:341-343`: if the time cap ends the stage inside
  the measuring window, the last `mad` snapshots reach back into the ramp while `saturation_reached` is true.
* Success is decided by different rules in `http.rs` and `http3.rs`; `failed_attempt` drops the TLS result of
  some paths; curl's exit code 7 (connect) is reported as DNS.

Servers:
* `EndpointServer`: an HTTP or HTTPS listener that cannot bind ends `run_with_shutdown` with `Ok(())`;
  SIGTERM cuts running transfers although the comment speaks of a graceful path; `/info` lists HTTP/3 when
  it is disabled.
* `limits.rs:87`: `now` is read before the lock is taken, so a delayed caller moves a bucket's clock back and
  the time between is credited twice. `limits.rs:96`: a request refused for its address has already spent a
  global token. The byte budget is per fixed window, so two adjacent windows may meet. An upload without a
  declared length reserves its cap for the moment and can refuse others.

Output and log:
* *`postgres.rs:1492-1500`: optional columns of `RequestAttempt` are dropped one by one, but a seeded schema that
  lacks the server-timing or multi-stream tables refuses the run as a whole.
* A run that could not be saved exits 0; a COMMIT whose answer is lost is reported as not saved;
  `benchmark_schema_installed` is read before the transaction begins.
* `json.rs:1170`: a failed sized attempt has no payload and forms a case of its own. `--json-stdout`
  exits 0 if serialisation fails, with an error object on stdout in place of the runs (`main.rs:323-331`).
* `postgres.rs:1493-1495` says that `migrate()` guarantees `extra_json`; no migration of the tester installs
  it, so `ColumnsIndependent` asks for it only where the schema has it.
* `metrics.rs:19` says that `entries_dropped` counts what is lost to "buffer full, shutdown, etc."; an event
  after the sender was cleared is discarded by `on_event` uncounted (`db_layer.rs:209-215`). `DiscardedLast`
  says that nothing else is.
* `capture.rs:270`: a capture file of an earlier run is summarised if tshark wrote none; a summary of more than
  a pipe's capacity is killed by its timeout.
* *`main.rs:134`: the tester never calls `LogGuard::shutdown`; the last batch is lost on exit (`graceful` in
  `LogPipeline` is about both). A retry after a flush that did commit stores its rows twice.

## 4. Proofs

For any sets of runs and agents, any finite set of tasks, any number of slots, connections and
faults, and any setting of the switches (`WireAssumption`, `AgentAssumption`, `ControlAssumption`,
`FaultAssumption`), `RunSafetyProofs` proves:

* `TypeCorrect`: `Spec => []TypeOK`;
* `PermitsAreConserved`: `Spec => []PermitsConserved`;
* `ProjectsAreIsolated`: `Spec => []ProjectIsolation`;
* `TerminalStays`: `Spec => TerminalIsFinal`;
* `ImplementsLifecycle`: `Spec => LifecycleSpec`, the refinement of `RunLifecycle`.

**Argument.** None of them is inductive alone. `Inv == TypeOK /\ PermitsConserved /\ Own`:

* the type of `permits` (at most `MaxConcurrentRuns`) needs `PermitsConserved`, since a `Release`
  stays within the bound only because the releasing task holds a permit;
* `PermitsConserved` needs the types, for the cardinality of the finite set of holders; each task
  step either leaves phases and permits alone (`SameHolding`) or moves one task and one permit;
* `Own` says that everything that can still move a run (a claim in progress, a frame in either
  direction, a task) keeps it in its project. It holds because agents are selected by project, and
  frames and tasks only copy a run from one to the next. Isolation is its consequence for inboxes
  and tasks, and the refinement needs it: a row may only be claimed or started by an agent of its
  project, and `run_started` carries no project to check.

`RowStep` then says what one step may do to the rows: all are kept, or one row is moved as a single
step of `RunLifecycle` allows. `TerminalStays` and `ImplementsLifecycle` both follow from it.

### Who executes a run

The second half of `RunSafetyProofs` builds on `Inv`:

* `TablesAgree`: every live task of an agent is found through its handle in `_running`, and every
  handle leads to a live task of that run (`TableInv`). No assumption: it holds with every fault and
  whatever the dispatcher's timing.
* `OneTaskEach`: `Spec => []OneTaskPerRun`, assuming `EnoughMemory` (the runs fit into the dedupe
  memory). `OneTaskPerRun` alone is not inductive: a cancelled task's `finally` removes whatever
  handle its run has by then and disposes its source, which can orphan a newer task. `DedupeInv` says
  that such a run is remembered, so that no further `assign_run` starts a third task.
* `RunsInOnePlace`, and from it `OneExecutorOnly` (`SingleExecutor`) and `TasksAreCancellable`
  (`TasksCancellable`), assuming `Calm`: the inline dispatch ends before the redispatcher regards its
  run as old (`PromptDispatch`), the control plane does not restart inside a request, and a claim's
  update does not fail after its frame was sent. Broken links, agents that die and rotated keys are
  all allowed. The assumption is necessary: with the faults `restart` or `stamp` an assigned run stays
  queued and unclaimed, is assigned again, and both properties are violated.

`PlaceInv` is the strengthening. A run is *at* an agent when it is in a frame on its way there, in a
task, or in a frame from there that is still to be processed; as long as it is, no dispatcher has it
or can pick it up (`OnePlace`), the agent has it once (`OneCopy`), and no two dispatchers work on the
same run (`DispatchOnce`).

`RunsEndWithConnection` (`NoneOutlivesItsConnection`) needs no assumption: whatever breaks, an execution
that nobody tripped is one that the agent's present, open connection brought. `Teardown` trips what it
finds in `_running`, so the proof needs `TableInv` (a live task is there). It says nothing of the row,
which goes on saying `running` until a sweep.

### Agent presence

`AgentPresenceProofs` proves `PresenceTypeCorrect` and, under `PromptConnect`,
`ConnectedIsRegistered` (`Spec => []LiveConnectionRegistered`) for any number of connections and
restarts. The strengthening `NewestRegisters`: only the newest connection can still be on its way to
`Register`, and a newest connection in service is registered whether or not its link still works. A
cleanup of an older connection keeps it because `Unregister` compares first.

### The run loop

`ProbeRunProofs` is about one target's run for any set of invocations, modes, payload sizes, bursts, retries
and stacks, and whatever the probes answer:

* `AttemptsAreExact` (`AttemptsExact`): sequence numbers are unique, modes never run at once, and a
  finished run holds exactly one attempt per warm-up, sample and task, each a success or out of retries;
* `PhasesDoAgree` (`PhasesAgree`): the phases that `resolved_attempt_phases` rebuilds from the counts and
  the positions are the tags the attempts carry;
* `StopsAreHonest` (`StopHonest`): the measured loop keeps to its plan, and says why it ended.

`RunInv` is a count. `Owed` is what the current iteration has published and what its tasks still owe, one
attempt per task and sample; it is nothing or a whole iteration until the stacks, and the length of the stream is
the warm-ups plus the iterations of each phase (`CountInv`). That gives the number of attempts, and
`OverheadEnd`, `PilotEnd` and `MeasuredEnd`, the places where the phases begin, from which `PhaseInv`
knows the tag of every position. `TaskInv` says that every sample a burst has left is settled by its last try, which is the
one that `published_logical_attempts` keeps. `NumberInv` keeps the numbers of queued tasks, running
tasks and published attempts apart: blocks for the target (`Apart`, `Floor`), increasing numbers for a
stack. The accuracy claim needs the newest attempts of the stream to be the ones that the loop judged before
it tagged them (`TailsAgree`).

Assumed: `InputsAssumption`, that the invocations resolve to a well-formed `ResolvedConfig` and that the lists of
tasks and of page modes made from it are lists of its modes. The second half is about `FlattenSeq` and
`SelectSeq`, which recurse over the list, so TLC evaluates it for the invocations of the run. Nothing else is
assumed of their order or content. The attempt to prove `PhasesAgree` corrected the model: two arms of
`PositionalPhase` overlapped, where Rust takes the first and TLA+'s `CASE` any.

### The packet probers and the transfers

`WireProbesProofs` is about one probe attempt, for trains, payloads, sizes, retries and TTLs of any
number and a network that loses, repeats and reorders without bound. It assumes only what the
constants are (`TrainAssumption`, `PayloadsAssumption`, `PathAssumption`). `FamilyInv` keeps the
probers apart (a mode only takes the steps of its own family, on datagrams of that family) and
`KindInv` their reports; each family has an invariant of its own:

* `LossIsNotUnderstated` (`LossNotUnderstated`). `LossInv`: every count on its way, or reported, is of
  chunks in a finite set of those that arrived, and that set only grows.
* `TrainsAreHonest` (`TrainHonest`). `TrainInv`: every datagram names a probe that was sent and every
  reply one that reached the endpoint, so that a duplicate can only repeat a credit. The totals of a
  STAMP train need more: `directional_loss` takes the highest reflector number for a count of probes,
  which is safe only if it is at least the number of replies. `NumbersInv` says that a number is on the
  replies of one probe only, on their way or credited, and the credited numbers are then an injection
  into `0..top`. The same holds when the session's counter goes on from an earlier train (forward loss
  is then understated, but the totals still add up). The loss periods of a UDP train add up to its
  losses because every lost probe lies in exactly one of them (`RunOfProbe`, `OneRunOnly`), and there is at
  most one more than replies because each ends before another answered probe or at the end of the train.
* `PathsAreReportedHonestly` (`PathHonest`). `MtuSearch` says when each end of the interval is sound:
  the upper end as long as nothing was lost or is late, the lower end once the destination is known to
  answer, or, where routers report and the platform shows it, as long as nothing was missed;
  `TraceSearch` is the same for the TTL scan. Both hold until feedback is attributed to a datagram it
  is not about, which is the exception that `PathHonest` makes (`stale`).
* `TransfersAreVerified` (`TransferVerified`): only `Finish` makes a successful attempt, and only after
  `verify_download` or `verify_upload`.
* `EvidenceIsHonest` (`EvidenceHonest`), for every request-response prober, target and way of being cut
  short. What a probe has so far and what it has still to do are related through levels (name, TCP,
  TLS, HTTP): `StageInv` says that the stages done reach a level, that those to come lead on from it, and
  that the attempt which the last of them leaves can be built. A dual-stack probe does the stages of its
  two legs, and `LegInv` keeps the stages of the pair before them; a deadline only ends a stage that is
  still to come (`WaitInv`). `TargetAssumption` says what a target is.

### Pages, browsers and load

`BulkProbesProofs` is about pages of any size, any number of connections, loads and tabs, any ramp and any
length of the measure window (`PageAssumption`, `BrowserAssumption`, `LoadAssumption` say what the
constants are):

* `PagesAreHonest` (`PagesHonest`). The counts of a load are those of its assets, so `PageInv` says of an
  asset where it is and how often it was asked for (`AssetOk`), and of the connections that those opened
  are those that got beyond the handshake, and that the one a warm load runs over was opened by an earlier
  load of the same run (`ConnOk`).
* `DrainsInAnyOrder` (`DrainOrderFree`). `select!` reads four streams in any order, and the entry of a
  request is made by whichever of its events is read first. `Told` gives the entry of a request as a
  function of the *set* of events read so far; that `pending` always equals it (`Drains`) is the
  invariant, and since each stream holds each event once, what was read is what is no longer in the
  stream. The order can then not matter: with the streams empty the entries are those of the page, so
  the totals are the same sum.
* `FiguresAreOfLoad` (`LoadHonest`). The stages follow each other (`StageOrder`), what a stage started is
  gone when it ends (`LoadGone`), and from the saturation on no connection joins and every tick samples
  every counter, so that the window has as many ticks as it claims (`WindowInv`).

### The tester's output

`TesterOutputProofs` is about any number of testers that share a PostgreSQL or SQL Server database of
any earlier state, with any number of faults, of which one is the command line of `TesterOutput`:

* `MigrationsAreSerial` (`MigrationsSerial`). `SessionOk` relates each session to the tables: from
  lock to unlock it holds the advisory lock, all versions before its own are recorded, its own is not,
  and it is installed before it is recorded.
* `ResultsAreWhole` (`ResultsWhole`: saves are atomic, an attempt keeps the optional columns that the
  schema has, and with exit code 0 every run, or an error, is out). `JsonInv` follows `extra_json` from the
  statement to the row. `SaveInv` adds what an open transaction holds:
  each statement of the record is still to do, has its row in the transaction, or is one the optional
  column ladder may leave out (`Progress`), and the rows stored for a finished record are what its
  outcome says (`OutcomeOk`; either, when the answer to COMMIT was lost). `DeliveryInv` follows the
  artifacts until the command line turns to the database. The inductive invariant `WholeInv` was
  model-checked on the instance of run `output` before it was proved.

* `DiagnosticsAreHonest` (`DiagnosticsHonest`), for any traces, certificates, servers and page loads
  (`CaptureAssumption`, `UrlAssumption`, `TlsAssumption`). `CaptureInv`: tshark runs only where the session
  holds it, and every way out of the session leaves through its `Drop` or `finalize`. `UrlInv` relates the
  run's status to whether the page loaded, the validated versions to the probes, and the requests counted
  per origin to the resources. `TlsInv` says that a profile goes on after the handshake only if the chain
  was verified or was not to be, and that each capability was accepted by the server it talked to. The
  attempt to prove it corrected the model twice: `pct` rounds to a tenth, so that the half
  that a high confidence asks for is reached from 999 of 2000 frames on; and a certificate that cannot be parsed is left out of the chain, which the
  property has to allow.

* `ArtifactsAreHonest` (`ArtifactHonest`: the artifact of a benchmark adds up and its verdict is earned),
  for any attempts, noise thresholds and minimums. Only `PrintJson` makes an artifact, so this is about one
  function of the run. Induction over the list of attempts is out of the prover's reach, and none is
  needed: samples, cases and summaries are sets of positions in the list. `Sum` counts units, so that a sum
  over disjoint parts is the cardinality of their union (`CountUnits`, `Splits`) and the cases add up to the
  aggregate (`SummariesSplit`). `Sorted` is the sequence with at least i values up to its i-th and fewer
  than i below it; that there is one follows from finite sets of numbers having a least member, and
  that it ascends from ranks. A percentile then lies between two neighbours (`Interpolated`), those of a
  higher rank no lower (`Placed`), and the quartiles are inside the outlier fences (`FencesHold`).

Assumed: `StoreAssumption`, `SeedsAssumption` and `CliAssumption` (what the names stand for),
`BenchmarksAssumption` (a benchmark has a finite list of attempts whose figures are natural numbers or missing),
`RecordsAssumption` (a tester has records to save, and their ids, which the code draws as UUIDs, are
distinct) and `StatementsAssumption` (what a record inserts carries its id, and an attempt's
statement is `insert_request_attempt`). The last is a fact about `Inserts`, which concatenates
sequences; proving it would take induction over them, so TLC evaluates it for the records of the
instance instead.

### The servers and the log

`ServerProofs` is about the endpoint (any number of instances on any ports, bodies and chunks of any size):
`HealthIsHonest` (`HealthHonest`) and `RepliesAreExact` (`RepliesExact`). `StartInv` follows the
order of `run_with_shutdown`: at each place the services already passed are bound and spawned, and
HTTP/3 is advertised only with its socket. `SessionInv` has a closed form of the bytes sent after a
number of chunks, which reaches the declared length with the last one and not before. Of the reply's source it says what is
true of the address the request came to, if that was reported at all.

and about the SDK's route (any number of requests, any caps, budget and window): `SlotsAreConserved`
(`SlotsConserved`) and `BudgetIsHeld` (`BudgetHeld`). Each step is a step of one request, so the
argument is local: `RequestOK` says what the request's place means (what it holds, reserved and
moved), `InFlight` and `Transferring` what it adds to the two atomics, and a step moves an atomic by
the change of its own share. `FramedBodies` is assumed: the HTTP layer under the SDK delivers no more
body than `Content-Length` says, which `service.rs` relies on when it reserves the declared length.

`LogPipelineProofs` (any batch size, channel capacity and number of events): `PipelineIsHonest`
(`PipelineHonest`) and `RowsStayInOrder` (`StoredInOrder`). What no counter has comes last, because the
slot is cleared once and never set again. The counters are cardinalities, so the
entries queued have to be distinct, which follows from their order (`QueuesInOrder`,
`NumbersEmitted`); `RowsBehind` keeps the table behind what is queued, but for a batch that an attempt
reported as failed has committed; `Phases` relates application and writer during the shutdown.

### Only model-checked

* `LaunchedRunsEnd`, `StartedRunsEnd`, `ConnectedShownOnline`, `VanishedShownOffline`, `Terminates`,
  `ProbesEnd`, `LoadsEnd`, `EntriesLeave`, `TestersLeave`: liveness; the prover has no fairness.
* `SingleExecutor` and `TasksCancellable` outside the assumptions above do not
  hold (section 3 has the runs and their instances).

## 5. Plan

Modelled: run control, agent presence, the tester with its probers and output, the endpoint, the Rust SDK
and the log pipeline. Proved: every safety property of these that a run
checks, under the assumptions named with each theorem; liveness stays with TLC.
Next, in order:

1. **Provisioning**: orchestrator, deploy runner, recovery after a restart, the promotion of pending runs and
   the deployment sweeps of the watchdog. Replaces the frozen `PendingRun`.
2. **LeaderElection**: advisory locks, several replicas, per-process registries, ticks that outlive their lock.
3. **Tester power state, scheduler, inactivity**, and the counters of late `run_progress` frames.

## 6. Not modelled

Report writers (HTML, Excel, console): pure formatting of finished results; `TesterOutput` has the point
where they are written and that they may fail. Cloud and Docker drivers, event fan-out, HTTP request
handlers over single rows, dashboard, installers, benchmark scripts and the SDKs in other languages (they
repeat the Rust SDK's contract): I/O and user interface without protocol state of their own. Of the
modelled parts: measured values (round-trip times, rates, CPU time) beyond what the properties tell apart,
socket statistics, certificate contents beyond what the findings use, header layout, log text.
Provisioning, leader election, power state, scheduler, inactivity and auto-upgrade keep state that is worth
a model and are in the plan.
