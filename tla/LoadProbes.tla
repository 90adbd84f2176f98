---------------------------- MODULE LoadProbes -------------------------------
(***************************************************************************)
(* The working-conditions probes: mthroughput and responsiveness, which    *)
(* ramp parallel HTTP/2 load connections until the goodput is stable, and  *)
(* rpm, which runs a UDP echo train beside a loop of downloads.            *)
(*                                                                         *)
(* Every load connection has a task of its own that moves bytes whenever   *)
(* the network lets it; the interval controller samples their counters.    *)
(* Time is counted in controller intervals.                                *)
(***************************************************************************)
EXTENDS Dispatch, FiniteSetsExt

CONSTANTS
  Initial,      \* initial_connections
  AddPerTick,   \* add_per_interval
  MaxLoadConns,     \* max_connections
  Mad,          \* moving-average distance, also the length of the measure window
  SdtPercent,   \* standard-deviation tolerance
  Cap,          \* max_duration_ms, in intervals
  Burst,        \* bound: bytes counted by one counter per interval
  GateSlots,    \* permits of the probe scheduler's semaphore
  MaxProbes,    \* bound: probes scheduled per stage
  EchoProbes,   \* rpm: probes of a train
  MaxDownloads  \* bound: rpm's downloads

ASSUME LoadAssumption ==
  /\ Initial \in Nat \ {0} /\ MaxLoadConns \in Nat /\ AddPerTick \in Nat
  /\ Mad \in Nat \ {0, 1} /\ Cap \in Nat \ {0} /\ Burst \in Nat /\ SdtPercent \in Nat
  /\ GateSlots \in Nat /\ MaxProbes \in Nat /\ EchoProbes \in Nat \ {0} /\ MaxDownloads \in Nat

VARIABLES
  dir,       \* LoadDirection of the stage
  pc,        \* where its code is
  conns,     \* the load connections: whether the task of each still runs
  counters,  \* byte counters, [bytes, fresh]; fresh is what came since the last tick
  snaps,     \* per tick, what the counters said
  elapsed,   \* intervals since the stage's load started
  adding,    \* connections still to add in this interval
  measure,   \* measure_ticks_left, or None; 0 once the window is complete
  satAt,     \* the tick that declared saturation, 0 before
  respN,     \* resp_values.len()
  stable,    \* responsiveness_stable
  flying,    \* latency probes in flight: [dir, id, foreign, at]
  scheduled, \* probes the stage has started
  turn,      \* the next probe is a foreign one
  samples,   \* SharedState.probes of the stage, the answered ones: [dir, foreign, at]
  orphans,   \* history: load tasks that outlived their stage
  down,      \* how the download stage ended
  load,      \* rpm: LoadStats, the download in flight and what it moved
  echoes,    \* rpm: the loaded train's outcomes so far
  attempt    \* the RequestAttempt

stage == <<conns, counters, snaps, elapsed, adding, measure, satAt, respN, stable>>
probing == <<flying, scheduled, turn, samples>>
rpmvars == <<load, echoes>>
loadVars == <<dir, pc, stage, probing, orphans, down, rpmvars, attempt>>

LoadModes == {"mthroughput", "responsiveness", "rpm"}

None == -1
NoAttempt == [kind |-> "none", success |-> FALSE, error |-> "none", up |-> "none"]
NoLoad == [started |-> 0, completed |-> 0, failed |-> 0, active |-> FALSE, moved |-> 0]

StageInit ==
  /\ conns = <<>> /\ counters = <<>> /\ snaps = <<>> /\ elapsed = 0 /\ adding = 0 /\ measure = None
  /\ satAt = 0 /\ respN = 0 /\ stable = FALSE /\ turn = TRUE /\ samples = {}
  /\ scheduled = 0

\* from_parts: the configuration is the constants above.
LoadInit ==
  /\ dir = "download"
  /\ pc = CASE mode = "rpm" -> "resolve" [] mode \in LoadModes \ {"rpm"} -> "initial" [] OTHER -> "done"
  /\ StageInit /\ flying = {} /\ orphans = 0
  /\ down = "none" /\ load = NoLoad /\ echoes = <<>> /\ attempt = NoAttempt

LoadFailed(category) == [kind |-> mode, success |-> FALSE, error |-> category, up |-> "none"]

(***************************************************************************)
(* Load connections.                                                       *)
(***************************************************************************)
Live(cs) == Cardinality({i \in DOMAIN cs : cs[i]})
Bytes == FoldSeq(LAMBDA c, sum : c.bytes + sum, 0, counters)

\* mthroughput counts per connection, responsiveness all of them together.
CounterOf(i) == IF mode = "mthroughput" THEN i ELSE 1

\* A spawned load connection and, where it has its own, its counter.
Spawned ==
  /\ conns' = Append(conns, TRUE)
  /\ counters' = IF CounterOf(Len(conns) + 1) \in DOMAIN counters THEN counters
                 ELSE Append(counters, [bytes |-> 0, fresh |-> 0])

\* A frame of load_download_once or a chunk that CountedUploadBody hands to
\* the send window.  A failed transfer is retried after a pause and changes
\* nothing that is counted.
Transfer(i) ==
  /\ conns[i] /\ counters[CounterOf(i)].fresh < Burst
  /\ counters' = [counters EXCEPT ![CounterOf(i)] = [bytes |-> @.bytes + 1, fresh |-> @.fresh + 1]]
  /\ UNCHANGED <<mode, dir, pc, conns, snaps, elapsed, adding, measure, satAt, respN, stable,
                 probing, orphans, down, rpmvars, attempt>>

\* The stop flag ends the loops, abort the rest; every task is awaited.
stop_and_reap(cs) == [i \in DOMAIN cs |-> FALSE]

\* A stage ends: its locals are dropped, and with them the probe scheduler;
\* probes in flight are tasks of their own and stay.  A failed upload stage
\* leaves a successful attempt without upload figures.
NextStage(outcome, cs) ==
  /\ orphans' = orphans + Live(cs)
  /\ conns' = <<>> /\ counters' = <<>> /\ snaps' = <<>> /\ elapsed' = 0 /\ adding' = 0 /\ measure' = None
  /\ satAt' = 0 /\ respN' = 0 /\ stable' = FALSE /\ turn' = TRUE /\ samples' = {}
  /\ scheduled' = 0
  /\ \/ /\ dir = "download" /\ outcome = "reported"
        /\ dir' = "upload" /\ pc' = "initial" /\ down' = outcome /\ UNCHANGED attempt
     \/ /\ dir = "download" /\ outcome = "failed"
        /\ attempt' = LoadFailed("http") /\ pc' = "done" /\ UNCHANGED <<dir, down>>
     \/ /\ dir = "upload"
        /\ attempt' = [kind |-> mode, success |-> TRUE, error |-> "none", up |-> outcome]
        /\ pc' = "done" /\ UNCHANGED <<dir, down>>
  /\ UNCHANGED <<mode, flying, rpmvars>>

\* connect_h2 ends every wait with a deadline.
InitialConnects ==
  /\ pc = "initial"
  /\ Spawned
  /\ pc' = IF Len(conns) + 1 >= Initial THEN "run" ELSE "initial"
  /\ UNCHANGED <<mode, dir, snaps, elapsed, adding, measure, satAt, respN, stable,
                 probing, orphans, down, rpmvars, attempt>>

InitialFails ==
  /\ pc = "initial"
  /\ NextStage("failed", stop_and_reap(conns))

(***************************************************************************)
(* The interval controller.                                                *)
(***************************************************************************)
Total(row) == FoldSeq(LAMBDA b, sum : b + sum, 0, row)

\* The moving average of the goodput at tick i, scaled so that it is whole.
Scale == ProductSet(1..Mad)
MovingAverage(ss, i) ==
  LET n == IF i < Mad THEN i ELSE Mad
      before == IF i > n THEN Total(ss[i - n]) ELSE 0
  IN  ((Total(ss[i]) - before) * Scale) \div n

\* stddev(values) < sdt * current, without the square root.
steady(values, current) ==
  LET n == Len(values)
      sum == FoldSeq(LAMBDA v, s : v + s, 0, values)
      squares == FoldSeq(LAMBDA v, s : v * v + s, 0, values)
  IN  10000 * (n * squares - sum * sum) < SdtPercent * SdtPercent * n * n * current * current

saturated(ss) ==
  LET t == Len(ss)
      current == MovingAverage(ss, t)
  IN  /\ t >= Mad /\ current > 0
      /\ steady([k \in 1..Mad |-> MovingAverage(ss, t - Mad + k)], current)

\* The part of an interval both controllers share, and their check of the cap.
Sample ==
  /\ pc = "run"
  /\ snaps' = Append(snaps, [c \in DOMAIN counters |-> counters[c].bytes])
  /\ counters' = [c \in DOMAIN counters |-> [counters[c] EXCEPT !.fresh = 0]]
  /\ elapsed' = elapsed + 1
  /\ UNCHANGED <<mode, dir, conns, probing, orphans, down, rpmvars, attempt>>

AfterTick == pc' = IF elapsed' >= Cap THEN "stop" ELSE "run"

\* The goodput is stable: the connection count is frozen, and mthroughput
\* opens its measure window.
Saturate ==
  /\ Sample /\ satAt = 0 /\ saturated(snaps')
  /\ satAt' = Len(snaps')
  /\ measure' = IF mode = "mthroughput" THEN Mad ELSE None
  /\ AfterTick /\ UNCHANGED <<adding, respN, stable>>

\* It is not: connections are added, up to the maximum.
RampTick ==
  /\ Sample /\ satAt = 0 /\ ~saturated(snaps')
  /\ IF Len(conns) < MaxLoadConns /\ AddPerTick > 0
     THEN adding' = AddPerTick /\ pc' = "adding"
     ELSE AfterTick /\ UNCHANGED adding
  /\ UNCHANGED <<measure, satAt, respN, stable>>

\* A connection of the ramp.  The controller itself awaits the connect, which
\* may take intervals; a failure ends the additions of this interval.
AddConnection(ok, late) ==
  /\ pc = "adding"
  /\ elapsed' = elapsed + late
  /\ IF ok THEN Spawned ELSE UNCHANGED <<conns, counters>>
  /\ IF ok /\ adding > 1 /\ Len(conns) + 1 < MaxLoadConns
     THEN adding' = adding - 1 /\ UNCHANGED pc
     ELSE adding' = 0 /\ AfterTick
  /\ UNCHANGED <<mode, dir, snaps, measure, satAt, respN, stable, probing, orphans, down,
                 rpmvars, attempt>>

\* mthroughput: an interval of the measure window.
MeasureTick ==
  /\ mode = "mthroughput" /\ Sample /\ measure # None
  /\ IF measure <= 1 THEN measure' = 0 /\ pc' = "stop"
                     ELSE measure' = measure - 1 /\ AfterTick
  /\ UNCHANGED <<adding, satAt, respN, stable>>

\* responsiveness_from_samples: both kinds must have an answered probe.
answered(since) ==
  \A foreign \in BOOLEAN :
    \E s \in samples : s.foreign = foreign /\ s.at >= since

\* responsiveness: after saturation the latencies must become stable too.
\* They are the network's choice.
ResponsivenessTick ==
  /\ mode = "responsiveness" /\ satAt # 0 /\ Sample
  /\ respN' = IF answered(elapsed' - Mad) THEN respN + 1 ELSE respN
  /\ \/ respN' >= Mad /\ stable' = TRUE /\ pc' = "stop"
     \/ AfterTick /\ UNCHANGED stable
  /\ UNCHANGED <<adding, measure, satAt>>

(***************************************************************************)
(* The latency probes of responsiveness.                                   *)
(***************************************************************************)
\* The scheduler starts a probe if a permit is free; foreign and self probes
\* alternate.
StartProbe ==
  /\ mode = "responsiveness" /\ pc \in {"run", "adding", "stop"}
  /\ Cardinality({p \in flying : p.dir = dir}) < GateSlots /\ scheduled < MaxProbes
  /\ flying' = flying \cup {[dir |-> dir, id |-> scheduled, foreign |-> turn, at |-> elapsed]}
  /\ scheduled' = scheduled + 1 /\ turn' = ~turn
  /\ UNCHANGED <<mode, dir, pc, stage, samples, orphans, down, rpmvars, attempt>>

\* The sample goes to the list of the stage that sent it.
KeepSample(p) ==
  IF p.dir = dir THEN samples \cup {[dir |-> p.dir, foreign |-> p.foreign, at |-> p.at]}
  ELSE samples

\* foreign_probe and self_probe: answered, or refused or timed out.
FinishProbe(p, ok) ==
  /\ p \in flying /\ pc # "done"
  /\ flying' = flying \ {p}
  /\ samples' = IF ok THEN KeepSample(p) ELSE samples
  /\ UNCHANGED <<mode, dir, pc, stage, scheduled, turn, orphans, down, rpmvars, attempt>>

(***************************************************************************)
(* The end of a stage.                                                     *)
(***************************************************************************)
\* Mutant: the load is told to stop and not awaited.
StopLoadUnawaited ==
  /\ pc = "stop" /\ pc' = "aggregate"
  /\ UNCHANGED <<mode, dir, stage, probing, orphans, down, rpmvars, attempt>>

\* stop_and_reap once the loop is over; bytes moved since the last tick count.
StopLoad ==
  /\ pc = "stop"
  /\ conns' = stop_and_reap(conns) /\ pc' = "aggregate"
  /\ UNCHANGED <<mode, dir, counters, snaps, elapsed, adding, measure, satAt, respN, stable, probing,
                 orphans, down, rpmvars, attempt>>

\* The last Mad intervals, or as many as there are after the first tick.
WindowTicks == IF Mad < Len(snaps) - 1 THEN Mad ELSE Len(snaps) - 1
WindowStart == Len(snaps) - WindowTicks
Column(row, i) == IF i <= Len(row) THEN row[i] ELSE 0
PerConn ==
  IF WindowTicks = 0 THEN <<>>
  ELSE [i \in DOMAIN counters |-> Column(snaps[Len(snaps)], i) - Column(snaps[WindowStart], i)]

DirectionResult ==
  [kind |-> mode, saturation_reached |-> satAt # 0, complete |-> measure = 0,
   responsiveness_stable |-> stable,
   capacity |-> IF mode = "mthroughput" THEN Total(PerConn) > 0
                ELSE MovingAverage(snaps, Len(snaps)) > 0,
   rpm |-> answered(elapsed - Mad),
   \* history: the window starts after the saturation; its connections all existed then
   frozen |-> satAt # 0 /\ WindowStart >= satAt,
   joined |-> Len(snaps[WindowStart]) = Len(counters)]

\* A load that moved nothing is an error, not a link without capacity.
DirectionDone ==
  /\ pc = "aggregate"
  /\ NextStage(IF Bytes = 0 THEN "failed" ELSE "reported", conns)

(***************************************************************************)
(* rpm.                                                                    *)
(***************************************************************************)
Unloaded == <<mode, dir, stage, probing, orphans, down>>

\* resolve and the unloaded train, which must get at least one echo.
UnloadedTrain ==
  /\ pc = "resolve" /\ pc' = "loaded"
  /\ UNCHANGED <<Unloaded, rpmvars, attempt>>

UnloadedFails ==
  /\ pc = "resolve" /\ pc' = "done" /\ attempt' = LoadFailed("udp")
  /\ UNCHANGED <<Unloaded, rpmvars>>

\* The load task, until the window closes: one download after the other.
StartDownload ==
  /\ pc = "loaded" /\ ~load.active /\ Len(echoes) < EchoProbes
  /\ load.started < MaxDownloads
  /\ load' = [load EXCEPT !.started = @ + 1, !.active = TRUE]
  /\ UNCHANGED <<Unloaded, pc, echoes, attempt>>

DownloadMoves ==
  /\ pc = "loaded" /\ load.active /\ load.moved < 1
  /\ load' = [load EXCEPT !.moved = 1]
  /\ UNCHANGED <<Unloaded, pc, echoes, attempt>>

\* run_download_probe succeeds only with the whole body (TransferVerified).
DownloadEnds(ok) ==
  /\ pc = "loaded" /\ load.active /\ (ok => load.moved > 0)
  /\ load' = IF ok THEN [load EXCEPT !.completed = @ + 1, !.active = FALSE]
                   ELSE [load EXCEPT !.failed = @ + 1, !.active = FALSE]
  /\ UNCHANGED <<Unloaded, pc, echoes, attempt>>

\* The paced train; the tail drain gives every probe its full threshold, and a
\* probe that could not be sent, or was cut off by an error, counts as lost.
PacedEcho(outcome) ==
  /\ pc = "loaded" /\ Len(echoes) < EchoProbes
  /\ echoes' = Append(echoes, outcome)
  /\ UNCHANGED <<Unloaded, pc, load, attempt>>

LoadedSuccess == Cardinality({i \in DOMAIN echoes : echoes[i] = "echoed"})

\* The socket of the loaded train cannot be bound or connected.
LoadedFails ==
  /\ pc = "loaded" /\ echoes = <<>>
  /\ load' = [load EXCEPT !.active = FALSE]
  /\ attempt' = LoadFailed("udp") /\ pc' = "done"
  /\ UNCHANGED <<Unloaded, echoes>>

\* A download that did not fail counts as load, whether or not a byte of it moved.
load_ok == load.completed > 0 \/ load.started > load.failed

\* The load task is aborted with the transfer it has in flight.
LoadedDone ==
  /\ pc = "loaded" /\ Len(echoes) = EchoProbes
  /\ load' = [load EXCEPT !.active = FALSE]
  /\ attempt' =
       IF ~load_ok THEN LoadFailed("http")
       ELSE IF LoadedSuccess = 0 THEN LoadFailed("udp")
       ELSE [kind |-> mode, success |-> TRUE, error |-> "none", up |-> "none"]
  /\ pc' = "done"
  /\ UNCHANGED <<Unloaded, echoes>>

-----------------------------------------------------------------------------
Controller ==
  \/ InitialConnects \/ InitialFails \/ Saturate \/ RampTick \/ MeasureTick
  \/ ResponsivenessTick \/ StopLoad \/ DirectionDone
  \/ \E ok \in BOOLEAN, late \in 0..1 : AddConnection(ok, late)
  \/ UnloadedTrain \/ UnloadedFails \/ LoadedFails \/ LoadedDone
  \/ \E outcome \in {"echoed", "lost"} : PacedEcho(outcome)

LoadTasks ==
  \/ \E i \in DOMAIN conns : Transfer(i)
  \/ StartDownload \/ DownloadMoves \/ \E ok \in BOOLEAN : DownloadEnds(ok)

LatencyProbes == StartProbe \/ \E p \in flying, ok \in BOOLEAN : FinishProbe(p, ok)

-----------------------------------------------------------------------------
\* The result a stage is about to report.
Reported == IF pc = "aggregate" /\ Bytes > 0 THEN {DirectionResult} ELSE {}

\* Latencies are of the load they are reported under: a stage's samples are of
\* probes sent in its own direction although probes outlive the stage that
\* sent them, and an attempt of two stages succeeds exactly if the first one
\* moved bytes.  Of rpm nothing is claimed here: its success needs no byte of
\* the load, only a download that did not fail (load_ok).
LatenciesOfLoad ==
  /\ attempt # NoAttempt /\ attempt.kind # "rpm" => (attempt.success <=> down = "reported")
  /\ \A s \in samples : s.dir = dir

\* A completed measure window of mthroughput lies after the saturation, so
\* that every connection it averages over carried load all through it.
WindowFrozen ==
  \A s \in Reported : s.complete => s.frozen /\ s.joined

\* No load task outlives its stage: the upload stage and the next probe of
\* the run start on a link free of this probe's own load.
LoadStopped == orphans = 0 /\ (pc = "done" => Live(conns) = 0 /\ ~load.active)

=============================================================================
