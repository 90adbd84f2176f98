------------------------------ MODULE ProbeRun ------------------------------
(***************************************************************************)
(* One target of a networker-tester invocation: the configuration is       *)
(* resolved and validated, connections are warmed up, and the probe modes  *)
(* are iterated through the benchmark phases (overhead, pilot, measured,   *)
(* cooldown) and then against every HTTP stack (run_for_target).           *)
(*                                                                         *)
(* An iteration runs the tasks of one mode concurrently and the modes one  *)
(* after the other.  A task takes cfg.samples samples, each with its own   *)
(* retry ladder; only the last try of a sample is published.               *)
(***************************************************************************)
EXTENDS ProbeModes, Functions, FiniteSetsExt

CONSTANTS Inputs         \* the (command line, config file) pairs considered

Absent == -1             \* an Option<u32> that is None
MaxBurst == 50           \* the clamp of --samples
AskedCap == 2            \* discovery requests are counted up to here

VARIABLES
  cfg,        \* ResolvedConfig
  pc,         \* the part of run_for_target being executed
  seq,        \* the next sequence number
  queue,      \* the tasks of the current iteration not yet started
  active,     \* the tasks buffer_unordered is polling
  batch,      \* what the current iteration has published so far
  attempts,   \* all_attempts
  iters,      \* completed iterations, per phase
  counts,     \* attempts published, per phase, as the TestRun records them
  plan,       \* benchmark_execution_plan
  warm,       \* the page-load modes with a shared connection
  memo,       \* the HTTP/3 answers remembered per origin
  asked,      \* discovery requests sent, per origin
  todo,       \* the HTTP stacks not yet visited
  up,         \* the HTTP stacks that answered /health
  progress    \* progress_request_counter

vars == <<cfg, pc, seq, queue, active, batch, attempts, iters, counts, plan,
          warm, memo, asked, todo, up, progress>>

(***************************************************************************)
(* Configuration: the command line wins over the file, the file over the   *)
(* default; a flag is set by either.                                       *)
(***************************************************************************)
pick(in, f, d) ==
  IF f \in DOMAIN in.cli THEN in.cli[f]
  ELSE IF f \in DOMAIN in.file THEN in.file[f] ELSE d

flag(in, f) ==
  \E side \in {in.cli, in.file} : f \in DOMAIN side /\ side[f]

clamp(x, lo, hi) == Max({lo, Min({x, hi})})

resolve(in) ==
  [names       |-> pick(in, "modes", <<"http1", "http2", "udp">>),
   modes       |-> parsed_modes(pick(in, "modes", <<"http1", "http2", "udp">>)),
   sizes       |-> pick(in, "payload_sizes", <<>>),
   runs        |-> pick(in, "runs", 3),
   samples     |-> clamp(pick(in, "samples", 1), 1, MaxBurst),
   concurrency |-> pick(in, "concurrency", 1),
   retries     |-> pick(in, "retries", 0),
   reuse       |-> flag(in, "connection_reuse"),
   body        |-> pick(in, "request_body_file", "none"),
   bench       |-> flag(in, "benchmark_mode"),
   phase       |-> pick(in, "benchmark_phase", "measured"),
   min         |-> pick(in, "benchmark_min_samples", Absent),
   max         |-> pick(in, "benchmark_max_samples", Absent),
   dur         |-> pick(in, "benchmark_min_duration_ms", Absent),
   target      |-> flag(in, "benchmark_target_error"),
   pilotMin    |-> pick(in, "benchmark_pilot_min_samples", Absent),
   pilotMax    |-> pick(in, "benchmark_pilot_max_samples", Absent),
   pilotDur    |-> pick(in, "benchmark_pilot_min_duration_ms", Absent),
   overhead    |-> pick(in, "benchmark_overhead_samples", Absent),
   cooldown    |-> pick(in, "benchmark_cooldown_samples", Absent),
   stacks      |-> pick(in, "http_stacks", {})]

\* The fields of ResolvedConfig and the command line's types for them; the
\* names of stacks are not the ones that say there is none.
Option == Nat \cup {Absent}
ResolvedConfig ==
  [names : Seq(STRING), modes : Seq(Protocol), sizes : Seq(Nat \ {NoSize}),
   runs : Nat, samples : 1..MaxBurst, concurrency : Nat, retries : Nat,
   reuse : BOOLEAN, body : STRING, bench : BOOLEAN, phase : STRING,
   min : Option, max : Option, dur : Option, target : BOOLEAN,
   pilotMin : Option, pilotMax : Option, pilotDur : Option,
   overhead : Option, cooldown : Option, stacks : SUBSET (STRING \ {"none", "target"})]

\* What an invocation resolves to is well-formed, and so are the lists that the
\* run makes of it.
ASSUME InputsAssumption ==
  \A in \in Inputs :
    LET c == resolve(in)
    IN  /\ c \in ResolvedConfig /\ IsFiniteSet(c.stacks)
        /\ mode_tasks(c.modes, c.sizes) \in Seq([mode : Range(c.modes), size : Nat])
        /\ stack_modes(c.modes) \in Seq(Range(c.modes))

or(opt, d) == IF opt = Absent THEN d ELSE opt

\* Any explicit control of the measured loop, or of the pilot.
Adaptive(c) == c.target \/ \E f \in {"min", "max", "dur"} : c[f] # Absent
PilotAsked(c) == \E f \in {"pilotMin", "pilotMax", "pilotDur"} : c[f] # Absent
MeasuredBench(c) == c.bench /\ c.phase = "measured"

RunPhases == {"environment-check", "stability-check", "pilot", "warmup",
              "measured", "cooldown", "overhead"}

\* ResolvedConfig::validate, as far as the engine depends on it.
validate(c) ==
  /\ c.phase \in RunPhases
  /\ 0 < or(c.min, c.runs) /\ or(c.min, c.runs) <= or(c.max, c.runs)
  /\ LET lo == or(c.pilotMin, 1) IN 0 < lo /\ lo <= or(c.pilotMax, lo)
  /\ c.overhead # 0 /\ c.cooldown # 0
  /\ MeasuredBench(c) /\ c.stacks # {} => ~Adaptive(c) /\ ~PilotAsked(c)
  /\ c.names # <<>>
  /\ c.body # "none" => Range(c.names) \subseteq {"http1", "http2"}

\* async_main's own checks before any probe runs.
Runnable(c) ==
  /\ c.modes # <<>>
  /\ c.sizes = <<>> => Range(c.modes) \cap SizedModes = {}

(***************************************************************************)
(* Benchmark plans.                                                        *)
(***************************************************************************)
DEFAULT_PILOT_MIN_SAMPLES == 6
DEFAULT_PILOT_MAX_SAMPLES == 12
DEFAULT_OVERHEAD_SAMPLES == 1
DEFAULT_COOLDOWN_SAMPLES == 1

NoPlan == [source |-> "none", min |-> 0, max |-> 0, dur |-> FALSE,
           target |-> FALSE, stop |-> "none"]

\* benchmark_pilot_criteria: does a pilot run, and between which bounds?
PilotWanted(c) ==
  MeasuredBench(c) /\ c.stacks = {} /\ (PilotAsked(c) \/ ~Adaptive(c))

benchmark_pilot_criteria(c) ==
  LET hi == clamp(c.runs, 1, DEFAULT_PILOT_MAX_SAMPLES)
  IN  [NoPlan EXCEPT !.min = or(c.pilotMin, Min({hi, DEFAULT_PILOT_MIN_SAMPLES})),
                     !.max = or(c.pilotMax, hi),
                     !.dur = c.pilotDur > 0]

\* benchmark_adaptive_criteria, or the fixed-count plan.
explicit_plan(c) ==
  IF Adaptive(c)
  THEN [source |-> "explicit", min |-> or(c.min, c.runs), max |-> or(c.max, c.runs),
        dur |-> c.dur > 0, target |-> c.target, stop |-> "none"]
  ELSE [NoPlan EXCEPT !.source = "fixed-count", !.min = c.runs, !.max = c.runs]

overhead_runs(c) == IF MeasuredBench(c) THEN or(c.overhead, DEFAULT_OVERHEAD_SAMPLES) ELSE 0
cooldown_runs(c) == IF MeasuredBench(c) THEN or(c.cooldown, DEFAULT_COOLDOWN_SAMPLES) ELSE 0

\* adaptive_case_id: mode, payload size (none on an attempt without a
\* transfer result) and HTTP stack.
adaptive_case_id(a) == <<a.mode, a.bytes, a.stack>>

Cases(as) == {adaptive_case_id(as[i]) : i \in DOMAIN as}
CaseCount(as, case) ==
  Cardinality({i \in DOMAIN as : adaptive_case_id(as[i]) = case})

\* completed_samples: the least sampled case.
completed_samples(as) ==
  IF as = <<>> THEN 0 ELSE Min({CaseCount(as, case) : case \in Cases(as)})

\* median_error_bounds needs two values before a case can be converged.
Measurable(as) ==
  \A case \in Cases(as) :
    Cardinality({i \in DOMAIN as : adaptive_case_id(as[i]) = case /\ as[i].ok}) > 1

\* Mutant: the minimum sample count is not waited for.
benchmark_adaptive_status_eager(crit, as, long, close) ==
  IF completed_samples(as) >= crit.max THEN "max_samples_reached"
  ELSE IF (crit.dur => long) /\ (crit.target => close /\ Measurable(as))
       THEN "accuracy_target_reached"
       ELSE "none"

\* benchmark_adaptive_status: long and close stand for the two facts about the
\* measured values, elapsed >= min_duration and every interval within target.
benchmark_adaptive_status(crit, as, long, close) ==
  IF completed_samples(as) >= crit.max THEN "max_samples_reached"
  ELSE IF /\ completed_samples(as) >= crit.min
          /\ crit.dur => long
          /\ crit.target => close /\ Measurable(as)
       THEN "accuracy_target_reached"
       ELSE "none"

\* derive_measured_plan_from_pilot; est is the sample count the pilot's error
\* bounds ask for.
derive_measured_plan_from_pilot(c, as, est) ==
  LET done == Max({completed_samples(as), 1})
      lo   == or(c.min, done)
      wish == clamp(est, 1, Max({c.runs, 1}))
  IN  [source |-> IF Adaptive(c) THEN "pilot-assisted" ELSE "pilot-derived",
       min    |-> lo,
       max    |-> or(c.max, Min({Max({wish, lo}), Max({c.runs, lo})})),
       dur    |-> c.dur # 0,
       target |-> TRUE,
       stop   |-> "none"]

max_run_count(c, p) == IF MeasuredBench(c) /\ p # NoPlan THEN p.max ELSE c.runs

(***************************************************************************)
(* Attempts, tasks and the phase an attempt is tagged with.                *)
(***************************************************************************)
SpecialPhases == {"warmup", "overhead", "pilot", "cooldown"}

benchmark_phase_tag(loop) ==
  IF ~cfg.bench THEN "none"
  ELSE IF cfg.phase \in SpecialPhases THEN cfg.phase ELSE loop

Attempt(s, m, bytes, ok, retry, sample, stack) ==
  [seq |-> s, mode |-> m, bytes |-> bytes, ok |-> ok, retry |-> retry,
   sample |-> sample, stack |-> stack, phase |-> "none"]

Tagged(as, tag) == [i \in DOMAIN as |-> [as[i] EXCEPT !.phase = tag]]

Task(m, size, base, stack) ==
  [mode |-> m, size |-> size, base |-> base, stack |-> stack,
   sample |-> 0, retry |-> 0, tries |-> <<>>, st |-> "ready"]

\* The futures of one iteration: one task per mode and size, each taking a
\* block of cfg.samples sequence numbers up front.
IterationTasks ==
  LET mt == mode_tasks(cfg.modes, cfg.sizes)
  IN  [i \in DOMAIN mt |->
         Task(mt[i].mode, mt[i].size, seq + (i - 1) * cfg.samples, "none")]

\* A healthy stack: its page modes, cfg.runs times.
StackTasks(s) ==
  LET ms == stack_modes(cfg.modes)
  IN  [i \in 1..(cfg.runs * Len(ms)) |-> Task(ms[1 + ((i - 1) % Len(ms))], NoSize, 0, s)]

\* The published attempts of a burst: the last try of every sample.
published_logical_attempts(tries) ==
  LET of(s) == {i \in DOMAIN tries : tries[i].sample = s}
  IN  [k \in 1..Cardinality({tries[i].sample : i \in DOMAIN tries}) |-> tries[Max(of(k - 1))]]

\* A warmed-up page-load task bypasses dispatch_once and its HTTP/3 check.
Gated(t) == t.mode \in H3Modes /\ ~(t.stack = "none" /\ t.mode \in warm)

Origin(t) == IF t.stack = "none" THEN "target" ELSE t.stack
SeqNo(t) == IF t.stack = "none" THEN t.base + t.sample ELSE seq

(***************************************************************************)
(* Start-up.                                                               *)
(***************************************************************************)
Init ==
  /\ cfg \in {resolve(in) : in \in Inputs}
  /\ pc = "launch" /\ seq = 0
  /\ queue = <<>> /\ active = {} /\ batch = <<>> /\ attempts = <<>>
  /\ iters = [p \in {"overhead", "pilot", "measured", "cooldown"} |-> 0]
  /\ counts = [p \in SpecialPhases |-> 0]
  /\ plan = NoPlan /\ warm = {}
  /\ memo = [o \in {"target"} \cup cfg.stacks |-> "none"]
  /\ asked = [o \in {"target"} \cup cfg.stacks |-> 0]
  /\ todo = cfg.stacks /\ up = {} /\ progress = 0

Launch ==
  /\ pc = "launch"
  /\ pc' = IF validate(cfg) /\ Runnable(cfg)
           THEN IF cfg.body = "missing" THEN "failed" ELSE "warm2"
           ELSE "rejected"
  /\ UNCHANGED <<cfg, seq, queue, active, batch, attempts, iters, counts, plan,
                 warm, memo, asked, todo, up, progress>>

\* The connection-reuse warm-ups, HTTP/2 then HTTP/3; a warm-up may fail and
\* leave no shared connection.
WarmsUp(mode) == cfg.reuse /\ mode \in Range(cfg.modes)

WarmUp(at, mode, next) ==
  /\ pc = at
  /\ pc' = next
  /\ IF WarmsUp(mode)
     THEN \E ok \in BOOLEAN :
            /\ attempts' = attempts \o Tagged(<<Attempt(seq, mode, NoSize, ok, 0, 0, "none")>>,
                                              benchmark_phase_tag("warmup"))
            /\ seq' = seq + 1
            /\ warm' = IF ok THEN warm \cup {mode} ELSE warm
            /\ counts' = IF cfg.bench THEN [counts EXCEPT !.warmup = @ + 1] ELSE counts
     ELSE UNCHANGED <<attempts, seq, warm, counts>>
  /\ UNCHANGED <<cfg, queue, active, batch, iters, plan, memo, asked, todo, up, progress>>

WarmUp2 == WarmUp("warm2", "pageload2", "warm3")
WarmUp3 == WarmUp("warm3", "pageload3", "overhead")

(***************************************************************************)
(* Iterations.                                                             *)
(***************************************************************************)
Quiet == queue = <<>> /\ active = {} /\ batch = <<>>
Collected == queue = <<>> /\ active = {} /\ batch # <<>>

\* Iterations the current phase may still start.
Budget(p) ==
  CASE p = "overhead" -> overhead_runs(cfg)
    [] p = "pilot"    -> IF PilotWanted(cfg) THEN benchmark_pilot_criteria(cfg).max ELSE 0
    [] p = "measured" -> max_run_count(cfg, plan)
    [] p = "cooldown" -> cooldown_runs(cfg)

\* Mutant: the counter moves by one per task, whatever the burst size.
CollectIterationOnePerTask ==
  /\ pc \in DOMAIN iters /\ Quiet /\ iters[pc] < Budget(pc)
  /\ pc = "measured" => plan.stop = "none"
  /\ queue' = IterationTasks
  /\ seq' = seq + Len(mode_tasks(cfg.modes, cfg.sizes))
  /\ UNCHANGED <<cfg, pc, active, batch, attempts, iters, counts, plan, warm,
                 memo, asked, todo, up, progress>>

\* collect_iteration: number the tasks and group them.
CollectIteration ==
  /\ pc \in DOMAIN iters /\ Quiet /\ iters[pc] < Budget(pc)
  /\ pc = "measured" => plan.stop = "none"
  /\ queue' = IterationTasks
  /\ seq' = seq + cfg.samples * Len(mode_tasks(cfg.modes, cfg.sizes))
  /\ UNCHANGED <<cfg, pc, active, batch, attempts, iters, counts, plan, warm,
                 memo, asked, todo, up, progress>>

\* Consecutive tasks of one mode form a group: buffer_unordered pulls from one
\* group at a time, and a stack's tasks run strictly one by one.
Joins(t) ==
  IF pc = "stacks" THEN active = {}
  ELSE Cardinality(active) < cfg.concurrency /\ \A u \in active : u.mode = t.mode

StartTask ==
  /\ queue # <<>> /\ Joins(Head(queue))
  /\ active' = active \cup {Head(queue)}
  /\ queue' = Tail(queue)
  /\ UNCHANGED <<cfg, pc, seq, batch, attempts, iters, counts, plan, warm, memo,
                 asked, todo, up, progress>>

\* A failed try is retried while retries are left.
Again(t, ok) == ~ok /\ t.retry < cfg.retries

\* A try of task t ends: retry, next sample, or the burst is over and its
\* attempts are logged and published.
EndTry(t, ok, bytes) ==
  LET try   == Attempt(SeqNo(t), t.mode, bytes, ok, t.retry, t.sample, t.stack)
      tries == Append(t.tries, try)
      again == Again(t, ok)
      more  == t.sample + 1 < cfg.samples
      rest  == active \ {t}
  IN  /\ seq' = IF t.stack = "none" THEN seq ELSE seq + 1
      /\ \/ /\ again
            /\ active' = rest \cup {[t EXCEPT !.retry = @ + 1, !.tries = tries, !.st = "ready"]}
            /\ UNCHANGED <<batch, progress>>
         \/ /\ ~again /\ more
            /\ active' = rest \cup {[t EXCEPT !.retry = 0, !.sample = @ + 1,
                                              !.tries = tries, !.st = "ready"]}
            /\ UNCHANGED <<batch, progress>>
         \/ /\ ~again /\ ~more
            /\ active' = rest
            /\ batch' = batch \o published_logical_attempts(tries)
            /\ progress' = IF t.stack = "none" THEN progress ELSE progress + Len(tries)
      /\ UNCHANGED <<cfg, pc, queue, attempts, iters, counts, plan, warm, asked, todo, up>>

\* h3_offer::discover: the memo answers, or a request goes out.
DiscoverMiss(t) ==
  /\ t.st = "ready" /\ Gated(t) /\ memo[Origin(t)] = "none"
  /\ active' = (active \ {t}) \cup {[t EXCEPT !.st = "asking"]}
  /\ asked' = [asked EXCEPT ![Origin(t)] = Min({@ + 1, AskedCap})]
  /\ UNCHANGED <<cfg, pc, seq, queue, batch, attempts, iters, counts, plan, warm,
                 memo, todo, up, progress>>

\* Mutant: an unknown answer is asked for again instead of being remembered.
DiscoverAnswerInsisting(t, offer) ==
  /\ t.st = "asking"
  /\ memo' = [memo EXCEPT ![Origin(t)] = IF offer = "unknown" THEN "none" ELSE offer]
  /\ IF offer = "not_offered"
     THEN EndTry(t, FALSE, NoSize)
     ELSE /\ active' = (active \ {t}) \cup
                         {[t EXCEPT !.st = IF offer = "unknown" THEN "ready" ELSE "allowed"]}
          /\ UNCHANGED <<cfg, pc, seq, queue, batch, attempts, iters, counts, plan,
                         warm, asked, todo, up, progress>>

DiscoverAnswer(t, offer) ==
  /\ t.st = "asking"
  /\ memo' = [memo EXCEPT ![Origin(t)] = offer]
  /\ IF offer = "not_offered"
     THEN EndTry(t, FALSE, NoSize)
     ELSE /\ active' = (active \ {t}) \cup {[t EXCEPT !.st = "allowed"]}
          /\ UNCHANGED <<cfg, pc, seq, queue, batch, attempts, iters, counts, plan,
                         warm, asked, todo, up, progress>>

\* dispatch_once with the HTTP/3 answer at hand: the probe ends, by itself or at
\* its cap if it has one; a remembered "not offered" fails it unprobed.
Dispatch(t, ok) ==
  /\ \/ t.st = "allowed"
     \/ t.st = "ready" /\ (Gated(t) => memo[Origin(t)] # "none")
  /\ prober(t.mode, t.size) # "unreachable"
  /\ IF t.st = "ready" /\ Gated(t) /\ memo[Origin(t)] = "not_offered"
     THEN ~ok /\ EndTry(t, FALSE, NoSize)
     ELSE EndTry(t, ok, IF ok THEN t.size ELSE NoSize)
  /\ UNCHANGED memo

(***************************************************************************)
(* What each phase does with an iteration's results.                       *)
(***************************************************************************)
Publish(tag) ==
  /\ Collected
  /\ attempts' = attempts \o Tagged(batch, benchmark_phase_tag(tag))
  /\ batch' = <<>>
  /\ UNCHANGED <<cfg, seq, queue, active, warm, memo, asked, up>>

\* The attempts the phase p has published, for the adaptive checks.
Counted(p, n) == IF cfg.bench THEN [counts EXCEPT ![p] = @ + n] ELSE counts

EndFixed(p) ==
  /\ pc = p /\ Publish(p)
  /\ iters' = [iters EXCEPT ![p] = @ + 1]
  /\ counts' = Counted(p, Len(batch))
  /\ UNCHANGED <<pc, plan, todo, progress>>

\* Mutant: overhead attempts are not counted.
EndOverheadUncounted ==
  /\ pc = "overhead" /\ Publish("overhead")
  /\ iters' = [iters EXCEPT !.overhead = @ + 1]
  /\ UNCHANGED <<counts, pc, plan, todo, progress>>

EndOverhead == EndFixed("overhead")
EndCooldown == EndFixed("cooldown")

\* The attempts of the phase now running are the last ones published.
Recent(n) == SubSeq(attempts, Len(attempts) - n + 1, Len(attempts)) \o batch

EndPilot(long) ==
  /\ pc = "pilot" /\ Publish("pilot")
  /\ iters' = [iters EXCEPT !.pilot = @ + 1]
  /\ counts' = Counted("pilot", Len(batch))
  /\ LET as == Recent(counts.pilot)
         stop == benchmark_adaptive_status(benchmark_pilot_criteria(cfg), as, long, TRUE)
     IN  pc' = IF stop # "none" THEN "plan" ELSE "pilot"
  /\ UNCHANGED <<plan, todo, progress>>

\* The measured plan: from the pilot, explicit, fixed-count, or none.
MakePlan ==
  /\ pc = "plan"
  /\ pc' = "measured"
  /\ IF counts.pilot > 0
     THEN \E est \in 1..cfg.runs :
            plan' = derive_measured_plan_from_pilot(cfg, Recent(counts.pilot), est)
     ELSE plan' = IF MeasuredBench(cfg) THEN explicit_plan(cfg) ELSE NoPlan
  /\ UNCHANGED <<cfg, seq, queue, active, batch, attempts, iters, counts, warm,
                 memo, asked, todo, up, progress>>

EndMeasured(long, close) ==
  /\ pc = "measured" /\ Publish(cfg.phase)
  /\ iters' = [iters EXCEPT !.measured = @ + 1]
  /\ progress' = progress + Len(batch)
  /\ LET done == Len(batch) * iters.measured
         stop == IF plan = NoPlan THEN "none"
                 ELSE benchmark_adaptive_status(plan, Recent(done), long, close)
     IN  plan' = [plan EXCEPT !.stop = stop]
  /\ UNCHANGED <<pc, counts, todo>>

\* A phase with nothing left to run gives way to the next one; leaving the
\* measured loop settles the plan's stop reason.
NextPhase ==
  LET next == [overhead |-> "pilot", pilot |-> "plan", measured |-> "cooldown",
               cooldown |-> "stacks"]
  IN  /\ pc \in DOMAIN iters /\ Quiet
      /\ iters[pc] >= Budget(pc) \/ (pc = "measured" /\ plan.stop # "none")
      /\ pc' = next[pc]
      /\ plan' = IF pc = "measured" /\ plan # NoPlan /\ plan.stop = "none"
                 THEN [plan EXCEPT !.stop = "sample_budget_exhausted"] ELSE plan
      /\ UNCHANGED <<cfg, seq, queue, active, batch, attempts, iters, counts, warm,
                     memo, asked, todo, up, progress>>

\* A stack is skipped unless its /health answers with success.
VisitStack(s, healthy) ==
  /\ pc = "stacks" /\ Quiet /\ s \in todo
  /\ stack_modes(cfg.modes) # <<>>
  /\ todo' = todo \ {s}
  /\ up' = IF healthy THEN up \cup {s} ELSE up
  /\ queue' = IF healthy THEN StackTasks(s) ELSE <<>>
  /\ UNCHANGED <<cfg, pc, seq, active, batch, attempts, iters, counts, plan, warm,
                 memo, asked, progress>>

EndStack ==
  /\ pc = "stacks" /\ Publish(cfg.phase)
  /\ UNCHANGED <<pc, iters, counts, plan, todo, progress>>

Finish ==
  /\ pc = "stacks" /\ Quiet
  /\ todo = {} \/ stack_modes(cfg.modes) = <<>>
  /\ pc' = "finished"
  /\ UNCHANGED <<cfg, seq, queue, active, batch, attempts, iters, counts, plan,
                 warm, memo, asked, todo, up, progress>>

Final == {"finished", "failed", "rejected"}

\* Nothing is polled and nothing can be: buffer_unordered(0) takes no task.
Starved == queue # <<>> /\ active = {} /\ ~Joins(Head(queue))

Done == (pc \in Final \/ Starved) /\ UNCHANGED vars

Step ==
  \/ Launch \/ WarmUp2 \/ WarmUp3
  \/ CollectIteration \/ StartTask
  \/ \E t \in active : DiscoverMiss(t)
  \/ \E t \in active, offer \in {"advertised", "not_offered", "unknown"} : DiscoverAnswer(t, offer)
  \/ \E t \in active, ok \in BOOLEAN : Dispatch(t, ok)
  \/ EndOverhead \/ MakePlan
  \/ \E long \in BOOLEAN : EndPilot(long)
  \/ \E long, close \in BOOLEAN : EndMeasured(long, close)
  \/ EndCooldown \/ NextPhase
  \/ \E s \in todo, healthy \in BOOLEAN : VisitStack(s, healthy)
  \/ EndStack \/ Finish

Next == Step \/ Done

\* A try that ends by itself: it fails unprobed on a remembered "not offered",
\* or its mode is capped.  The other modes have no cap, and the discovery
\* request precedes it.
Remembered(t) == t.st = "ready" /\ Gated(t) /\ memo[Origin(t)] = "not_offered"
Capped(t) == t.st # "asking" /\ (t.mode \in CappedModes \/ Remembered(t))

\* The steps that wait for nothing, or only for what has a deadline (attempt_cap,
\* the five seconds of a stack's /health).
Prompt ==
  \/ Launch \/ (WarmUp2 /\ ~WarmsUp("pageload2")) \/ (WarmUp3 /\ ~WarmsUp("pageload3"))
  \/ CollectIteration \/ StartTask
  \/ \E t \in active : DiscoverMiss(t)
  \/ \E t \in active, ok \in BOOLEAN : Capped(t) /\ Dispatch(t, ok)
  \/ EndOverhead \/ MakePlan
  \/ \E long \in BOOLEAN : EndPilot(long)
  \/ \E long, close \in BOOLEAN : EndMeasured(long, close)
  \/ EndCooldown \/ NextPhase
  \/ \E s \in todo, healthy \in BOOLEAN : VisitStack(s, healthy)
  \/ EndStack \/ Finish

\* Nothing is assumed of the rest: a warm-up, a discovery request and a probe of
\* the transfer, page and load modes read bodies without a deadline.
Spec == Init /\ [][Next]_vars /\ WF_vars(Prompt)

-----------------------------------------------------------------------------
(***************************************************************************)
(* Properties.                                                             *)
(***************************************************************************)
\* The state is well-formed: what run_for_target holds at any await.
TypeOK ==
  /\ pc \in Final \cup DOMAIN iters \cup {"launch", "warm2", "warm3", "plan", "stacks"}
  /\ seq \in Nat /\ progress \in Nat
  /\ \A t \in active : /\ t.mode \in Range(cfg.modes) /\ t.sample < cfg.samples
                       /\ t.retry <= cfg.retries /\ t.st \in {"ready", "asking", "allowed"}
  /\ warm \subseteq {"pageload2", "pageload3"} /\ up \subseteq cfg.stacks

\* Every published attempt is individually addressable: no two attempts of a
\* run, whatever their phase, mode, sample or stack, share a sequence number.
SeqUnique ==
  LET all == attempts \o batch
  IN  \A i, j \in DOMAIN all : all[i].seq = all[j].seq => i = j

\* Cross-mode isolation: two probes run at once only if they are of the same
\* mode, never more of them than --concurrency allows, and never two of a stack.
ModesIsolated ==
  /\ \A t, u \in active : t.mode = u.mode
  /\ Cardinality(active) <= IF pc = "stacks" THEN 1 ELSE cfg.concurrency

\* Nothing is dropped and nothing published twice: a finished run holds one
\* attempt per warm-up and one per (iteration, task, sample), whatever was
\* retried, and a published failure has used up its retries.
PublishedExactly ==
  pc = "finished" =>
    LET tasks == Len(mode_tasks(cfg.modes, cfg.sizes))
        pages == Len(stack_modes(cfg.modes))
        iterations == iters.overhead + iters.pilot + iters.measured + iters.cooldown
        warmed == IF cfg.reuse THEN Cardinality(Range(cfg.modes) \cap {"pageload2", "pageload3"}) ELSE 0
    IN  /\ Len(attempts) = warmed + cfg.samples * (tasks * iterations
                                    + pages * cfg.runs * Cardinality(up))
        /\ \A i \in (warmed + 1)..Len(attempts) :
             attempts[i].ok \/ attempts[i].retry = cfg.retries

\* What the run publishes is exact: in every reachable state the run is well
\* formed, attempts are addressable, modes do not disturb each other's
\* numbers, and the finished run holds each attempt once.
AttemptsExact == TypeOK /\ SeqUnique /\ ModesIsolated /\ PublishedExactly

\* The phase of attempt i rebuilt from the counts a TestRun records, as
\* resolved_attempt_phases does for runs without structural tags.
PositionalPhase(i) ==
  LET w == counts.warmup
      o == w + counts.overhead
      p == o + counts.pilot
  IN  IF cfg.phase \in SpecialPhases THEN cfg.phase
      ELSE CASE i <= w                                                    -> "warmup"
             [] i > w /\ i <= o                                           -> "overhead"
             [] i > o /\ i <= p                                           -> "pilot"
             [] i > p /\ counts.cooldown > 0
                      /\ i > Len(attempts) - counts.cooldown              -> "cooldown"
             [] OTHER                                                     -> cfg.phase

\* The structural phase tags and the recorded counts tell one story: for a
\* finished benchmark run without stacks, rebuilding the phases from the
\* counts gives exactly the tags the attempts carry.
PhasesAgree ==
  pc = "finished" /\ cfg.bench /\ up = {} =>
    \A i \in DOMAIN attempts : attempts[i].phase = PositionalPhase(i)

\* A stop reason is honest: "accuracy target reached" only if every case has
\* the plan's minimum of samples, "budget exhausted" only after every
\* iteration the plan allows, and the loop never exceeds its budget.
StopHonest ==
  LET per == cfg.samples * Len(mode_tasks(cfg.modes, cfg.sizes))
      measured == SubSeq(attempts, Len(attempts) - per * iters.measured + 1, Len(attempts))
  IN  /\ iters.measured <= max_run_count(cfg, plan)
      /\ pc = "measured" /\ plan.stop = "accuracy_target_reached" =>
           completed_samples(measured) >= plan.min
      /\ plan.stop = "sample_budget_exhausted" =>
           iters.measured = plan.max /\ progress >= plan.max * per

\* All that a run waits for has no deadline: a warm-up, the discovery requests
\* and uncapped probes that are all it has in flight, or, with --concurrency 0,
\* a place for its next task.
Waiting ==
  \/ pc = "warm2" /\ WarmsUp("pageload2")
  \/ pc = "warm3" /\ WarmsUp("pageload3")
  \/ /\ active # {} /\ \A t \in active : ~Capped(t)
     /\ queue # <<>> => ~Joins(Head(queue))
  \/ Starved

\* A run ends, whatever the capped probes, the stacks and the HTTP/3 memo do, or
\* comes to rest in a wait for which the code has no deadline.  It never goes
\* round in circles (retries, discovery, iterations), never leaves a task that
\* could start unstarted beside one that hangs, and of capped modes alone, with
\* no HTTP/3 to discover, it always ends.
Terminates == <>(pc \in Final) \/ <>[]Waiting

=============================================================================
