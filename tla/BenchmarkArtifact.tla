-------------------------- MODULE BenchmarkArtifact --------------------------
(***************************************************************************)
(* The benchmark artifact of a run: which attempts count as samples of     *)
(* which case, what the summaries of the cases and of the whole run say,   *)
(* and whether the data are good enough to publish.                        *)
(*                                                                         *)
(* A benchmarked run is [phase, attempts, stability, environment,          *)
(* baseline].  An attempt is [mode, phase, ok, retries, stack, parts], and *)
(* parts maps the names of the results it carries to [value, count,        *)
(* payload, bytes], where value is Unknown if the result has none.         *)
(* Metrics are whole numbers, ratios and loss are in percent.  The figures *)
(* that are only printed (mean, moments, rates) are left out.              *)
(***************************************************************************)
EXTENDS ProbeModes, FiniteSetsExt

CONSTANTS
  Adequate, Marginal,   \* included samples of the worst case (100 and 30)
  Thresholds            \* BenchmarkNoiseThresholds: [loss, jitter, spread, busy, steal]

ASSUME ArtifactAssumption ==
  /\ Adequate \in Nat /\ Marginal \in 0..Adequate
  /\ \A f \in {"loss", "jitter", "spread", "busy", "steal"} : Thresholds[f] \in Nat

Unknown == -1     \* Option::None

(***************************************************************************)
(* Attempts, cases and samples.                                            *)
(***************************************************************************)
\* The result that holds the primary metric of a mode.
metric_part(mode) ==
  CASE mode \in {"udpdownload", "udpupload"}              -> "udp_throughput"
    [] mode \in SizedModes \cup {"http1", "http2", "http3", "native", "curl", "sdkprobe"}
         /\ mode \notin {"udpdownload", "udpupload"}      -> "http"
    [] mode \in {"tls", "tlsresume"}                      -> "tls"
    [] mode \in {"pageload", "pageload2", "pageload3"}    -> "page_load"
    [] mode \in {"browser", "browser1", "browser2", "browser3"} -> "browser"
    [] OTHER                                              -> mode

\* Where nothing was received the average is 0 and no measurement.  Of a
\* dualstack attempt the value is that of the faster leg that has one.
Averages == {"udp", "stamp", "ping", "websocket"}

primary_metric_value(a) ==
  LET part == metric_part(a.mode)
  IN  IF part \notin DOMAIN a.parts \/ (part \in Averages /\ a.parts[part].count = 0)
      THEN Unknown ELSE a.parts[part].value

\* A label that is only one mode's own is written as the mode.
primary_metric_label(mode) ==
  CASE mode \in SizedModes                                   -> "Throughput MB/s"
    [] mode = "tcp"                                          -> "Connect ms"
    [] mode \in {"udp", "stamp", "ping"}                     -> "RTT avg ms"
    [] mode \in {"rpm", "responsiveness", "mthroughput", "path", "websocket", "pmtud",
                 "dns"}                                      -> mode
    [] mode \in {"tls", "tlsresume"}                         -> "Handshake ms"
    [] mode \in {"browser", "browser1", "browser2", "browser3"} -> "Load ms"
    [] OTHER                                                 -> "Total ms"

protocol_is_throughput(mode) == mode \in SizedModes
protocol_is_higher_better(mode) ==
  protocol_is_throughput(mode) \/ mode \in {"rpm", "responsiveness", "mthroughput"}
metric_unit_for_protocol(mode) ==
  CASE mode \in {"rpm", "responsiveness"}                         -> "RPM"
    [] mode = "path"                                              -> "hops"
    [] mode = "pmtud"                                             -> "bytes"
    [] mode = "mthroughput" \/ protocol_is_throughput(mode)       -> "MB/s"
    [] OTHER                                                      -> "ms"

attempt_payload_bytes(a) ==
  LET known == {p \in DOMAIN a.parts \cap {"http", "udp_throughput"} : a.parts[p].payload > 0}
  IN  IF known = {} THEN Unknown
      ELSE a.parts[IF "http" \in known THEN "http" ELSE "udp_throughput"].payload

attempt_bytes_transferred(a) ==
  IF "http" \in DOMAIN a.parts THEN a.parts["http"].bytes
  ELSE IF "udp_throughput" \in DOMAIN a.parts THEN a.parts["udp_throughput"].bytes ELSE 0

\* An attempt without a response has no payload, and is of another case than
\* its siblings.
benchmark_case_id(a) == <<a.mode, attempt_payload_bytes(a), a.stack>>
benchmark_case_for_attempt(a) ==
  [id |-> benchmark_case_id(a), name |-> primary_metric_label(a.mode),
   unit |-> metric_unit_for_protocol(a.mode), higher |-> protocol_is_higher_better(a.mode)]

benchmark_sample_for_attempt(a, phase) ==
  IF a.phase # phase THEN "excluded_phase"
  ELSE IF ~a.ok THEN "excluded_failure"
  ELSE IF primary_metric_value(a) = Unknown THEN "excluded_missing_metric"
  ELSE IF a.retries > 0 THEN "included_after_retry" ELSE "included"

(***************************************************************************)
(* Statistics.                                                             *)
(***************************************************************************)
\* The sum of the natural numbers f[i], as the number of units in all of them.
Sum(f) == Cardinality(UNION {{i} \X (1..f[i]) : i \in DOMAIN f})

\* The values in ascending order: the k-th has fewer than k below it.
Below(values, v) == Cardinality({i \in DOMAIN values : values[i] < v})
UpTo(values, v) == Cardinality({i \in DOMAIN values : values[i] <= v})
Sorted(values) ==
  [k \in 1..Cardinality(DOMAIN values) |->
     CHOOSE v \in Range(values) : Below(values, v) < k /\ k <= UpTo(values, v)]

\* The percentile p, in tenths of a percent, by linear interpolation; times 1000.
percentile_from_sorted(sorted, p) ==
  LET rank == p * (Len(sorted) - 1)
      lo == rank \div 1000 + 1
      frac == rank % 1000
  IN  IF Len(sorted) = 0 THEN 0
      ELSE IF frac = 0 THEN 1000 * sorted[lo]
      ELSE 1000 * sorted[lo] + (sorted[lo + 1] - sorted[lo]) * frac

\* cv > percent/100, without the square root; a lone value and a zero mean have
\* no variation.
cv_exceeds(values, percent) ==
  LET n == Len(values)
      sum == Sum(values)
      squares == Sum([i \in DOMAIN values |-> values[i] * values[i]])
  IN  n > 1 /\ sum # 0
      /\ 10000 * n * (n * squares - sum * sum) > percent * percent * (n - 1) * sum * sum

\* The tier of the most varied of the cases.
quality_tier_for_cv(cases) ==
  LET exceeds(percent) == \E s \in cases : cv_exceeds(s.values, percent)
  IN  IF ~exceeds(3) THEN "excellent" ELSE IF ~exceeds(8) THEN "good"
      ELSE IF ~exceeds(15) THEN "fair" ELSE "unreliable"

\* Values outside Tukey's fences, 1.5 interquartile ranges from the quartiles.
outliers(values) ==
  LET p25 == percentile_from_sorted(values, 250)
      p75 == percentile_from_sorted(values, 750)
      outside(v) == \/ 2000 * v < 2 * p25 - 3 * (p75 - p25)
                    \/ 2000 * v > 2 * p75 + 3 * (p75 - p25)
  IN  Cardinality({i \in DOMAIN values : outside(values[i])})

Percentiles == <<50, 250, 500, 750, 950, 990, 999>>

\* The summary of the attempts numbered in these.
benchmark_summary_from_attempts(id, attempts, these) ==
  LET kept == {i \in these : attempts[i].ok /\ primary_metric_value(attempts[i]) # Unknown}
      values == Sorted([i \in kept |-> primary_metric_value(attempts[i])])
      successes == Cardinality({i \in these : attempts[i].ok})
      n == Cardinality(these)
  IN  [id |-> id, sample_count |-> n, included |-> Len(values), excluded |-> n - Len(values),
       success_count |-> successes, failure_count |-> n - successes,
       bytes |-> Sum([i \in these |-> attempt_bytes_transferred(attempts[i])]),
       values |-> values,
       percentiles |-> [i \in DOMAIN Percentiles |-> percentile_from_sorted(values, Percentiles[i])],
       outlier_count |-> outliers(values)]

\* bootstrap_median_interval needs two different values to be wide at all; how
\* wide it is, and whether a histogram has several modes, is the data's choice.
MayBeWide(s) == s.included > 1 /\ s.values[1] # s.values[s.included]

(***************************************************************************)
(* Quality.                                                                *)
(***************************************************************************)
packet_loss_exceeds_threshold(loss) ==
  IF Thresholds.loss = 0 THEN loss > 0 ELSE loss >= Thresholds.loss

\* The checks of the network before the run, the best of them that was made.
\* A check is [samples, loss, jitter, spread, busy, steal], or NoCheck.
NoCheck == [samples |-> Unknown]

stability_noise(c) ==
  IF \/ c.samples = 0 \/ packet_loss_exceeds_threshold(c.loss)
     \/ c.jitter >= Thresholds.jitter \/ c.spread >= Thresholds.spread
  THEN "high"
  ELSE IF c.loss > 0 \/ c.jitter >= 10 \/ c.spread >= 130 THEN "medium" ELSE "low"

environment_noise(c) ==
  CASE c.samples = 0 \/ packet_loss_exceeds_threshold(c.loss) -> "high"
    [] c.samples # 0 /\ ~packet_loss_exceeds_threshold(c.loss) /\ c.loss > 0 -> "medium"
    [] OTHER -> IF c.spread >= Thresholds.spread THEN "high"
                ELSE IF c.spread >= 130 THEN "medium" ELSE "low"

baseline_noise(c) ==
  IF c = NoCheck THEN "medium"
  ELSE IF c.samples = 0 \/ c.spread >= Thresholds.spread THEN "high"
  ELSE IF c.spread >= 130 THEN "medium" ELSE "low"

noise_level(run) ==
  IF run.stability # NoCheck THEN stability_noise(run.stability)
  ELSE IF run.environment # NoCheck THEN environment_noise(run.environment)
  ELSE baseline_noise(run.baseline)

\* A contended tester distorts its own timings; what was not measured does not
\* block.
contention(run) ==
  IF run.environment = NoCheck THEN {}
  ELSE {f \in {"busy", "steal"} :
          run.environment[f] # Unknown /\ run.environment[f] >= Thresholds[f]}

case_blockers(s, wide, modal) ==
  (IF s.failure_count > 0 THEN {"failures"} ELSE {})
  \cup (IF cv_exceeds(s.values, 10) THEN {"variability"} ELSE {})
  \cup (IF s.id \in wide THEN {"margin"} ELSE {})
  \cup (IF s.id \in modal THEN {"multimodal"} ELSE {})

sufficiency_of(n) ==
  IF n >= Adequate THEN "adequate" ELSE IF n >= Marginal THEN "marginal" ELSE "insufficient"

\* Mutant: the run is judged as a whole.
judged_together(summaries, aggregate) == {aggregate}

\* Quality is judged per case: the aggregate mixes what is not comparable.
judged(summaries, aggregate) == IF summaries = {} THEN {aggregate} ELSE summaries

benchmark_data_quality(run, summaries, aggregate, wide, modal) ==
  LET cases == judged(summaries, aggregate)
      sufficiency == sufficiency_of(Min({s.included : s \in cases}))
      blockers ==
        (IF noise_level(run) = "high" THEN {"noise"} ELSE {}) \cup contention(run)
        \cup (UNION {case_blockers(s, wide, modal) : s \in cases})
        \cup (IF sufficiency # "adequate" THEN {"sufficiency"} ELSE {})
  IN  [noise |-> noise_level(run), sufficiency |-> sufficiency,
       tier |-> quality_tier_for_cv(cases), blockers |-> blockers,
       publication_ready |-> blockers = {}]

(***************************************************************************)
(* The artifact.                                                           *)
(***************************************************************************)
\* The one value all cases share, else the general one.
aggregate_metric(values, mixed) ==
  IF Cardinality(values) = 1 THEN CHOOSE v \in values : TRUE ELSE mixed
aggregate_metric_name(cases) == aggregate_metric({c.name : c \in cases}, "Primary metric")
aggregate_metric_unit(cases) ==
  IF cases = {} THEN "unknown" ELSE aggregate_metric({c.unit : c \in cases}, "mixed")

\* The attempts of the measured phase.
primary_attempts(run) == {i \in DOMAIN run.attempts : run.attempts[i].phase = run.phase}

benchmark_launch_from_records(run) ==
  LET primary == primary_attempts(run)
      successes == Cardinality({i \in primary : run.attempts[i].ok})
      checks == {c \in {"environment-check", "stability-check"} :
                   IF c = "stability-check" THEN run.stability # NoCheck
                   ELSE run.environment # NoCheck \/ run.baseline # NoCheck}
      present == checks \cup {run.attempts[i].phase : i \in DOMAIN run.attempts}
  IN  [sample_count |-> Len(run.attempts), primary_sample_count |-> Cardinality(primary),
       warmup_sample_count |->
         Cardinality({i \in DOMAIN run.attempts : run.attempts[i].phase = "warmup"}),
       success_count |-> successes, failure_count |-> Cardinality(primary) - successes,
       phases |-> IF present = {} THEN {run.phase} ELSE present]

benchmark_cases(run) == {benchmark_case_for_attempt(run.attempts[i]) : i \in DOMAIN run.attempts}

\* Cases are those of all attempts, summaries are over the primary phase.
case_summary(run, c) ==
  benchmark_summary_from_attempts(c.id, run.attempts,
    {i \in primary_attempts(run) : benchmark_case_id(run.attempts[i]) = c.id})

to_benchmark_artifact(run, wide, modal) ==
  LET cases == benchmark_cases(run)
      summaries == {case_summary(run, c) : c \in cases}
      summary == benchmark_summary_from_attempts("aggregate", run.attempts, primary_attempts(run))
      candidates == {s.id : s \in {x \in summaries : MayBeWide(x)}}
  IN  [run |-> run, cases |-> cases, summaries |-> summaries, summary |-> summary,
       metric |-> <<aggregate_metric_name(cases), aggregate_metric_unit(cases)>>,
       samples |-> [i \in DOMAIN run.attempts |->
          [case |-> benchmark_case_id(run.attempts[i]),
           status |-> benchmark_sample_for_attempt(run.attempts[i], run.phase)]],
       launch |-> benchmark_launch_from_records(run),
       quality |-> benchmark_data_quality(run, summaries, summary,
                     wide \cap candidates, modal \cap candidates)]

NoArtifact == [run |-> "none"]

-----------------------------------------------------------------------------
(***************************************************************************)
(* Properties of an artifact.                                              *)
(***************************************************************************)
Total(summaries, Field(_)) == Sum([s \in summaries |-> Field(s)])

\* The figures of an artifact agree with each other although each section is
\* computed on its own: a case's summary is over exactly the samples listed as
\* included, the cases add up to the aggregate and to the launch, percentiles
\* never cross, and an aggregate has a unit of its own only if all cases share it.
Reconciles(a) ==
  /\ \A s \in a.summaries :
       /\ s.included = Cardinality({i \in DOMAIN a.samples :
            a.samples[i].case = s.id /\ a.samples[i].status \in {"included", "included_after_retry"}})
       /\ s.sample_count = s.success_count + s.failure_count
       /\ \A i \in 1..(Len(Percentiles) - 1) : s.percentiles[i] <= s.percentiles[i + 1]
       /\ s.outlier_count < Max({s.included, 1})
  /\ Total(a.summaries, LAMBDA s : s.sample_count) = a.summary.sample_count
  /\ Total(a.summaries, LAMBDA s : s.included) = a.summary.included
  /\ Total(a.summaries, LAMBDA s : s.bytes) = a.summary.bytes
  /\ a.launch.primary_sample_count = a.summary.sample_count
  /\ a.launch.failure_count = a.summary.failure_count
  /\ a.metric[2] # "mixed" => \A c \in a.cases : c.unit = a.metric[2]

\* "publication ready" is earned by the raw attempts: all the measured ones
\* succeeded, each belongs to a case with enough samples of its own, none of
\* those cases varies too much, and the network and the tester were quiet.
Earned(a) ==
  LET measured == primary_attempts(a.run)
      like(i) == {j \in measured :
                    /\ benchmark_case_id(a.run.attempts[j]) = benchmark_case_id(a.run.attempts[i])
                    /\ primary_metric_value(a.run.attempts[j]) # Unknown}
  IN  a.quality.publication_ready =>
        /\ \A i \in measured : a.run.attempts[i].ok /\ Cardinality(like(i)) >= Adequate
        /\ a.quality.noise # "high" /\ contention(a.run) = {}
        /\ a.quality.tier \in {"excellent", "good", "fair"}

=============================================================================
