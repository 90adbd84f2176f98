----------------------------- MODULE MCProbeRun -----------------------------
(***************************************************************************)
(* Invocations that between them take every branch of the engine.          *)
(***************************************************************************)
EXTENDS ProbeRun

NoFile == [x \in {} |-> 0]
Input(cli) == [cli |-> cli, file |-> NoFile]

MCInputs ==
  {\* two sizes of one HTTP/3 mode race, then another mode; retried once
   Input([modes |-> <<"download3", "http1">>, payload_sizes |-> <<1, 2>>, runs |-> 1,
          concurrency |-> 2, retries |-> 1]),
   \* bursts with retries, a shorthand from the file, a clamped burst
   [cli |-> [samples |-> 2, retries |-> 1, runs |-> 2],
    file |-> [modes |-> <<"http1", "bogus">>, runs |-> 3]],
   \* a benchmark with every default: overhead, pilot, measured, cooldown
   Input([modes |-> <<"tcp">>, runs |-> 2, benchmark_mode |-> TRUE]),
   \* explicit adaptive controls on a sized mode
   Input([modes |-> <<"upload">>, payload_sizes |-> <<1>>, runs |-> 2,
          benchmark_mode |-> TRUE, benchmark_min_samples |-> 3,
          benchmark_max_samples |-> 4, benchmark_min_duration_ms |-> 5,
          benchmark_target_error |-> TRUE]),
   \* a pilot with explicit bounds, and a measured maximum below them
   Input([modes |-> <<"dns">>, runs |-> 3, benchmark_mode |-> TRUE,
          benchmark_pilot_min_samples |-> 2, benchmark_pilot_min_duration_ms |-> 1,
          benchmark_max_samples |-> 3]),
   \* connection reuse, inside a dedicated warm-up run and outside a benchmark
   Input([modes |-> <<"pageload">>, runs |-> 1, connection_reuse |-> TRUE,
          benchmark_mode |-> TRUE, benchmark_phase |-> "warmup"]),
   Input([modes |-> <<"pageload">>, runs |-> 1, connection_reuse |-> TRUE,
          benchmark_mode |-> TRUE]),
   \* HTTP stacks: a fixed-count benchmark with bursts
   Input([modes |-> <<"pageload3">>, runs |-> 2, samples |-> 2,
          http_stacks |-> {"nginx"}, benchmark_mode |-> TRUE]),
   Input([modes |-> <<"browser3">>, runs |-> 1, retries |-> 1,
          http_stacks |-> {"nginx", "iis"}]),
   \* a legal concurrency that polls nothing
   Input([modes |-> <<"udp">>, runs |-> 1, concurrency |-> 0]),
   \* refused, and failing before the first probe
   Input([modes |-> <<"upload">>, runs |-> 1]),
   Input([modes |-> <<"http1">>, runs |-> 1, request_body_file |-> "missing"])}

=============================================================================
