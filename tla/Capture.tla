------------------------------- MODULE Capture -------------------------------
(***************************************************************************)
(* The tester-side packet capture: a tshark child process around the       *)
(* probes of a run, and the summary made of its trace afterwards.          *)
(***************************************************************************)
EXTENDS Integers, FiniteSets

CONSTANTS
  Traces,      \* the traces tshark may write
  PipeLines,   \* lines of tshark output the unread pipe holds
  WritePcap,   \* write_pcap
  WriteSummary \* values of write_summary_json

\* A trace: frames, by transport, faults, and by destination (numbered in the
\* order of their names), "target" being the endpoint the targets name.
Endpoint == [name : Int, packets : Nat, target : BOOLEAN]
Trace == [frames : Nat, tcp : Nat, udp : Nat, quic : Nat, http : Nat, dns : Nat, faults : Nat,
          to : SUBSET Endpoint]
ASSUME CaptureAssumption ==
  /\ \A trace \in Traces : trace \in Trace /\ IsFiniteSet(trace.to)
  /\ PipeLines \in Nat /\ WriteSummary # {} /\ WriteSummary \subseteq BOOLEAN

VARIABLES
  capture, \* [at, summarise]: where the session is, and write_summary_json
  tshark,  \* the capturing child: "none", "running" or "exited"
  pcap,    \* packet-capture-tester.pcapng: [exists, trace]
  summary  \* PacketCaptureSummary, or NoSummary

capturevars == <<capture, tshark, pcap, summary>>

NoTrace == [frames |-> 0, tcp |-> 0, udp |-> 0, quic |-> 0, http |-> 0, dns |-> 0, faults |-> 0,
            to |-> {}]
NoSummary == [status |-> "none"]

\* The output directory may hold the trace of an earlier run.
CaptureStart == [at : {"start"}, summarise : WriteSummary]
PcapStart == [exists : BOOLEAN, trace : {NoTrace}]

CaptureAt(place) == capture.at = place
CaptureGo(place) == capture' = [capture EXCEPT !.at = place]

-----------------------------------------------------------------------------
(***************************************************************************)
(* Starting.  Whatever fails, the caller warns and goes on uncaptured.     *)
(***************************************************************************)
\* build_plan: no tester-side capture in this configuration.
NoPlan == CaptureAt("start") /\ CaptureGo("off") /\ UNCHANGED <<tshark, pcap, summary>>

\* detect_tshark, which.
TsharkMissing == CaptureAt("start") /\ CaptureGo("off") /\ UNCHANGED <<tshark, pcap, summary>>
detect_tshark == CaptureAt("start") /\ CaptureGo("prereqs") /\ UNCHANGED <<tshark, pcap, summary>>

\* tshark -D within 10 s, then the spawn of the capture and a second of grace,
\* in which nobody looks whether it is still there.
check_capture_prereqs(ok) ==
  /\ CaptureAt("prereqs") /\ CaptureGo(IF ok THEN "spawn" ELSE "off")
  /\ UNCHANGED <<tshark, pcap, summary>>

SpawnCapture(ok) ==
  /\ CaptureAt("spawn")
  /\ IF ok THEN CaptureGo("capturing") /\ tshark' = "running"
     ELSE CaptureGo("off") /\ UNCHANGED tshark
  /\ UNCHANGED <<pcap, summary>>

-----------------------------------------------------------------------------
(***************************************************************************)
(* tshark, external: it truncates the file once its interface is open,     *)
(* writes what it captured when interrupted, and may die at any time.      *)
(***************************************************************************)
Exits(trace) ==
  /\ tshark = "running" /\ tshark' = "exited"
  /\ pcap' = [exists |-> TRUE, trace |-> trace]
TsharkRefused ==
  /\ tshark = "running" /\ CaptureAt("capturing")
  /\ tshark' = "exited" /\ UNCHANGED <<capture, pcap, summary>>
TsharkDies == \E trace \in Traces : CaptureAt("capturing") /\ Exits(trace)
              /\ UNCHANGED <<capture, summary>>
TsharkFlushes == \E trace \in Traces : CaptureAt("interrupted") /\ Exits(trace)
                 /\ UNCHANGED <<capture, summary>>

-----------------------------------------------------------------------------
(***************************************************************************)
(* Finalising.                                                             *)
(***************************************************************************)
\* A Drop that leaves the child alone.
DroppedOnly == capture' = [capture EXCEPT !.at = "off"] /\ UNCHANGED <<tshark, pcap, summary>>
\* Drop of the session on an error of the caller: kill and wait.
SessionDropped ==
  /\ CaptureGo("off")
  /\ tshark' = IF tshark = "running" THEN "exited" ELSE tshark
  /\ IF tshark = "running"
     THEN \E trace \in {NoTrace} \cup Traces : pcap' = [exists |-> TRUE, trace |-> trace]
     ELSE UNCHANGED pcap
  /\ UNCHANGED summary

\* try_wait, then SIGINT.
Interrupt ==
  /\ CaptureAt("finalize") /\ CaptureGo("interrupted") /\ UNCHANGED <<tshark, pcap, summary>>

\* After 1.2 s: kill if it still runs, and what it had buffered is lost.
KillAndWait ==
  /\ CaptureAt("interrupted") /\ CaptureGo("stopped")
  /\ tshark' = "exited"
  /\ pcap' = IF tshark = "running" THEN [exists |-> TRUE, trace |-> NoTrace] ELSE pcap
  /\ UNCHANGED summary

\* run_tshark_with_timeout reads the pipes only after the child has exited: one
\* that has more to say than the pipe holds never exits, is killed after 60 s,
\* and its count is taken for 0.
count_matches(n) == IF n > PipeLines THEN 0 ELSE n
Counts(trace) ==
  [frames |-> count_matches(trace.frames), tcp |-> count_matches(trace.tcp),
   udp |-> count_matches(trace.udp), quic |-> count_matches(trace.quic),
   http |-> count_matches(trace.http), dns |-> count_matches(trace.dns),
   faults |-> count_matches(trace.faults),
   to |-> IF trace.frames > PipeLines THEN {} ELSE trace.to]

\* top_n_endpoints: by packets, most first, then by name.
endpoint_counts(to) == {e \in to : e.packets > 0}
Ahead(rows, e) ==
  {a \in rows : a.packets > e.packets \/ (a.packets = e.packets /\ a.name < e.name)}
Foremost(rows, n) == {e \in rows : Cardinality(Ahead(rows, e)) < n}
top_n_endpoints(to) == Foremost(endpoint_counts(to), 5)

\* The endpoint the targets name, or else the two busiest.
likely_target_endpoints(rows) ==
  LET named == {e \in rows : e.target}
  IN  IF named # {} THEN named ELSE Foremost(rows, 2)
likely_target_packet_count(likely) ==
  Cardinality(UNION {{e} \X (1..e.packets) : e \in likely})

\* pct: tenths of a percent, rounded half up.
pct(packets, total) == IF total = 0 THEN 0 ELSE (2000 * packets + total) \div (2 * total)

observed_mixed_transport(c) == c.tcp > 0 /\ (c.udp > 0 \/ c.quic > 0)
\* apply_interpretation: when the trace cannot be read as the target's alone.
apply_interpretation(c, rows, likely) ==
  \/ c.frames = 0
  \/ observed_mixed_transport(c)
  \/ Cardinality(rows) > 1 /\ Cardinality(likely) # 1
  \/ likely = {} /\ rows # {}

\* The warnings it leaves: one or more per reason for doubt, and two that leave
\* the trace readable, TCP alone and retransmissions or resets.
observed_tcp_only(c) == c.tcp > 0 /\ c.udp = 0 /\ c.quic = 0
interpretation_warns(c, ambiguous) == ambiguous \/ observed_tcp_only(c) \/ c.faults > 0

capture_confidence_label(c, likely, ambiguous) ==
  LET share == pct(likely_target_packet_count(likely), c.frames) IN
  CASE c.frames = 0 -> "low"
    [] c.frames > 0 /\ ~ambiguous /\ likely # {} /\ share >= 500 -> "high"
    [] c.frames > 0 /\ (ambiguous \/ share < 500) /\ likely # {} /\ share >= 200 -> "medium"
    [] OTHER -> "low"

\* The confidence taken before the interpretation.
summarize_early(trace) ==
  LET c == Counts(trace)
      rows == top_n_endpoints(c.to)
      likely == likely_target_endpoints(rows)
  IN  [status |-> IF c.frames > 0 THEN "captured" ELSE "empty", counts |-> c,
       ambiguous |-> apply_interpretation(c, rows, likely),
       warned |-> interpretation_warns(c, apply_interpretation(c, rows, likely)),
       confidence |-> capture_confidence_label(c, likely, FALSE)]
summarize(trace) ==
  LET c == Counts(trace)
      rows == top_n_endpoints(c.to)
      likely == likely_target_endpoints(rows)
      ambiguous == apply_interpretation(c, rows, likely)
  IN  [status |-> IF c.frames > 0 THEN "captured" ELSE "empty", counts |-> c,
       ambiguous |-> ambiguous, warned |-> interpretation_warns(c, ambiguous),
       confidence |-> capture_confidence_label(c, likely, ambiguous)]

\* No summary wanted, no file, or the summary cannot be written: none is attached.
SummaryFails ==
  /\ CaptureAt("stopped") /\ CaptureGo("off") /\ UNCHANGED <<tshark, pcap, summary>>
Summarize ==
  /\ CaptureAt("stopped") /\ capture.summarise /\ pcap.exists
  /\ summary' = summarize(pcap.trace)
  /\ pcap' = IF WritePcap THEN pcap ELSE [exists |-> FALSE, trace |-> NoTrace]
  /\ CaptureGo("off") /\ UNCHANGED tshark

StartCapture ==
  \/ NoPlan \/ TsharkMissing \/ detect_tshark
  \/ \E ok \in BOOLEAN : check_capture_prereqs(ok) \/ SpawnCapture(ok)
FinishCapture == Interrupt \/ KillAndWait \/ SummaryFails \/ Summarize
TsharkStep == TsharkRefused \/ TsharkDies \/ TsharkFlushes

-----------------------------------------------------------------------------
\* A session that is over has no tshark left behind it, on every error path of
\* its caller too (Drop, finalize).
TsharkReaped == capture.at = "off" => tshark # "running"

\* A summary's confidence is "high" only for packets of one kind of transport
\* that mostly went to one place, but for the rounding of the share
\* (summarize: the interpretation comes first; pct).
ConfidenceEarned ==
  summary # NoSummary /\ summary.confidence = "high" =>
    /\ summary.counts.frames > 0 /\ ~observed_mixed_transport(summary.counts)
    /\ \E e \in summary.counts.to : 2000 * e.packets >= 999 * summary.counts.frames

=============================================================================
