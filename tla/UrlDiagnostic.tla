---------------------------- MODULE UrlDiagnostic ----------------------------
(***************************************************************************)
(* The URL diagnostic (--url-test-url): one primary page load in a         *)
(* browser, its resources, the HAR export, and the h1, h2 and h3           *)
(* validation probes that follow the packet capture.                       *)
(***************************************************************************)
EXTENDS Integers, Sequences, SequencesExt, FiniteSets, FiniteSetsExt, Functions

CONSTANTS
  UrlRequests,  \* [har, pcap, force]: the requests that may be made
  H3Repeat,     \* http3_repeat_count
  Resources     \* the resource lists a page load may report

Resource == [origin : STRING, bytes : Nat, cached : BOOLEAN]
ASSUME UrlAssumption ==
  UrlRequests # {} /\ H3Repeat \in Nat /\ Resources \subseteq Seq(Resource)

VARIABLES
  url  \* the UrlTestRun, its stage, whether the browser feature is compiled in,
       \* and as history whether the page loaded

Unset == "unset"

\* plan: what the runtime cannot do is an error of the run from the start.
UrlPlan(request, feature, able) ==
  {e \in {"har unavailable", "pcap unavailable", "browser unavailable"} :
     \/ e = "har unavailable" /\ request.har /\ ~feature
     \/ e = "pcap unavailable" /\ request.pcap /\ ~able.pcap
     \/ e = "browser unavailable" /\ ~able.browser}

UrlStart ==
  [at : {"plan"}, request : UrlRequests, status : {"Pending"}, errors : {{}},
   resources : {<<>>}, origins : {<<>>}, connections : {0}, har : {FALSE},
   probes : {<<>>}, validated : {<<>>}, alt_svc : {Unset}, loaded : {FALSE},
   feature : BOOLEAN]

UrlAt(place) == url.at = place
UrlSet(fields) == url' = [f \in DOMAIN url |-> IF f \in DOMAIN fields THEN fields[f] ELSE url[f]]

-----------------------------------------------------------------------------
\* validate: scheme, host, addresses, timeouts, repeat count; an error ends the run.
UrlRefused == UrlAt("plan") /\ UrlSet([at |-> "error"])

plan ==
  /\ UrlAt("plan")
  /\ \E able \in [pcap : BOOLEAN, browser : BOOLEAN] :
       UrlSet([at |-> "launch", errors |-> UrlPlan(url.request, url.feature, able),
               status |-> "Running"])

mark_failed(reason) ==
  UrlSet([at |-> "loaded", status |-> "Failed", errors |-> url.errors \cup {reason}])

\* No Chrome, no page, no event stream: an error of the whole diagnostic.
LaunchFails == UrlAt("launch") /\ url.feature /\ UrlSet([at |-> "error"])
\* A build without the browser feature.
NoBrowserFeature == UrlAt("launch") /\ ~url.feature /\ mark_failed("requires browser feature")
Launch ==
  /\ UrlAt("launch") /\ url.feature /\ "browser unavailable" \notin url.errors
  /\ UrlSet([at |-> "navigate"])

NavigationFails == UrlAt("navigate") /\ mark_failed("navigation failed")
NavigationTimesOut == UrlAt("navigate") /\ mark_failed("navigation timed out")
\* goto, wait_for_navigation, then the events until the drain deadline.
Navigate == UrlAt("navigate") /\ UrlSet([at |-> "snapshot", loaded |-> TRUE])

\* The timing snapshot cannot be taken or parsed.
SnapshotFails == UrlAt("snapshot") /\ UrlSet([at |-> "error"])

\* summarize_origins_and_connections: requests and failures per origin.
OriginOf(r) == IF r.origin = Unset THEN "primary" ELSE r.origin
summarize_origins(resources) ==
  LET of(o) == {i \in DOMAIN resources : OriginOf(resources[i]) = o}
  IN  [o \in {OriginOf(resources[i]) : i \in DOMAIN resources} |->
         [requests |-> Cardinality(of(o)),
          bytes |-> MapThenSumSet(LAMBDA i : resources[i].bytes, of(o)),
          hits |-> Cardinality({i \in of(o) : resources[i].cached})]]
peak_origin_requests(origins) == Max({origins[o].requests : o \in DOMAIN origins} \cup {0})

Snapshot ==
  /\ UrlAt("snapshot")
  /\ \E resources \in Resources :
       LET origins == summarize_origins(resources) IN
       UrlSet([at |-> "har", resources |-> resources, origins |-> origins,
               connections |-> peak_origin_requests(origins)])

mark_completed(errors) == IF errors = {} THEN "Completed" ELSE "Partial"

\* write_har_artifact has nothing to write for a page without resources.
write_har_artifact(resources, writable) ==
  CASE resources = <<>> -> "no resources to export"
    [] resources # <<>> /\ writable -> "written"
    [] OTHER -> "har export failed"
HarExport ==
  /\ UrlAt("har")
  /\ \E writable \in BOOLEAN :
       LET har == IF url.request.har THEN write_har_artifact(url.resources, writable) ELSE "none"
           errors == url.errors \cup ({har} \ {"none", "written"})
       IN  UrlSet([at |-> "loaded", errors |-> errors, status |-> mark_completed(errors),
                   har |-> har = "written"])

\* The capture's warnings and its own failure are errors of the run.
AttachCapture(errors) ==
  UrlAt("loaded") /\ UrlSet([at |-> "probes", errors |-> url.errors \cup errors])

-----------------------------------------------------------------------------
(***************************************************************************)
(* execute_protocol_validation_probes.                                     *)
(***************************************************************************)
H3Probes == [i \in 1..H3Repeat |-> "h3"]
ProtocolModes ==
  CASE url.request.force = "h1" -> <<"h1">>
    [] url.request.force = "h2" -> <<"h2">>
    [] url.request.force = "h3" -> H3Probes
    [] OTHER -> <<"h1", "h2">> \o H3Probes

\* The first response that has one gives the Alt-Svc advertisement; a version is
\* validated by a probe that succeeded.
protocol_probe_from_attempt(mode, ok) == [mode |-> mode, ok |-> ok]
add_protocol_run(mode, ok, header) ==
  UrlSet([probes |-> Append(url.probes, protocol_probe_from_attempt(mode, ok)),
          validated |-> IF ok /\ ~Contains(url.validated, mode) THEN Append(url.validated, mode)
                        ELSE url.validated,
          alt_svc |-> IF url.alt_svc = Unset THEN header ELSE url.alt_svc])

ValidationProbe ==
  /\ UrlAt("probes") /\ Len(url.probes) < Len(ProtocolModes)
  /\ \E ok \in BOOLEAN, header \in {Unset, "h3"} :
       add_protocol_run(ProtocolModes[Len(url.probes) + 1], ok, header)

\* The status of the primary load, kept.
RecomputeSkipped ==
  UrlAt("probes") /\ Len(url.probes) = Len(ProtocolModes) /\ UrlSet([at |-> "outputs"])
\* Completed or Partial again, for the errors the capture and the probes added;
\* a failed run stays failed.
RecomputeStatus ==
  /\ UrlAt("probes") /\ Len(url.probes) = Len(ProtocolModes)
  /\ UrlSet([at |-> "outputs",
             status |-> IF url.status = "Failed" THEN "Failed" ELSE mark_completed(url.errors)])

UrlLoadStep ==
  \/ UrlRefused \/ plan \/ LaunchFails \/ NoBrowserFeature \/ Launch \/ NavigationFails
  \/ NavigationTimesOut \/ Navigate \/ SnapshotFails \/ Snapshot \/ HarExport
UrlProbeStep == ValidationProbe \/ RecomputeStatus

-----------------------------------------------------------------------------
\* The run that is written says what happened: Completed is a page that loaded
\* and no error of the capture, the export or the runtime; a failed load is
\* Failed whatever came after it; the versions named valid are those of the
\* probes that succeeded; and the origins account for every request
\* (run_url_test_cli's recompute, add_protocol_run, summarize_origins).
UrlRunHonest ==
  UrlAt("outputs") =>
    /\ url.status = "Failed" <=> ~url.loaded
    /\ url.status = "Completed" <=> url.loaded /\ url.errors = {}
    /\ ToSet(url.validated) = {p.mode : p \in {q \in ToSet(url.probes) : q.ok}}
    /\ url.har => url.resources # <<>>
    /\ Cardinality(UNION {{o} \X (1..url.origins[o].requests) : o \in DOMAIN url.origins})
         = Len(url.resources)

=============================================================================
