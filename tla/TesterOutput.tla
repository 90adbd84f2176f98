----------------------------- MODULE TesterOutput ----------------------------
(***************************************************************************)
(* A tester process from its start to its exit: the packet capture around  *)
(* its work (the probes of a run, a URL diagnostic, a TLS profile), the    *)
(* artifacts on disk, and the database it shares with other testers.       *)
(***************************************************************************)
EXTENDS ResultStore, Capture, UrlDiagnostic, TlsProfile, BenchmarkArtifact

CONSTANTS
  Cli,         \* the tester followed from its start
  JsonStdout,  \* values of --json-stdout
  Benchmarks   \* the benchmarked runs considered

ASSUME CliAssumption == Cli \in Testers

\* Attempts come in a list, and what is measured is a natural number, or nothing.
ASSUME BenchmarksAssumption ==
  \A b \in Benchmarks :
    /\ b.attempts \in Seq(Range(b.attempts))
    /\ \A i \in DOMAIN b.attempts : \A p \in DOMAIN b.attempts[i].parts :
         /\ b.attempts[i].parts[p].value \in Nat \cup {Unknown}
         /\ b.attempts[i].parts[p].bytes \in Nat

VARIABLES
  stage,    \* where Cli is, until it turns to the database
  runs,     \* runs it has measured
  files,    \* artifacts written
  printed,  \* what went to stdout: "nothing", "runs" or "error"
  artifact  \* the benchmark artifact printed, or NoArtifact

mainvars == <<stage, runs, files, printed, artifact>>
vars == <<mainvars, storevars, capturevars, url, tls>>

Targets == Len(Job(Cli).records)
Kind == Job(Cli).kind

\* A process has one mode; what belongs to another stays as it is.
AnyOf(S) == CHOOSE x \in S : TRUE
\* From the artifacts on only the records matter: the rest is let go.
LetGo ==
  /\ url' = AnyOf(UrlStart) /\ tls' = AnyOf(TlsStart)
  /\ capture' = [AnyOf(CaptureStart) EXCEPT !.at = "off"]
  /\ tshark' = IF tshark = "running" THEN tshark ELSE "none"
  /\ pcap' = AnyOf(PcapStart) /\ summary' = NoSummary

Init ==
  /\ StoreInit(AnyOf(Seeds))
  /\ stage = "capture" /\ runs = 0 /\ files = {} /\ printed = "nothing"
  /\ artifact = NoArtifact
  /\ tshark = "none" /\ summary = NoSummary
  /\ capture \in (IF Kind = "tls" THEN {AnyOf(CaptureStart)} ELSE CaptureStart)
  /\ pcap \in (IF Kind = "tls" THEN {AnyOf(PcapStart)} ELSE PcapStart)
  /\ url \in (IF Kind = "url" THEN UrlStart ELSE {AnyOf(UrlStart)})
  /\ tls \in (IF Kind = "tls" THEN TlsStart ELSE {AnyOf(TlsStart)})

-----------------------------------------------------------------------------
ExitCli(code) ==
  /\ stage' = "over"
  /\ session' = [session EXCEPT ![Cli].at = "exit", ![Cli].exit = code]
  /\ UNCHANGED <<engine, schema, recorded, advisory, stored, faults>>

\* The TLS profile captures nothing.
BeginWork ==
  /\ stage = "capture" /\ (Kind = "tls" \/ capture.at \in {"capturing", "off"})
  /\ stage' = "work"
  /\ UNCHANGED <<runs, files, printed, artifact, storevars, capturevars, url, tls>>

\* run_for_target, one target after another.
MeasureTarget ==
  /\ stage = "work" /\ Kind = "run" /\ runs < Targets
  /\ runs' = runs + 1
  /\ UNCHANGED <<stage, files, printed, artifact, storevars, capturevars, url, tls>>

\* An error that is propagated out of main: the capture session is dropped, and
\* with it every run measured so far.
Abandon ==
  /\ IF capture.at = "capturing" THEN SessionDropped ELSE UNCHANGED capturevars
  /\ ExitCli("error") /\ UNCHANGED <<runs, files, printed, artifact, url, tls>>
WorkFails ==
  /\ stage = "work"
  /\ \/ Kind = "run" /\ runs < Targets
     \/ Kind = "url" /\ url.at = "error"
     \/ Kind = "tls" /\ tls.at = "error"
  /\ Abandon

WorkDone ==
  /\ stage = "work"
  /\ \/ Kind = "run" /\ runs = Targets
     \/ Kind = "url" /\ url.at = "loaded"
     \/ Kind = "tls" /\ tls.at = "outputs"
  /\ stage' = "finalize"
  /\ capture' = IF capture.at = "capturing" THEN [capture EXCEPT !.at = "finalize"] ELSE capture
  /\ UNCHANGED <<runs, files, printed, artifact, storevars, tshark, pcap, summary, url, tls>>

\* The summary is attached to the runs; a URL run also takes its errors.
CaptureErrors ==
  {e \in {"pcap status", "pcap warnings", "pcap finalize"} :
     \/ e = "pcap status" /\ summary # NoSummary /\ summary.status # "captured"
     \/ e = "pcap warnings" /\ summary # NoSummary /\ summary.warned
     \/ e = "pcap finalize" /\ summary = NoSummary /\ tshark = "exited"}
Finalized ==
  /\ stage = "finalize" /\ (Kind = "tls" \/ capture.at = "off")
  /\ IF Kind = "url"
     THEN stage' = "probes" /\ AttachCapture(CaptureErrors) /\ UNCHANGED <<capturevars, tls>>
     ELSE stage' = "artifacts" /\ LetGo
  /\ UNCHANGED <<runs, files, printed, artifact, storevars>>

Validated ==
  /\ stage = "probes" /\ url.at = "outputs" /\ stage' = "artifacts" /\ LetGo
  /\ UNCHANGED <<runs, files, printed, artifact, storevars>>

\* --json-stdout: the runs go to stdout and nowhere else, of a benchmark their
\* artifacts (to_benchmark_string_many), one of which is looked at.  What cannot
\* be serialised is logged, and an error object printed in its place.
PrintJson ==
  /\ stage = "artifacts" /\ Kind = "run" /\ files = {} /\ TRUE \in JsonStdout
  /\ printed' \in {"runs", "error"} /\ ExitCli("ok")
  /\ IF printed' = "runs" /\ Job(Cli).records[1].benchmark
     THEN \E b \in Benchmarks :
            LET ids == {benchmark_case_id(b.attempts[i]) : i \in DOMAIN b.attempts}
            IN  \E wide, modal \in SUBSET ids :
                  artifact' = to_benchmark_artifact(b, wide, modal)
     ELSE UNCHANGED artifact
  /\ UNCHANGED <<runs, files, capturevars, url, tls>>

Wanted == [i \in 1..Targets |-> <<"json", i>>]
NextJson == Cardinality(files) + 1

\* A failed artifact that is only logged.
SaveJsonLogged ==
  /\ stage = "artifacts" /\ NextJson <= Targets
  /\ \E ok \in BOOLEAN :
       IF ok THEN files' = files \cup {Wanted[NextJson]} /\ UNCHANGED <<stage, storevars>>
       ELSE stage' = "report" /\ UNCHANGED <<files, storevars>>
  /\ UNCHANGED <<runs, printed, artifact, capturevars, url, tls>>
\* One JSON artifact per run, the HAR copied beside it; an error ends the process.
SaveJson ==
  /\ stage = "artifacts" /\ NextJson <= Targets
  /\ \E ok \in BOOLEAN :
       IF ok THEN files' = files \cup {Wanted[NextJson]} /\ UNCHANGED <<stage, storevars>>
       ELSE ExitCli("error") /\ UNCHANGED files
  /\ UNCHANGED <<runs, printed, artifact, capturevars, url, tls>>

ArtifactsSaved ==
  /\ stage = "artifacts" /\ NextJson > Targets /\ stage' = "report"
  /\ UNCHANGED <<runs, files, printed, artifact, storevars, capturevars, url, tls>>

\* The HTML report must be written (a failed Excel report is a warning), and the
\* one-shot modes insist on a database URL.  Then the database, which is met as
\* somebody left it.
WriteReports ==
  /\ stage = "report"
  /\ \/ ExitCli("error")
     \/ /\ stage' = "database"
        /\ \E seed \in Seeds : engine' = seed.engine /\ schema' = seed.schema
        /\ UNCHANGED <<recorded, advisory, stored, session, faults>>
  /\ UNCHANGED <<runs, files, printed, artifact, capturevars, url, tls>>

\* No --save-to-db.
NoDatabase ==
  /\ stage = "report" /\ ExitCli("ok")
  /\ UNCHANGED <<runs, files, printed, artifact, capturevars, url, tls>>

CliStep ==
  \/ BeginWork \/ MeasureTarget \/ WorkFails \/ WorkDone \/ Finalized \/ Validated
  \/ PrintJson \/ SaveJson \/ ArtifactsSaved \/ WriteReports \/ NoDatabase
Ours == <<mainvars, storevars>>

CaptureStep ==
  /\ \/ stage = "capture" /\ Kind # "tls" /\ StartCapture
     \/ stage = "finalize" /\ FinishCapture
  /\ UNCHANGED <<Ours, url, tls>>
UrlStep ==
  /\ \/ stage = "work" /\ Kind = "url" /\ UrlLoadStep
     \/ stage = "probes" /\ UrlProbeStep
  /\ UNCHANGED <<Ours, capturevars, tls>>
ProfileStep == stage = "work" /\ Kind = "tls" /\ TlsStep /\ UNCHANGED <<Ours, capturevars, url>>
Tshark == TsharkStep /\ UNCHANGED <<Ours, url, tls>>

\* The testers share nothing before Cli turns to the database, so the others
\* are followed only from there.
Sharing == stage = "database"
Database(t) == Sharing /\ StoreStep(t) /\ UNCHANGED <<mainvars, capturevars, url, tls>>
DatabaseFault(t) == Sharing /\ StoreFault(t) /\ UNCHANGED <<mainvars, capturevars, url, tls>>
Over ==
  /\ stage = "over" \/ (Sharing /\ \A t \in Testers : session[t].at = "exit")
  /\ UNCHANGED vars

Next ==
  \/ CliStep \/ CaptureStep \/ UrlStep \/ ProfileStep \/ Tshark \/ Over
  \/ \E t \in Testers : Database(t) \/ DatabaseFault(t)

\* A probe of a run, or one that validates a URL: either may read a body, which
\* has no deadline.
Measuring ==
  \/ stage = "work" /\ Kind = "run" /\ runs < Targets
  \/ stage = "probes" /\ Len(url.probes) < Len(ProtocolModes)

\* The tester's other steps: the browser, the TLS profile and the children it
\* starts have deadlines, and a database statement is answered or its connection
\* reset.
Fairness ==
  /\ WF_vars(~Measuring /\ CliStep) /\ WF_vars(CaptureStep) /\ WF_vars(~Measuring /\ UrlStep)
  /\ WF_vars(ProfileStep) /\ \A t \in Testers : WF_vars(Database(t))

Spec == Init /\ [][Next]_vars /\ Fairness

-----------------------------------------------------------------------------
\* A tester that exits 0 delivered every run it measured, as JSON artifacts written
\* before the database was touched or on stdout, or owned up there that it could
\* not (the code is 0 all the same); and nothing is in the database that is not on
\* disk (main, run_url_test_cli, run_tls_profile_cli).
ResultsDelivered ==
  /\ session[Cli].exit = "ok" => printed # "nothing" \/ ToSet(Wanted) \subseteq files
  /\ \A i \in 1..Targets : Stored(Job(Cli).records[i]) # {} => Wanted[i] \in files

\* What was stored and delivered is whole: saves are atomic, a result's optional
\* columns fail on their own, and with exit code 0 the runs are out or an error is.
ResultsWhole == SavesAtomic /\ ColumnsIndependent /\ ResultsDelivered

\* What the diagnostics of a tester report is what they saw, and tshark does not
\* outlive the tester that started it.
DiagnosticsHonest == TsharkReaped /\ ConfidenceEarned /\ UrlRunHonest /\ ProfileHonest

\* A printed benchmark artifact adds up, and is called publication ready only if
\* the attempts themselves are (to_benchmark_artifact, benchmark_data_quality).
ArtifactHonest == artifact # NoArtifact => Reconciles(artifact) /\ Earned(artifact)

\* The tester ends, whatever becomes of tshark, the browser or the database, unless
\* a probe never does; and so does every tester that has opened a connection, also
\* when another dies with the migration lock in its hand (migrate).
TestersLeave ==
  /\ <>(session[Cli].at = "exit") \/ <>[]Measuring
  /\ \A t \in Testers : session[t].connected ~> session[t].at = "exit"

=============================================================================
