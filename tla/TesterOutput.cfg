SPECIFICATION Spec
CONSTANTS
  Testers = {"cli", "peer"}
  Cli = "cli"
  Jobs <- MCJobs
  Seeds <- MCSeeds
  MaxFaults = 1
  JsonStdout = {TRUE, FALSE}
  Traces <- MCTraces
  PipeLines = 6
  WritePcap = TRUE
  WriteSummary = {TRUE, FALSE}
  UrlRequests <- MCRequests
  H3Repeat = 2
  Resources <- MCResources
  Chains <- MCChains
  Servers <- MCServers
  Benchmarks <- MCBenchmarks
  Adequate = 2
  Marginal = 1
  Thresholds <- MCThresholds
INVARIANTS
  ResultsWhole
  MigrationsSerial
  DiagnosticsHonest
  ArtifactHonest
PROPERTY TestersLeave
