--------------------------- MODULE MCTesterOutput ----------------------------
(***************************************************************************)
(* Small instances of the tester's output: two runs of one attempt each, a *)
(* second tester that migrates the same database, and the schemas of the   *)
(* repository.                                                             *)
(***************************************************************************)
EXTENDS TesterOutput

Attempt(parts, timing, streams) == [parts |-> parts, timing |-> timing, streams |-> streams]
Measured == Attempt({"DnsResult", "TcpResult", "UdpResult"}, TRUE, TRUE)
Failed == Attempt({"ErrorRecord"}, FALSE, FALSE)
Run(id, benchmark, attempt) == [id |-> id, attempts |-> <<attempt>>, benchmark |-> benchmark]
NewJob(kind, migrate, records) == [kind |-> kind, migrate |-> migrate, records |-> records]

MCJobs ==
  [t \in Testers |->
     IF t = Cli
     THEN {NewJob("run", benchmark, <<Run("r1", benchmark, Measured), Run("r2", benchmark, Failed)>>) :
             benchmark \in BOOLEAN}
          \cup {NewJob("url", TRUE, <<[id |-> "u1", resources |-> 1, probes |-> 2]>>),
                NewJob("tls", FALSE, <<[id |-> "p1"]>>)}
     ELSE {NewJob("run", TRUE, <<Run("r3", TRUE, Failed)>>)}]

\* A fresh database, the schema the installer seeds, one the control plane
\* added to, and SQL Server before and after its later scripts.
Seed(name, tables) == [engine |-> name, schema |-> tables]
Seeded == V001 \cup V002 \cup V003 \cup V004
MCSeeds ==
  {Seed("postgres", {}), Seed("postgres", Seeded \cup {"extra_json", "TlsProfileRun"}),
   Seed("mssql", V001 \cup V002), Seed("mssql", UNION ToSet(Installs))}

To(name, packets, target) == [name |-> name, packets |-> packets, target |-> target]
Captured(frames, tcp, udp, to) ==
  [NoTrace EXCEPT !.frames = frames, !.tcp = tcp, !.udp = udp, !.to = to]
MCTraces ==
  {NoTrace,
   Captured(4, 4, 0, {To(1, 3, TRUE), To(2, 1, FALSE)}),
   Captured(4, 3, 1, {To(1, 2, TRUE), To(2, 2, FALSE)}),
   Captured(3, 0, 3, {To(1, 1, FALSE), To(2, 1, FALSE), To(3, 1, FALSE)}),
   Captured(3, 0, 3, {To(1, 3, TRUE)}),
   [Captured(3, 0, 3, {To(1, 3, TRUE)}) EXCEPT !.faults = 1],
   Captured(9, 9, 0, {To(1, 9, TRUE)})}

MCRequests == {[har |-> har, pcap |-> TRUE, force |-> force] : har \in BOOLEAN, force \in {"auto", "h3"}}
Fetched(origin, bytes, cached) == [origin |-> origin, bytes |-> bytes, cached |-> cached]
MCResources ==
  {<<>>, <<Fetched("cdn", 2, FALSE), Fetched(Unset, 1, TRUE), Fetched("cdn", 1, FALSE)>>}

Cert(parses, matches, expired, subject, issuer) ==
  [parses |-> parses, matches |-> matches, expired |-> expired, revocable |-> TRUE,
   subject |-> subject, issuer |-> issuer]
MCChains ==
  {<<>>,
   <<Cert(TRUE, TRUE, FALSE, "leaf", "ca"), Cert(TRUE, FALSE, FALSE, "ca", "root")>>,
   <<Cert(TRUE, TRUE, TRUE, "leaf", "ca")>>,
   <<Cert(TRUE, FALSE, FALSE, "leaf", "leaf")>>,
   <<Cert(FALSE, TRUE, FALSE, "leaf", "ca"), Cert(TRUE, FALSE, FALSE, "ca", "root")>>,
   <<Cert(FALSE, FALSE, FALSE, "leaf", "ca"), Cert(TRUE, TRUE, FALSE, "ca", "root")>>}
MCServers ==
  {[versions |-> {"tls1.2", "tls1.3"}, alpn |-> {"h2"}, resumes |-> TRUE],
   [versions |-> {"tls1.2"}, alpn |-> {}, resumes |-> FALSE]}

\* Benchmarks of one and of two cases, with retried, failed, unmeasured and
\* warm-up attempts, under checks that found the network quiet, noisy or dead.
Part(value, bytes) == [value |-> value, count |-> 1, payload |-> bytes, bytes |-> bytes]
Sample(mode, phase, ok, retries, parts) ==
  [mode |-> mode, phase |-> phase, ok |-> ok, retries |-> retries, stack |-> "default",
   parts |-> parts]
Tcp(v) == Sample("tcp", "measured", TRUE, 0, "tcp" :> Part(v, 0))
TcpFailed == Sample("tcp", "measured", FALSE, 0, <<>>)
Warm(v) == Sample("tcp", "warmup", TRUE, 0, "tcp" :> Part(v, 0))
Get(v, bytes) == Sample("download", "measured", TRUE, 1, "http" :> Part(v, bytes))
GetFailed(phase) == Sample("download", phase, FALSE, 1, <<>>)
Silent == Sample("responsiveness", "measured", TRUE, 0, "responsiveness" :> Part(Unknown, 0))

MCAttempts ==
  {<<Warm(9), Tcp(x), Tcp(y), Tcp(11)>> : x, y \in {10, 11, 14}}
  \cup {<<Tcp(10), Tcp(10), Tcp(x), Tcp(10), Tcp(10)>> : x \in {10, 90}}
  \cup {<<>>, <<Warm(10)>>, <<Tcp(10), TcpFailed, Tcp(10)>>, <<Tcp(10), Tcp(10), Silent>>,
        <<Silent, Silent>>, <<Tcp(10), Tcp(10), Get(10, 4)>>,
        <<Get(10, 4), Tcp(10), Get(10, 4), Tcp(10)>>, <<Get(10, 4), Get(10, 4), Get(10, 8)>>,
        <<Get(10, 4), GetFailed("measured"), Get(10, 4)>>,
        <<GetFailed("warmup"), Get(10, 4), Get(10, 4)>>}

Check(samples, loss, jitter, spread, busy, steal) ==
  [samples |-> samples, loss |-> loss, jitter |-> jitter, spread |-> spread, busy |-> busy,
   steal |-> steal]
Quiet == Check(5, 0, 2, 110, 10, 0)
Checked(stability, environment, baseline) ==
  [stability |-> stability, environment |-> environment, baseline |-> baseline]
MCChecks ==
  {Checked(NoCheck, NoCheck, NoCheck), Checked(NoCheck, NoCheck, Quiet),
   Checked(NoCheck, Check(5, 0, 2, 110, 95, Unknown), Quiet),
   Checked(NoCheck, Check(5, 2, 2, 110, Unknown, 3), NoCheck),
   Checked(Quiet, Check(5, 9, 2, 300, 10, 0), NoCheck), Checked(Check(0, 0, 0, 0, 0, 0), Quiet, Quiet),
   Checked(Check(5, 0, 30, 140, 0, 0), Quiet, NoCheck), Checked(NoCheck, Check(0, 0, 0, 0, 0, 0), Quiet)}

Bench(attempts, c) ==
  [phase |-> "measured", attempts |-> attempts, stability |-> c.stability,
   environment |-> c.environment, baseline |-> c.baseline]
MCBenchmarks ==
  {Bench(attempts, Checked(NoCheck, NoCheck, Quiet)) : attempts \in MCAttempts}
  \cup {Bench(<<Tcp(10), Tcp(10)>>, c) : c \in MCChecks}
MCThresholds == [loss |-> 5, jitter |-> 25, spread |-> 200, busy |-> 90, steal |-> 5]
=============================================================================
