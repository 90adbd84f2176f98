----------------------------- MODULE ResultStore -----------------------------
(***************************************************************************)
(* The tester's database output: migrations and the transactional save of  *)
(* runs, URL diagnostics and TLS profiles, by several tester processes     *)
(* into one database whose schema may be any the repository ships.         *)
(***************************************************************************)
EXTENDS Naturals, Sequences, SequencesExt, FiniteSets, TLC

CONSTANTS
  Testers,   \* tester processes with --save-to-db on one database
  Jobs,      \* per tester, the jobs it may run
  Seeds,     \* [engine, schema]: the databases it may meet
  MaxFaults  \* bound: statements that fail and connections that are lost

VARIABLES
  engine,    \* "postgres" or "mssql"
  schema,    \* names of the tables and optional columns that exist
  recorded,  \* _schema_versions
  advisory,  \* holder of pg_advisory_lock, or Nobody
  stored,    \* committed rows
  session,   \* per tester, its connection, transaction and place in the code
  faults     \* statements failed and connections lost so far

storevars == <<engine, schema, recorded, advisory, stored, session, faults>>

Nobody == "nobody"
ASSUME StoreAssumption == Nobody \notin Testers
Versions == 1..8

-----------------------------------------------------------------------------
(***************************************************************************)
(* What the migrations install.                                            *)
(***************************************************************************)
AttemptTables == {"DnsResult", "TcpResult", "TlsResult", "HttpResult", "UdpResult", "ErrorRecord",
                  "ServerTimingResult"}
V001 == {"TestRun", "RequestAttempt"} \cup AttemptTables
V002 == {"UrlTestRun", "UrlTestResource", "UrlTestProtocolRun"}
V003 == {"BenchmarkRun", "BenchmarkEnvironment", "BenchmarkDataQuality", "BenchmarkCase",
         "BenchmarkSample", "BenchmarkSummary"}
V004 == {"BenchmarkLaunch"}
V005 == {"MthroughputResult", "SrvCpuMs"}
V006 == {"TargetUrl"}
V007 == {"SampleIndex"}
V008 == {}
Installs == <<V001, V002, V003, V004, V005, V006, V007, V008>>

\* Tables whose existing rows a migration locks: the ALTERs and the index of V008.
Alters == [v \in Versions |-> CASE v = 5 -> {"ServerTimingResult", "RequestAttempt"}
                                [] v \in {6, 7, 8} -> {"RequestAttempt"}
                                [] OTHER -> {}]

-----------------------------------------------------------------------------
(***************************************************************************)
(* What a save inserts, in order.  A statement names its table, the        *)
(* optional columns it fills, and those it can do without; "gated"         *)
(* statements are skipped when their table is missing.                     *)
(***************************************************************************)
Statement(table, key, columns, droppable, gated) ==
  [table |-> table, key |-> key, columns |-> columns, droppable |-> droppable, gated |-> gated]
Plain(table, key) == Statement(table, key, {}, {}, FALSE)

\* benchmark_schema_installed: all seven tables.
BenchmarkTables == V003 \cup V004
benchmark_schema_installed == BenchmarkTables \subseteq schema
mssql_benchmark_schema_installed == BenchmarkTables \subseteq schema

Only(statements, tables) == SelectSeq(statements, LAMBDA s : s.table \in tables)
When(condition, statement) == IF condition THEN <<statement>> ELSE <<>>

\* PostgreSQL.  insert_test_run: packet_capture_json first, then without it.
insert_test_run(run) ==
  Statement("TestRun", run.id, {"packet_capture_json"}, {"packet_capture_json"}, FALSE)

\* The ladder drops the one column the server names, and tries again.
insert_request_attempt(key) ==
  LET optional == {"TargetUrl", "SampleIndex", "extra_json"}
  IN  Statement("RequestAttempt", key, optional, optional, FALSE)

insert_dns_result(key) == Plain("DnsResult", key)
insert_tcp_result(key) == Plain("TcpResult", key)
insert_tls_result(key) == Plain("TlsResult", key)
insert_http_result(key) == Plain("HttpResult", key)
insert_udp_result(key) == Plain("UdpResult", key)
insert_error(key) == Plain("ErrorRecord", key)
insert_server_timing_result(key) == Statement("ServerTimingResult", key, {"SrvCpuMs"}, {}, FALSE)
insert_mthroughput_result(key) == Plain("MthroughputResult", key)

insert_attempt(attempt, key) ==
  <<insert_request_attempt(key)>>
  \o Only(<<insert_dns_result(key), insert_tcp_result(key), insert_tls_result(key),
            insert_http_result(key), insert_udp_result(key), insert_error(key)>>, attempt.parts)
  \o When(attempt.timing, insert_server_timing_result(key))
  \o When(attempt.streams, insert_mthroughput_result(key))

\* insert_benchmark_artifact: the run's own rows, then its launches, cases,
\* samples and summaries.
insert_benchmark_run(run) ==
  <<Plain("BenchmarkRun", run.id), Plain("BenchmarkEnvironment", run.id),
    Plain("BenchmarkDataQuality", run.id), Plain("BenchmarkLaunch", run.id)>>
insert_benchmark_cases(run) ==
  <<Plain("BenchmarkCase", run.id), Plain("BenchmarkSample", run.id),
    Plain("BenchmarkSummary", run.id)>>
insert_benchmark_artifact(run) == insert_benchmark_run(run) \o insert_benchmark_cases(run)

AttemptStatements(run, Inserts(_, _)) ==
  FlattenSeq([i \in DOMAIN run.attempts |-> Inserts(run.attempts[i], <<run.id, i>>)])
save(run, ready) ==
  <<insert_test_run(run)>> \o AttemptStatements(run, insert_attempt)
  \o (IF ready /\ run.benchmark THEN insert_benchmark_artifact(run) ELSE <<>>)

insert_url_test_run(run) == Plain("UrlTestRun", run.id)
insert_url_test_resources(run) == [i \in 1..run.resources |-> Plain("UrlTestResource", <<run.id, i>>)]
insert_url_test_protocol_runs(run) ==
  [i \in 1..run.probes |-> Plain("UrlTestProtocolRun", <<run.id, i>>)]
save_url_test(run) ==
  <<insert_url_test_run(run)>> \o insert_url_test_resources(run) \o insert_url_test_protocol_runs(run)

\* No migration of the tester creates TlsProfileRun: the control plane's does.
save_tls_profile(run) == <<Plain("TlsProfileRun", run.id)>>

\* SQL Server.  No column is tried that may be missing; it asks for the column
\* and for the table before it inserts.
mssql_test_run(run) == Plain("TestRun", run.id)
mssql_request_attempt(key) == Plain("RequestAttempt", key)
mssql_connection_results(key) == <<Plain("DnsResult", key), Plain("TcpResult", key)>>
mssql_exchange_results(key) ==
  <<Plain("TlsResult", key), Plain("HttpResult", key), Plain("UdpResult", key)>>
mssql_error(key) == Plain("ErrorRecord", key)
mssql_server_timing_result(key) ==
  Statement("ServerTimingResult", key, {"SrvCpuMs"}, {"SrvCpuMs"}, FALSE)
mssql_mthroughput_result(key) == Statement("MthroughputResult", key, {}, {}, TRUE)

mssql_attempt(attempt, key) ==
  <<mssql_request_attempt(key)>>
  \o Only(mssql_connection_results(key) \o mssql_exchange_results(key) \o <<mssql_error(key)>>,
          attempt.parts)
  \o When(attempt.timing, mssql_server_timing_result(key))
  \o When(attempt.streams, mssql_mthroughput_result(key))

mssql_benchmark_run(run) == insert_benchmark_run(run)
mssql_benchmark_cases(run) == insert_benchmark_cases(run)
mssql_save(run, ready) ==
  <<mssql_test_run(run)>> \o AttemptStatements(run, mssql_attempt)
  \o (IF ready /\ run.benchmark THEN mssql_benchmark_run(run) \o mssql_benchmark_cases(run) ELSE <<>>)

mssql_url_test_run(run) == Plain("UrlTestRun", run.id)
mssql_url_test_children(run) == insert_url_test_resources(run) \o insert_url_test_protocol_runs(run)
mssql_save_url_test(run) == <<mssql_url_test_run(run)>> \o mssql_url_test_children(run)

\* What the backend inserts for a record.
Inserts(db, kind, record, ready) ==
  CASE kind = "run" /\ db = "postgres" -> save(record, ready)
    [] kind = "run" /\ db = "mssql" -> mssql_save(record, ready)
    [] kind = "url" /\ db = "postgres" -> save_url_test(record)
    [] kind = "url" /\ db = "mssql" -> mssql_save_url_test(record)
    [] kind = "tls" -> save_tls_profile(record)

\* The record a row or a statement belongs to.
IdOf(r) == IF r.table \in {"RequestAttempt", "UrlTestResource", "UrlTestProtocolRun",
                           "MthroughputResult"} \cup AttemptTables
           THEN r.key[1] ELSE r.key

Engines == {"postgres", "mssql"}
ASSUME SeedsAssumption == Seeds # {} /\ \A seed \in Seeds : seed.engine \in Engines

\* A tester has records to save; their ids are UUIDs, no two alike.
ASSUME RecordsAssumption ==
  \A t, o \in Testers : \A job \in Jobs[t], other \in Jobs[o] :
    /\ job.records \in Seq(ToSet(job.records)) /\ job.records # <<>>
    /\ \A i \in DOMAIN job.records, k \in DOMAIN other.records :
         job.records[i].id = other.records[k].id => t = o /\ i = k

\* What a record inserts carries its id, and an attempt's row has the columns
\* its insert names.
ASSUME StatementsAssumption ==
  \A t \in Testers : \A job \in Jobs[t] : \A record \in ToSet(job.records) :
    \A db \in Engines, ready \in BOOLEAN :
      LET must == Inserts(db, job.kind, record, ready)
      IN  /\ must \in Seq(ToSet(must))
          /\ \A s \in ToSet(must) :
               /\ IdOf(s) = record.id
               /\ s.table = "RequestAttempt" /\ db = "postgres" => s = insert_request_attempt(s.key)

-----------------------------------------------------------------------------
(***************************************************************************)
(* The session of a tester.                                                *)
(***************************************************************************)
StoreInit(seed) ==
  /\ engine = seed.engine /\ schema = seed.schema
  /\ recorded = {} /\ advisory = Nobody /\ stored = {} /\ faults = 0
  /\ session \in {s \in [Testers -> UNION {[at : {"connect"}, job : Jobs[t], connected : {FALSE},
                                 tx : {{}}, todo : {<<>>}, version : {1}, ready : {FALSE},
                                 migration : {"none"}, outcomes : {<<>>}, hurt : {FALSE},
                                 exit : {"none"}] : t \in Testers}]
                    : \A t \in Testers : s[t].job \in Jobs[t]}

At(t, place) == session[t].at = place
Set(t, new) == session' = [session EXCEPT ![t] = new]
Go(t, place) == Set(t, [session[t] EXCEPT !.at = place])

Job(t) == session[t].job
\* main logs a failed save and exits 0; the one-shot modes propagate it.
Insistent(t) == Job(t).kind # "run"

\* The tester leaves; its session ends and with it the lock and the transaction.
Quit(t, code) ==
  /\ Set(t, [session[t] EXCEPT !.at = "exit", !.connected = FALSE, !.tx = {}, !.exit = code])
  /\ advisory' = IF advisory = t THEN Nobody ELSE advisory

Connect(t) ==
  /\ At(t, "connect")
  /\ Set(t, [session[t] EXCEPT
               !.at = IF Job(t).migrate /\ engine = "postgres" THEN "lock" ELSE "ready",
               !.connected = TRUE,
               !.migration = IF Job(t).migrate /\ engine = "mssql" THEN "ok" ELSE "none"])
  /\ UNCHANGED <<engine, schema, recorded, advisory, stored, faults>>

ConnectFails(t) ==
  /\ At(t, "connect") /\ faults < MaxFaults
  /\ Quit(t, IF Insistent(t) THEN "error" ELSE "ok") /\ faults' = faults + 1
  /\ UNCHANGED <<engine, schema, recorded, stored>>

\* A migration that does not wait for the lock.
AdvisoryLockIgnored(t) ==
  /\ At(t, "lock")
  /\ advisory' = t /\ Go(t, "check")
  /\ UNCHANGED <<engine, schema, recorded, stored, faults>>
\* pg_advisory_lock waits; _schema_versions is created under it.
AdvisoryLock(t) ==
  /\ At(t, "lock") /\ advisory = Nobody
  /\ advisory' = t /\ Go(t, "check")
  /\ UNCHANGED <<engine, schema, recorded, stored, faults>>

Migrated(t, result) == Set(t, [session[t] EXCEPT !.at = "unlock", !.migration = result])

CheckVersion(t) ==
  /\ At(t, "check")
  /\ IF session[t].version \notin Versions THEN Migrated(t, "ok")
     ELSE IF session[t].version \in recorded
          THEN Set(t, [session[t] EXCEPT !.version = @ + 1])
          ELSE Go(t, "apply")
  /\ UNCHANGED <<engine, schema, recorded, advisory, stored, faults>>

\* batch_execute of one version: one implicit transaction, every statement IF NOT EXISTS.
ApplyVersion(t) ==
  /\ At(t, "apply")
  /\ \A o \in Testers : {r.table : r \in session[o].tx} \cap Alters[session[t].version] = {}
  /\ schema' = schema \cup Installs[session[t].version]
  /\ Go(t, "record")
  /\ UNCHANGED <<engine, recorded, advisory, stored, faults>>

\* The primary key of _schema_versions refuses a version recorded meanwhile.
RecordVersion(t) ==
  /\ At(t, "record")
  /\ recorded' = recorded \cup {session[t].version}
  /\ IF session[t].version \in recorded THEN Migrated(t, "failed")
     ELSE Set(t, [session[t] EXCEPT !.at = "check", !.version = @ + 1])
  /\ UNCHANGED <<engine, schema, advisory, stored, faults>>

\* Unlocking is tried whatever the migration did; main saves even after a failed one.
AdvisoryUnlock(t) ==
  /\ At(t, "unlock")
  /\ IF session[t].migration = "failed" /\ Insistent(t) THEN Quit(t, "error")
     ELSE Go(t, "ready") /\ advisory' = IF advisory = t THEN Nobody ELSE advisory
  /\ UNCHANGED <<engine, schema, recorded, stored, faults>>

-----------------------------------------------------------------------------
(***************************************************************************)
(* Saving, one record after another.                                       *)
(***************************************************************************)
Current(t) == Len(session[t].outcomes) + 1
Saved(t, outcome) ==
  LET outcomes == Append(session[t].outcomes, outcome)
      abort == outcome # "ok" /\ Insistent(t)
      leave == abort \/ Len(outcomes) = Len(Job(t).records)
  IN  /\ Set(t, [session[t] EXCEPT
                   !.at = IF leave THEN "exit" ELSE "ready", !.tx = {}, !.outcomes = outcomes,
                   !.connected = ~leave,
                   !.exit = IF abort THEN "error" ELSE IF leave THEN "ok" ELSE "none"])
      /\ advisory' = IF leave /\ advisory = t THEN Nobody ELSE advisory

Statements(t, ready) == Inserts(engine, Job(t).kind, Job(t).records[Current(t)], ready)
Ready == IF engine = "postgres" THEN benchmark_schema_installed ELSE mssql_benchmark_schema_installed

\* SQL Server has no TLS profile persistence.
mssql_save_tls_profile(t) == Job(t).kind = "tls" /\ engine = "mssql"

\* benchmark_schema_installed and BEGIN; the TLS profile is a single statement
\* of its own.
BeginSave(t) ==
  /\ At(t, "ready") /\ session[t].connected
  /\ IF mssql_save_tls_profile(t) THEN Saved(t, "failed")
     ELSE /\ Set(t, [session[t] EXCEPT !.at = "insert", !.ready = Ready,
                                       !.todo = Statements(t, Ready)])
          /\ UNCHANGED advisory
  /\ UNCHANGED <<engine, schema, recorded, stored, faults>>

Missing(s) == s.columns \ schema
Row(t, s) == [table |-> s.table, key |-> s.key, columns |-> s.columns \cap schema, by |-> t]

\* A ladder that gives up all its columns at the first one missing.
InsertAllOrNone(t) ==
  LET s == Head(session[t].todo)
      kept == IF Missing(s) = {} THEN s.columns ELSE {}
  IN
  /\ At(t, "insert") /\ session[t].connected /\ session[t].todo # <<>>
  /\ s.table \in schema /\ Missing(s) \subseteq s.droppable
  /\ Set(t, [session[t] EXCEPT !.todo = Tail(@),
                              !.tx = @ \cup {[Row(t, s) EXCEPT !.columns = kept]}])
  /\ UNCHANGED <<engine, schema, recorded, advisory, stored, faults>>

\* A ladder that retries without dropping anything.
InsertRetried(t) ==
  LET s == Head(session[t].todo) IN
  /\ At(t, "insert") /\ session[t].connected /\ session[t].todo # <<>>
  /\ s.table \in schema /\ Missing(s) \subseteq s.droppable
  /\ IF Missing(s) # {} THEN UNCHANGED session
     ELSE Set(t, [session[t] EXCEPT !.todo = Tail(@), !.tx = @ \cup {Row(t, s)}])
  /\ UNCHANGED <<engine, schema, recorded, advisory, stored, faults>>

\* The savepoint ladder drops the columns the server names, one per retry.
Insert(t) ==
  LET s == Head(session[t].todo) IN
  /\ At(t, "insert") /\ session[t].connected /\ session[t].todo # <<>>
  /\ s.table \in schema /\ Missing(s) \subseteq s.droppable
  /\ Set(t, [session[t] EXCEPT !.todo = Tail(@), !.tx = @ \cup {Row(t, s)}])
  /\ UNCHANGED <<engine, schema, recorded, advisory, stored, faults>>

SkipGated(t) ==
  /\ At(t, "insert") /\ session[t].connected /\ session[t].todo # <<>>
  /\ Head(session[t].todo).gated /\ Head(session[t].todo).table \notin schema
  /\ Set(t, [session[t] EXCEPT !.todo = Tail(@)])
  /\ UNCHANGED <<engine, schema, recorded, advisory, stored, faults>>

\* Statements outside a transaction stay whatever fails after them.
RollbackForgotten(t) == Saved(t, "failed") /\ stored' = stored \cup session[t].tx
\* ROLLBACK, its own result ignored.
Rollback(t) == Saved(t, "failed") /\ UNCHANGED stored

\* A table or column the database has not got, and the code cannot do without.
SchemaRefuses(t) ==
  LET s == Head(session[t].todo) IN
  /\ At(t, "insert") /\ session[t].connected /\ session[t].todo # <<>>
  /\ \/ s.table \notin schema /\ ~s.gated
     \/ s.table \in schema /\ ~(Missing(s) \subseteq s.droppable)
  /\ Rollback(t)
  /\ UNCHANGED <<engine, schema, recorded, faults>>

Commit(t) ==
  /\ At(t, "insert") /\ session[t].connected /\ session[t].todo = <<>>
  /\ stored' = stored \cup session[t].tx
  /\ Saved(t, "ok")
  /\ UNCHANGED <<engine, schema, recorded, faults>>

-----------------------------------------------------------------------------
(***************************************************************************)
(* Faults.                                                                 *)
(***************************************************************************)
\* A value too long, a deadlock victim, a full disk: the statement fails, the
\* connection stays.  A COMMIT that fails has rolled back; an unlock that fails
\* fails the migration, and the lock is held as long as the session.
StatementFails(t) ==
  /\ faults < MaxFaults /\ faults' = faults + 1 /\ session[t].connected
  /\ \/ /\ session[t].at \in {"check", "apply", "record"}
        /\ Set(t, [session[t] EXCEPT !.at = "unlock", !.migration = "failed", !.hurt = TRUE])
        /\ UNCHANGED <<advisory, stored>>
     \/ /\ At(t, "unlock")
        /\ Set(t, [session[t] EXCEPT
                     !.at = IF Insistent(t) THEN "exit" ELSE "ready", !.connected = ~Insistent(t),
                     !.migration = "failed", !.hurt = TRUE,
                     !.exit = IF Insistent(t) THEN "error" ELSE "none"])
        /\ advisory' = IF Insistent(t) /\ advisory = t THEN Nobody ELSE advisory
        /\ UNCHANGED stored
     \/ (At(t, "ready") \/ At(t, "insert")) /\ Rollback(t)
  /\ UNCHANGED <<engine, schema, recorded>>

\* The server ends the session: lock and transaction go.  What was being done
\* fails and every later statement with it; only at COMMIT is it unknown which.
ConnectionLost(t) ==
  /\ faults < MaxFaults /\ faults' = faults + 1 /\ session[t].connected
  /\ session[t].at # "exit"
  /\ advisory' = IF advisory = t THEN Nobody ELSE advisory
  /\ \/ stored' = stored
     \/ At(t, "insert") /\ session[t].todo = <<>> /\ stored' = stored \cup session[t].tx
  /\ LET committing == At(t, "insert") /\ session[t].todo = <<>>
         failed == [i \in 1..(Len(Job(t).records) - Len(session[t].outcomes)) |->
                      IF i = 1 /\ committing THEN "unknown" ELSE "failed"]
     IN  Set(t, [session[t] EXCEPT !.at = "exit", !.connected = FALSE, !.tx = {}, !.hurt = TRUE,
                           !.outcomes = @ \o failed,
                           !.exit = IF Insistent(t) THEN "error" ELSE "ok",
                           !.migration =
                             IF session[t].at \in {"lock", "check", "apply", "record", "unlock"}
                             THEN "failed" ELSE @])
  /\ UNCHANGED <<engine, schema, recorded>>

\* The process is killed.
TesterKilled(t) ==
  /\ faults < MaxFaults /\ faults' = faults + 1 /\ session[t].at \notin {"connect", "exit"}
  /\ Quit(t, "killed") /\ UNCHANGED <<engine, schema, recorded, stored>>

StoreStep(t) ==
  \/ Connect(t) \/ ConnectFails(t) \/ AdvisoryLock(t) \/ CheckVersion(t) \/ ApplyVersion(t)
  \/ RecordVersion(t) \/ AdvisoryUnlock(t) \/ BeginSave(t) \/ Insert(t) \/ SkipGated(t)
  \/ SchemaRefuses(t) \/ Commit(t)
StoreFault(t) == StatementFails(t) \/ ConnectionLost(t) \/ TesterKilled(t)

-----------------------------------------------------------------------------
(***************************************************************************)
(* Properties.                                                             *)
(***************************************************************************)
Stored(record) == {<<r.table, r.key>> : r \in {row \in stored : IdOf(row) = record.id}}
Rows(statements) == {<<s.table, s.key>> : s \in ToSet(statements)}
\* The rows of a record saved whole: all but those of a gated table, the
\* benchmark artifact whole or left out.
IsWhole(t, record) ==
  \E ready \in BOOLEAN :
    LET must == Inserts(engine, Job(t).kind, record, ready)
    IN  /\ Stored(record) \subseteq Rows(must)
        /\ \A s \in ToSet(must) : s.gated \/ <<s.table, s.key>> \in Stored(record)

\* A record is in the database with all its rows or with none, whichever
\* statement failed and whoever was killed; a save that reported success stored
\* it, and one that reported failure stored nothing unless COMMIT's answer was
\* lost (postgres.rs save, save_url_test; mssql.rs save, save_url_test).
SavesAtomic ==
  \A t \in Testers : \A i \in DOMAIN Job(t).records :
    LET record == Job(t).records[i]
        outcome == IF i \in DOMAIN session[t].outcomes THEN session[t].outcomes[i] ELSE "none"
    IN  /\ Stored(record) = {} \/ IsWhole(t, record)
        /\ outcome = "ok" => IsWhole(t, record)
        /\ outcome = "failed" => Stored(record) = {}

\* Testers may migrate one database at once and be killed half way: a recorded
\* version is installed, a migration fails only through a fault of its own
\* session, and one that succeeded leaves every version installed (migrate).
MigrationsSerial ==
  /\ \A v \in recorded : Installs[v] \subseteq schema
  /\ \A t \in Testers : session[t].migration = "failed" => session[t].hurt
  /\ engine = "postgres" =>
       \A t \in Testers : session[t].migration = "ok" => recorded = Versions

\* A stored attempt keeps its JSON wherever the database has a column for it, and
\* after the tester's own migration the columns that migration installs, whatever
\* others are missing: "each optional column degrades INDEPENDENTLY"
\* (insert_request_attempt; no migration of the tester installs extra_json).
ColumnsIndependent ==
  \A r \in stored :
    r.table = "RequestAttempt" /\ engine = "postgres" =>
      /\ "extra_json" \in schema => "extra_json" \in r.columns
      /\ session[r.by].migration = "ok" => {"TargetUrl", "SampleIndex"} \subseteq r.columns

=============================================================================
