------------------------- MODULE TesterOutputProofs --------------------------
(***************************************************************************)
(* Testers that share a database migrate it one at a time, and what each   *)
(* saves is whole.  What is proved of the store is carried over to the     *)
(* whole tester process, for any number of testers, any databases they may *)
(* meet and any number of faults.                                          *)
(* A capture, a URL diagnostic and a TLS profile conclude no more than     *)
(* they have seen.  The figures of a printed benchmark artifact agree with *)
(* each other, and it is called publication ready only where it is.        *)
(***************************************************************************)
EXTENDS TesterOutput, FiniteSetTheorems, FunctionTheorems, TLAPS

-----------------------------------------------------------------------------
\* What each session keeps.
Fields == {"at", "job", "connected", "tx", "todo", "version", "ready", "migration", "outcomes",
           "hurt", "exit"}
\* The places from pg_advisory_lock to pg_advisory_unlock.
Locked == {"check", "apply", "record", "unlock"}

\* Tester t in session s against the tables: from the lock to the unlock it
\* holds the advisory lock; all versions before its own are recorded, its own is
\* not while it is applied, and is installed before it is recorded.
SessionOk(t, s, eng, sch, rec, adv) ==
  /\ DOMAIN s = Fields
  /\ s.version \in Nat \ {0}
  /\ s.at \in {"connect", "lock"} => s.version = 1
  /\ s.at \in Locked => adv = t
  /\ s.at \in Locked \ {"unlock"} => \A v \in Versions : v < s.version => v \in rec
  /\ s.at \in {"apply", "record"} => s.version \in Versions \ rec
  /\ s.at = "record" => Installs[s.version] \subseteq sch
  /\ s.migration = "failed" => s.hurt
  /\ eng = "postgres" /\ s.migration = "ok" => rec = Versions

\* What the tables say of each other and of every session.
MigrationInv ==
  /\ recorded \subseteq Versions
  /\ \A v \in recorded : Installs[v] \subseteq schema
  /\ DOMAIN session = Testers
  /\ \A t \in Testers : SessionOk(t, session[t], engine, schema, recorded, advisory)

\* No tester has touched the database before the command line turns to it.
Untouched ==
  /\ recorded = {} /\ advisory = Nobody
  /\ \A t \in Testers : session[t].at = "connect" /\ session[t].migration = "none"
\* The inductive invariant of the migrations.
OutputInv ==
  /\ MigrationInv
  /\ stage \notin {"database", "over"} => Untouched

\* The invariant says more than the property.
LEMMA MigrationsFollow == MigrationInv => MigrationsSerial
BY DEF MigrationInv, MigrationsSerial, SessionOk

-----------------------------------------------------------------------------
\* One session changes: the others keep what they have, since the lock is taken
\* from nobody but the session's own tester and a version is recorded only under it.
LEMMA OneSession ==
  ASSUME MigrationInv, NEW t \in Testers, NEW n,
         session' = [session EXCEPT ![t] = n],
         SessionOk(t, n, engine', schema', recorded', advisory'),
         engine' = engine,
         recorded \subseteq recorded', recorded' \subseteq Versions, schema \subseteq schema',
         \A v \in recorded' : Installs[v] \subseteq schema',
         advisory' = advisory \/ advisory \in {t, Nobody},
         recorded' = recorded \/ advisory = t
  PROVE  MigrationInv'
<1>1. DOMAIN session' = Testers
  BY DEF MigrationInv
<1>2. ASSUME NEW o \in Testers
      PROVE  SessionOk(o, session[o]', engine', schema', recorded', advisory')
  <2>1. CASE o = t
    BY <2>1 DEF MigrationInv
  <2>2. CASE o # t
    <3>1. session[o]' = session[o]
      BY <2>2 DEF MigrationInv
    <3>2. SessionOk(o, session[o], engine, schema, recorded, advisory)
      BY DEF MigrationInv
    <3>3. session[o].at \in Locked => advisory' = advisory /\ recorded' = recorded
      BY <2>2, <3>2, StoreAssumption DEF SessionOk
    <3>4. {"apply", "record"} \subseteq Locked /\ "record" \in Locked
      BY DEF Locked
    <3> QED
      BY <3>1, <3>2, <3>3, <3>4 DEF SessionOk
  <2> QED
    BY <2>1, <2>2
<1> QED
  BY <1>1, <1>2 DEF MigrationInv

\* A session changed outside the migration, its version and the tables alone.
LEMMA OutsideMigration ==
  ASSUME MigrationInv, NEW t \in Testers, NEW n,
         Set(t, n), DOMAIN n = DOMAIN session[t],
         n.version = session[t].version, n.migration = session[t].migration,
         n.hurt = session[t].hurt, n.at \in {"ready", "insert", "exit"},
         UNCHANGED <<engine, schema, recorded>>,
         advisory' = advisory \/ (advisory = t /\ advisory' = Nobody)
  PROVE  MigrationInv'
<1>1. SessionOk(t, session[t], engine, schema, recorded, advisory)
  BY DEF MigrationInv
<1>2. SessionOk(t, n, engine', schema', recorded', advisory')
  BY <1>1 DEF SessionOk, Locked
<1> QED
  BY <1>2, OneSession DEF Set, MigrationInv

\* A tester that leaves gives the lock back and keeps the rest.
LEMMA QuitInv ==
  ASSUME MigrationInv, NEW t \in Testers, NEW code, Quit(t, code),
         UNCHANGED <<engine, schema, recorded>>
  PROVE  MigrationInv'
<1> DEFINE n == [session[t] EXCEPT !.at = "exit", !.connected = FALSE, !.tx = {}, !.exit = code]
<1>1. DOMAIN session[t] = Fields
  BY DEF MigrationInv, SessionOk
<1>2. /\ DOMAIN n = DOMAIN session[t] /\ n.version = session[t].version
      /\ n.migration = session[t].migration /\ n.hurt = session[t].hurt /\ n.at = "exit"
  BY <1>1 DEF Fields
<1>3. Set(t, n)
  BY DEF Quit
<1> HIDE DEF n
<1> QED
  BY <1>2, <1>3, OutsideMigration DEF Quit

\* So does one that has finished a save.
LEMMA SavedInv ==
  ASSUME MigrationInv, NEW t \in Testers, NEW outcome, Saved(t, outcome),
         UNCHANGED <<engine, schema, recorded>>
  PROVE  MigrationInv'
<1> DEFINE outcomes == Append(session[t].outcomes, outcome)
           abort == outcome # "ok" /\ Insistent(t)
           leave == abort \/ Len(outcomes) = Len(Job(t).records)
           n == [session[t] EXCEPT
                   !.at = IF leave THEN "exit" ELSE "ready", !.tx = {}, !.outcomes = outcomes,
                   !.connected = ~leave,
                   !.exit = IF abort THEN "error" ELSE IF leave THEN "ok" ELSE "none"]
<1>1. DOMAIN session[t] = Fields
  BY DEF MigrationInv, SessionOk
<1>2. Set(t, n) /\ advisory' = IF leave /\ advisory = t THEN Nobody ELSE advisory
  BY DEF Saved
<1> HIDE DEF outcomes, abort, leave
<1>3. /\ DOMAIN n = DOMAIN session[t] /\ n.version = session[t].version
      /\ n.migration = session[t].migration /\ n.hurt = session[t].hurt
      /\ n.at \in {"exit", "ready"}
  BY <1>1 DEF Fields
<1> HIDE DEF n
<1> QED
  BY <1>2, <1>3, OutsideMigration

-----------------------------------------------------------------------------
\* The steps of a migration.
LEMMA ConnectInv ==
  ASSUME MigrationInv, NEW t \in Testers, Connect(t)
  PROVE  MigrationInv'
<1> DEFINE n == [session[t] EXCEPT
               !.at = IF Job(t).migrate /\ engine = "postgres" THEN "lock" ELSE "ready",
               !.connected = TRUE,
               !.migration = IF Job(t).migrate /\ engine = "mssql" THEN "ok" ELSE "none"]
<1>1. SessionOk(t, session[t], engine, schema, recorded, advisory)
  BY DEF MigrationInv
<1>2. /\ DOMAIN n = Fields /\ n.version = session[t].version /\ n.hurt = session[t].hurt
      /\ n.at \in {"lock", "ready"} /\ n.migration \in {"ok", "none"}
      /\ n.migration = "ok" => engine = "mssql"
  BY <1>1 DEF Fields, SessionOk
<1>3. session' = [session EXCEPT ![t] = n] /\ session[t].at = "connect"
  BY DEF Connect, Set, At
<1> HIDE DEF n
<1>4. SessionOk(t, n, engine', schema', recorded', advisory')
  BY <1>1, <1>2, <1>3 DEF SessionOk, Locked, Connect
<1> QED
  BY <1>3, <1>4, OneSession DEF Connect, MigrationInv

\* The lock is free when it is taken.
LEMMA AdvisoryLockInv ==
  ASSUME MigrationInv, NEW t \in Testers, AdvisoryLock(t)
  PROVE  MigrationInv'
<1> DEFINE n == [session[t] EXCEPT !.at = "check"]
<1>1. SessionOk(t, session[t], engine, schema, recorded, advisory)
  BY DEF MigrationInv
<1>2. /\ DOMAIN n = Fields /\ n.version = session[t].version /\ n.hurt = session[t].hurt
      /\ n.at = "check" /\ n.migration = session[t].migration
  BY <1>1 DEF Fields, SessionOk
<1>3. session' = [session EXCEPT ![t] = n] /\ session[t].at = "lock"
  BY DEF AdvisoryLock, Set, At, Go
<1> HIDE DEF n
<1>4. SessionOk(t, n, engine', schema', recorded', advisory')
  BY <1>1, <1>2, <1>3 DEF SessionOk, Locked, AdvisoryLock, Versions
<1> QED
  BY <1>3, <1>4, OneSession DEF AdvisoryLock, MigrationInv

\* A version already recorded is passed over; after the last all are recorded.
LEMMA CheckVersionInv ==
  ASSUME MigrationInv, NEW t \in Testers, CheckVersion(t)
  PROVE  MigrationInv'
<1>1. SessionOk(t, session[t], engine, schema, recorded, advisory) /\ session[t].at = "check"
  BY DEF MigrationInv, CheckVersion, At
<1>2. CASE session[t].version \notin Versions
  <2> DEFINE n == [session[t] EXCEPT !.at = "unlock", !.migration = "ok"]
  <2>1. /\ DOMAIN n = Fields /\ n.version = session[t].version /\ n.hurt = session[t].hurt
        /\ n.at = "unlock" /\ n.migration = "ok"
    BY <1>1 DEF Fields, SessionOk
  <2>2. session' = [session EXCEPT ![t] = n]
    BY <1>2 DEF CheckVersion, Migrated, Set
  <2> HIDE DEF n
  <2>3. session[t].version > 8
    BY <1>1, <1>2 DEF SessionOk, Versions
  <2>4. Versions \subseteq recorded
    BY <1>1, <2>3 DEF SessionOk, Locked, Versions
  <2>5. recorded = Versions
    BY <2>4 DEF MigrationInv
  <2>6. SessionOk(t, n, engine', schema', recorded', advisory')
    BY <1>1, <2>1, <2>5 DEF SessionOk, Locked, CheckVersion
  <2> QED
    BY <2>2, <2>6, OneSession DEF CheckVersion, MigrationInv
<1>3. CASE session[t].version \in Versions /\ session[t].version \in recorded
  <2> DEFINE n == [session[t] EXCEPT !.version = @ + 1]
  <2>1. /\ DOMAIN n = Fields /\ n.version = session[t].version + 1 /\ n.hurt = session[t].hurt
        /\ n.at = "check" /\ n.migration = session[t].migration
    BY <1>1 DEF Fields, SessionOk
  <2>2. session' = [session EXCEPT ![t] = n]
    BY <1>3 DEF CheckVersion, Set
  <2> HIDE DEF n
  <2>3. \A v \in Versions : v < n.version => v < session[t].version \/ v = session[t].version
    BY <1>1, <2>1 DEF SessionOk, Versions
  <2>4. SessionOk(t, n, engine', schema', recorded', advisory')
    BY <1>1, <1>3, <2>1, <2>3 DEF SessionOk, Locked, CheckVersion
  <2> QED
    BY <2>2, <2>4, OneSession DEF CheckVersion, MigrationInv
<1>4. CASE session[t].version \in Versions /\ session[t].version \notin recorded
  <2> DEFINE n == [session[t] EXCEPT !.at = "apply"]
  <2>1. /\ DOMAIN n = Fields /\ n.version = session[t].version /\ n.hurt = session[t].hurt
        /\ n.at = "apply" /\ n.migration = session[t].migration
    BY <1>1 DEF Fields, SessionOk
  <2>2. session' = [session EXCEPT ![t] = n]
    BY <1>4 DEF CheckVersion, Go, Set
  <2> HIDE DEF n
  <2>3. SessionOk(t, n, engine', schema', recorded', advisory')
    BY <1>1, <1>4, <2>1 DEF SessionOk, Locked, CheckVersion
  <2> QED
    BY <2>2, <2>3, OneSession DEF CheckVersion, MigrationInv
<1> QED
  BY <1>2, <1>3, <1>4

\* A version is installed as a whole, before it is recorded.
LEMMA ApplyVersionInv ==
  ASSUME MigrationInv, NEW t \in Testers, ApplyVersion(t)
  PROVE  MigrationInv'
<1> DEFINE n == [session[t] EXCEPT !.at = "record"]
<1>1. SessionOk(t, session[t], engine, schema, recorded, advisory) /\ session[t].at = "apply"
  BY DEF MigrationInv, ApplyVersion, At
<1>2. /\ DOMAIN n = Fields /\ n.version = session[t].version /\ n.hurt = session[t].hurt
      /\ n.at = "record" /\ n.migration = session[t].migration
  BY <1>1 DEF Fields, SessionOk
<1>3. session' = [session EXCEPT ![t] = n]
  BY DEF ApplyVersion, Set, Go
<1> HIDE DEF n
<1>4. schema' = schema \cup Installs[session[t].version]
  BY DEF ApplyVersion
<1>5. UNCHANGED <<engine, recorded, advisory>>
  BY DEF ApplyVersion
<1>6. SessionOk(t, n, engine', schema', recorded', advisory')
  BY <1>1, <1>2, <1>4, <1>5 DEF SessionOk, Locked
<1> QED
  BY <1>3, <1>4, <1>5, <1>6, OneSession DEF MigrationInv

\* Under the lock nobody has recorded the version meanwhile.
LEMMA RecordVersionInv ==
  ASSUME MigrationInv, NEW t \in Testers, RecordVersion(t)
  PROVE  MigrationInv'
<1> DEFINE n == [session[t] EXCEPT !.at = "check", !.version = @ + 1]
<1>1. SessionOk(t, session[t], engine, schema, recorded, advisory) /\ session[t].at = "record"
  BY DEF MigrationInv, RecordVersion, At
<1>2. session[t].version \in Versions \ recorded /\ Installs[session[t].version] \subseteq schema
      /\ advisory = t
  BY <1>1 DEF SessionOk, Locked
<1>3. /\ DOMAIN n = Fields /\ n.version = session[t].version + 1 /\ n.hurt = session[t].hurt
      /\ n.at = "check" /\ n.migration = session[t].migration
  BY <1>1 DEF Fields, SessionOk
<1>4. session' = [session EXCEPT ![t] = n]
  BY <1>2 DEF RecordVersion, Set
<1> HIDE DEF n
<1>5. recorded' = recorded \cup {session[t].version} /\ UNCHANGED <<engine, schema, advisory>>
  BY DEF RecordVersion
<1>6. \A v \in Versions : v < n.version => v < session[t].version \/ v = session[t].version
  BY <1>1, <1>3 DEF SessionOk, Versions
<1>7. recorded # Versions
  BY <1>2
<1>8. SessionOk(t, n, engine', schema', recorded', advisory')
  <2>1. \A v \in Versions : v < n.version => v \in recorded'
    BY <1>1, <1>5, <1>6 DEF SessionOk, Locked
  <2>2. ~(engine = "postgres" /\ n.migration = "ok")
    BY <1>1, <1>3, <1>7 DEF SessionOk
  <2>3. n.version \in Nat \ {0}
    BY <1>1, <1>3 DEF SessionOk
  <2> QED
    BY <1>1, <1>2, <1>3, <1>5, <2>1, <2>2, <2>3 DEF SessionOk, Locked
<1> QED
  BY <1>2, <1>4, <1>5, <1>8, OneSession DEF MigrationInv

\* The lock is given back whatever the migration did.
LEMMA AdvisoryUnlockInv ==
  ASSUME MigrationInv, NEW t \in Testers, AdvisoryUnlock(t)
  PROVE  MigrationInv'
<1>1. CASE Quit(t, "error")
  BY <1>1, QuitInv DEF AdvisoryUnlock
<1>2. CASE Go(t, "ready") /\ advisory' = IF advisory = t THEN Nobody ELSE advisory
  <2> DEFINE n == [session[t] EXCEPT !.at = "ready"]
  <2>1. DOMAIN session[t] = Fields
    BY DEF MigrationInv, SessionOk
  <2>2. /\ DOMAIN n = DOMAIN session[t] /\ n.version = session[t].version
        /\ n.migration = session[t].migration /\ n.hurt = session[t].hurt /\ n.at = "ready"
    BY <2>1 DEF Fields
  <2>3. Set(t, n)
    BY <1>2 DEF Go
  <2> HIDE DEF n
  <2> QED
    BY <1>2, <2>2, <2>3, OutsideMigration DEF AdvisoryUnlock
<1> QED
  BY <1>1, <1>2 DEF AdvisoryUnlock

-----------------------------------------------------------------------------
\* Saving leaves the migration alone.
LEMMA SavingInv ==
  ASSUME MigrationInv, NEW t \in Testers,
         BeginSave(t) \/ Insert(t) \/ SkipGated(t) \/ SchemaRefuses(t) \/ Commit(t)
  PROVE  MigrationInv'
<1>1. DOMAIN session[t] = Fields
  BY DEF MigrationInv, SessionOk
<1>2. ASSUME NEW n, Set(t, n), UNCHANGED <<engine, schema, recorded, advisory>>,
             DOMAIN n = DOMAIN session[t], n.version = session[t].version,
             n.migration = session[t].migration, n.hurt = session[t].hurt, n.at = "insert"
      PROVE  MigrationInv'
  BY <1>2, OutsideMigration
<1>3. CASE BeginSave(t)
  <2>1. CASE mssql_save_tls_profile(t)
    BY <1>3, <2>1, SavedInv DEF BeginSave
  <2>2. CASE ~mssql_save_tls_profile(t)
    <3> DEFINE n == [session[t] EXCEPT !.at = "insert", !.ready = Ready,
                                       !.todo = Statements(t, Ready)]
    <3>1. Set(t, n) /\ UNCHANGED <<engine, schema, recorded, advisory>>
      BY <1>3, <2>2 DEF BeginSave
    <3>2. /\ DOMAIN n = DOMAIN session[t] /\ n.version = session[t].version
          /\ n.migration = session[t].migration /\ n.hurt = session[t].hurt /\ n.at = "insert"
      BY <1>1 DEF Fields
    <3> HIDE DEF n
    <3> QED
      BY <1>2, <3>1, <3>2
  <2> QED
    BY <2>1, <2>2
<1>4. CASE Insert(t)
  <2> DEFINE n == [session[t] EXCEPT !.todo = Tail(@), !.tx = @ \cup {Row(t, Head(session[t].todo))}]
  <2>1. Set(t, n) /\ UNCHANGED <<engine, schema, recorded, advisory>> /\ session[t].at = "insert"
    BY <1>4 DEF Insert, At
  <2>2. /\ DOMAIN n = DOMAIN session[t] /\ n.version = session[t].version
        /\ n.migration = session[t].migration /\ n.hurt = session[t].hurt /\ n.at = session[t].at
    BY <1>1 DEF Fields
  <2> HIDE DEF n
  <2> QED
    BY <1>2, <2>1, <2>2
<1>5. CASE SkipGated(t)
  <2> DEFINE n == [session[t] EXCEPT !.todo = Tail(@)]
  <2>1. Set(t, n) /\ UNCHANGED <<engine, schema, recorded, advisory>> /\ session[t].at = "insert"
    BY <1>5 DEF SkipGated, At
  <2>2. /\ DOMAIN n = DOMAIN session[t] /\ n.version = session[t].version
        /\ n.migration = session[t].migration /\ n.hurt = session[t].hurt /\ n.at = session[t].at
    BY <1>1 DEF Fields
  <2> HIDE DEF n
  <2> QED
    BY <1>2, <2>1, <2>2
<1>6. CASE SchemaRefuses(t)
  BY <1>6, SavedInv DEF SchemaRefuses, Rollback
<1>7. CASE Commit(t)
  BY <1>7, SavedInv DEF Commit
<1> QED
  BY <1>3, <1>4, <1>5, <1>6, <1>7

\* What an unlock that fails makes of its session.
UnlockFailedSession(t) ==
  [session[t] EXCEPT !.at = IF Insistent(t) THEN "exit" ELSE "ready", !.connected = ~Insistent(t),
                     !.migration = "failed", !.hurt = TRUE,
                     !.exit = IF Insistent(t) THEN "error" ELSE "none"]
UnlockFailed(t) ==
  /\ Set(t, UnlockFailedSession(t)) /\ UNCHANGED stored
  /\ advisory' = IF Insistent(t) /\ advisory = t THEN Nobody ELSE advisory
LEMMA UnlockFails ==
  ASSUME NEW t \in Testers, StatementFails(t), session[t].at = "unlock"
  PROVE  UnlockFailed(t)
BY DEF StatementFails, At, UnlockFailed, UnlockFailedSession

\* A statement of the migration that fails hurts its own session, which still
\* holds the lock and unlocks, or keeps it if that is what failed.
LEMMA StatementFailsInv ==
  ASSUME MigrationInv, NEW t \in Testers, StatementFails(t)
  PROVE  MigrationInv'
<1>1. CASE Rollback(t)
  BY <1>1, SavedInv DEF StatementFails, Rollback
<1>2. CASE /\ session[t].at \in {"check", "apply", "record"}
           /\ Set(t, [session[t] EXCEPT !.at = "unlock", !.migration = "failed", !.hurt = TRUE])
           /\ UNCHANGED <<advisory, stored>>
  <2> DEFINE n == [session[t] EXCEPT !.at = "unlock", !.migration = "failed", !.hurt = TRUE]
  <2>1. SessionOk(t, session[t], engine, schema, recorded, advisory)
    BY DEF MigrationInv
  <2>2. /\ DOMAIN n = Fields /\ n.version = session[t].version /\ n.hurt = TRUE
        /\ n.at = "unlock" /\ n.migration = "failed"
    BY <2>1 DEF Fields, SessionOk
  <2>3. session' = [session EXCEPT ![t] = n] /\ UNCHANGED <<engine, schema, recorded, advisory>>
    BY <1>2 DEF StatementFails, Set
  <2> HIDE DEF n
  <2>4. SessionOk(t, n, engine', schema', recorded', advisory')
    BY <1>2, <2>1, <2>2, <2>3 DEF SessionOk, Locked
  <2> QED
    BY <2>3, <2>4, OneSession DEF MigrationInv
<1>3. CASE session[t].at = "unlock" /\ UnlockFailed(t)
  <2> DEFINE n == UnlockFailedSession(t)
  <2>1. SessionOk(t, session[t], engine, schema, recorded, advisory)
    BY DEF MigrationInv
  <2>2. /\ DOMAIN n = Fields /\ n.version = session[t].version /\ n.hurt = TRUE
        /\ n.at \in {"ready", "exit"} /\ n.migration = "failed"
    BY <2>1 DEF Fields, SessionOk, UnlockFailedSession
  <2>3. /\ session' = [session EXCEPT ![t] = n] /\ UNCHANGED <<engine, schema, recorded>>
        /\ advisory' = advisory \/ (advisory = t /\ advisory' = Nobody)
    BY <1>3 DEF StatementFails, Set, UnlockFailed
  <2> HIDE DEF n
  <2>4. SessionOk(t, n, engine', schema', recorded', advisory')
    BY <2>1, <2>2, <2>3 DEF SessionOk, Locked
  <2> QED
    BY <2>3, <2>4, OneSession DEF MigrationInv
<1> QED
  BY <1>1, <1>2, <1>3, UnlockFails DEF StatementFails, At

\* The server ends the session: what it held goes, what it recorded stays.
LEMMA ConnectionLostInv ==
  ASSUME MigrationInv, NEW t \in Testers, ConnectionLost(t)
  PROVE  MigrationInv'
<1>1. SessionOk(t, session[t], engine, schema, recorded, advisory)
  BY DEF MigrationInv
<1>2. PICK outcomes, exit :
        Set(t, [session[t] EXCEPT !.at = "exit", !.connected = FALSE, !.tx = {}, !.hurt = TRUE,
                  !.outcomes = outcomes, !.exit = exit,
                  !.migration = IF session[t].at \in {"lock", "check", "apply", "record", "unlock"}
                                THEN "failed" ELSE @])
  BY DEF ConnectionLost
<1> DEFINE n == [session[t] EXCEPT !.at = "exit", !.connected = FALSE, !.tx = {}, !.hurt = TRUE,
                   !.outcomes = outcomes, !.exit = exit,
                   !.migration = IF session[t].at \in {"lock", "check", "apply", "record", "unlock"}
                                 THEN "failed" ELSE @]
<1>3. /\ DOMAIN n = Fields /\ n.version = session[t].version /\ n.hurt = TRUE /\ n.at = "exit"
      /\ n.migration = "failed" \/ n.migration = session[t].migration
  BY <1>1 DEF Fields, SessionOk
<1>4. session' = [session EXCEPT ![t] = n]
  BY <1>2 DEF Set
<1> HIDE DEF n
<1>5. /\ UNCHANGED <<engine, schema, recorded>>
      /\ advisory' = IF advisory = t THEN Nobody ELSE advisory
  BY DEF ConnectionLost
<1>6. SessionOk(t, n, engine', schema', recorded', advisory')
  BY <1>1, <1>3, <1>5 DEF SessionOk, Locked
<1> QED
  BY <1>4, <1>5, <1>6, OneSession DEF MigrationInv

\* Every step of a tester at the database, and every fault it meets.
LEMMA StoreInv ==
  ASSUME MigrationInv, NEW t \in Testers, StoreStep(t) \/ StoreFault(t)
  PROVE  MigrationInv'
<1>1. CASE ConnectFails(t) \/ TesterKilled(t)
  BY <1>1, QuitInv DEF ConnectFails, TesterKilled
<1> QED
  BY <1>1, ConnectInv, AdvisoryLockInv, CheckVersionInv, ApplyVersionInv, RecordVersionInv,
     AdvisoryUnlockInv, SavingInv, StatementFailsInv, ConnectionLostInv DEF StoreStep, StoreFault

-----------------------------------------------------------------------------
\* A tester starts unconnected, whatever its job and the database.
LEMMA OutputInit == Init => OutputInv
<1> SUFFICES ASSUME Init PROVE OutputInv
  OBVIOUS
<1> DEFINE Fresh(o) ==
             [at : {"connect"}, job : Jobs[o], connected : {FALSE},
                                 tx : {{}}, todo : {<<>>}, version : {1}, ready : {FALSE},
                                 migration : {"none"}, outcomes : {<<>>}, hurt : {FALSE},
                                 exit : {"none"}]
<1>1. /\ recorded = {} /\ advisory = Nobody /\ stage = "capture"
      /\ session \in [Testers -> UNION {Fresh(o) : o \in Testers}]
  BY DEF Init, StoreInit
<1>2. ASSUME NEW t \in Testers
      PROVE  /\ DOMAIN session[t] = Fields
             /\ session[t].at = "connect" /\ session[t].version = 1
             /\ session[t].migration = "none"
  <2>1. \A o \in Testers : \A r \in Fresh(o) :
          DOMAIN r = Fields /\ r.at = "connect" /\ r.version = 1 /\ r.migration = "none"
    BY DEF Fields
  <2> HIDE DEF Fresh
  <2> QED
    BY <1>1, <2>1
<1>3. \A t \in Testers : SessionOk(t, session[t], engine, schema, recorded, advisory)
  BY <1>2 DEF SessionOk, Locked
<1> QED
  BY <1>1, <1>2, <1>3 DEF OutputInv, MigrationInv, Untouched

\* A tester that leaves before it turned to the database.
LEMMA ExitInv ==
  ASSUME OutputInv, NEW code, ExitCli(code)
  PROVE  OutputInv'
<1> DEFINE n == [session[Cli] EXCEPT !.at = "exit", !.exit = code]
<1>1. SessionOk(Cli, session[Cli], engine, schema, recorded, advisory)
  BY CliAssumption DEF OutputInv, MigrationInv
<1>2. /\ DOMAIN n = Fields /\ n.version = session[Cli].version /\ n.hurt = session[Cli].hurt
      /\ n.at = "exit" /\ n.migration = session[Cli].migration
  BY <1>1 DEF Fields, SessionOk
<1>3. session' = [session EXCEPT ![Cli] = n]
  BY CliAssumption DEF ExitCli, OutputInv, MigrationInv
<1> HIDE DEF n
<1>4. UNCHANGED <<engine, schema, recorded, advisory>> /\ stage' = "over"
  BY DEF ExitCli
<1>5. SessionOk(Cli, n, engine', schema', recorded', advisory')
  BY <1>1, <1>2, <1>4 DEF SessionOk, Locked
<1>6. MigrationInv'
  BY <1>3, <1>4, <1>5, CliAssumption, OneSession DEF OutputInv, MigrationInv
<1> QED
  BY <1>4, <1>6 DEF OutputInv

\* The command line turns to the database, which may be any.
LEMMA ReportsInv ==
  ASSUME OutputInv, WriteReports
  PROVE  OutputInv'
<1>1. CASE ExitCli("error")
  BY <1>1, ExitInv
<1>2. CASE stage' = "database" /\ UNCHANGED <<recorded, advisory, stored, session, faults>>
  <2>1. Untouched
    BY DEF OutputInv, WriteReports
  <2>2. ASSUME NEW t \in Testers
        PROVE  SessionOk(t, session[t], engine', schema', recorded, advisory)
    <3>1. SessionOk(t, session[t], engine, schema, recorded, advisory)
      BY DEF OutputInv, MigrationInv
    <3> QED
      BY <2>1, <3>1 DEF SessionOk, Untouched, Locked
  <2>3. MigrationInv'
    BY <1>2, <2>1, <2>2 DEF OutputInv, MigrationInv, Untouched
  <2> QED
    BY <1>2, <2>3 DEF OutputInv
<1> QED
  BY <1>1, <1>2 DEF WriteReports

\* A step that leaves the store alone and does not go back from the database.
LEMMA ElsewhereInv ==
  ASSUME OutputInv, UNCHANGED storevars,
         stage' = stage \/ stage \notin {"database", "over"}
  PROVE  OutputInv'
<1>1. MigrationInv' /\ (Untouched => Untouched')
  BY DEF OutputInv, MigrationInv, Untouched, storevars
<1> QED
  BY <1>1 DEF OutputInv

\* One case per part of the tester.
LEMMA OutputNext == OutputInv /\ [Next]_vars => OutputInv'
<1> SUFFICES ASSUME OutputInv, [Next]_vars PROVE OutputInv'
  OBVIOUS
<1>1. CASE CliStep
  <2>1. CASE WorkFails \/ PrintJson \/ NoDatabase
    BY <2>1, ExitInv DEF WorkFails, Abandon, PrintJson, NoDatabase
  <2>2. CASE SaveJson
    <3>1. CASE ExitCli("error")
      BY <3>1, ExitInv
    <3>2. CASE UNCHANGED <<stage, storevars>>
      BY <3>2, ElsewhereInv
    <3> QED
      BY <2>2, <3>1, <3>2 DEF SaveJson
  <2>3. CASE BeginWork \/ MeasureTarget \/ WorkDone \/ Finalized \/ Validated \/ ArtifactsSaved
    <3>1. UNCHANGED storevars
      BY <2>3 DEF BeginWork, MeasureTarget, WorkDone, Finalized, Validated, ArtifactsSaved
    <3>2. stage \notin {"database", "over"}
      BY <2>3 DEF BeginWork, MeasureTarget, WorkDone, Finalized, Validated, ArtifactsSaved
    <3> QED
      BY <3>1, <3>2, ElsewhereInv
  <2> QED
    BY <1>1, <2>1, <2>2, <2>3, ReportsInv DEF CliStep
<1>2. CASE CaptureStep \/ UrlStep \/ ProfileStep \/ Tshark \/ Over \/ UNCHANGED vars
  <2>1. UNCHANGED storevars /\ stage' = stage
    BY <1>2 DEF CaptureStep, UrlStep, ProfileStep, Tshark, Over, vars, Ours, mainvars
  <2> QED
    BY <2>1, ElsewhereInv
<1>3. ASSUME NEW t \in Testers, Database(t) \/ DatabaseFault(t)
      PROVE  OutputInv'
  <2>1. MigrationInv'
    BY <1>3, StoreInv DEF Database, DatabaseFault, OutputInv
  <2>2. stage' = "database"
    BY <1>3 DEF Database, DatabaseFault, Sharing, mainvars
  <2> QED
    BY <2>1, <2>2 DEF OutputInv
<1> QED
  BY <1>1, <1>2, <1>3 DEF Next

\* Testers may migrate one database at once and be killed half way: a recorded
\* version is installed, a migration fails only through a fault of its own
\* session, and one that succeeded leaves every version installed (migrate).
THEOREM MigrationsAreSerial == Spec => []MigrationsSerial
<1>1. OutputInv => MigrationsSerial
  BY MigrationsFollow DEF OutputInv
<1> QED
  BY <1>1, OutputInit, OutputNext, PTL DEF Spec

-----------------------------------------------------------------------------
(***************************************************************************)
(* What is saved is whole.                                                 *)
(***************************************************************************)
Pairs(rows) == {<<r.table, r.key>> : r \in rows}
\* What of a record is among the rows.
Kept(rows, record) == Pairs({row \in rows : IdOf(row) = record.id})
\* The rows of a record of this kind saved whole into this kind of database.
Whole(db, kind, record, pairs) ==
  \E ready \in BOOLEAN :
    LET must == Inserts(db, kind, record, ready)
    IN  pairs \subseteq Rows(must) /\ \A s \in ToSet(must) : s.gated \/ <<s.table, s.key>> \in pairs

\* A record's rows against what its save reported: none until it is finished,
\* all if it succeeded, none if it failed, either if COMMIT's answer was lost.
OutcomeOk(db, kind, record, pairs, outcome) ==
  /\ outcome \in {"none", "failed"} => pairs = {}
  /\ outcome = "ok" => Whole(db, kind, record, pairs)
  /\ pairs = {} \/ Whole(db, kind, record, pairs)
\* The outcome of record i in session s.
OutcomeOf(s, i) == IF i \in DOMAIN s.outcomes THEN s.outcomes[i] ELSE "none"

\* An open transaction: each statement of the save is still to do, has its row
\* in the transaction, or may be left out.
Progress(t, s, db) ==
  LET must == Inserts(db, s.job.kind, s.job.records[Len(s.outcomes) + 1], s.ready)
  IN  /\ s.ready \in BOOLEAN
      /\ s.todo \in Seq(ToSet(must))
      /\ Pairs(s.tx) \subseteq Rows(must)
      /\ \A m \in ToSet(must) :
           m \in ToSet(s.todo) \/ m.gated \/ <<m.table, m.key>> \in Pairs(s.tx)

\* A row of an attempt stored after the tester's own migration.
ColumnsOk(r) == r.table = "RequestAttempt" => {"TargetUrl", "SampleIndex"} \subseteq r.columns

\* Session s of tester t against the stored rows.
SaveOk(t, s, db, rows) ==
  /\ s.job \in Jobs[t]
  /\ s.outcomes \in Seq({"ok", "failed", "unknown"}) /\ Len(s.outcomes) <= Len(s.job.records)
  /\ s.at # "exit" => Len(s.outcomes) < Len(s.job.records)
  /\ s.at \notin {"ready", "insert", "exit"} => s.outcomes = <<>> /\ \A r \in rows : r.by # t
  /\ s.at # "insert" => s.tx = {}
  /\ s.at = "insert" => Progress(t, s, db)
  /\ \A i \in DOMAIN s.job.records :
       OutcomeOk(db, s.job.kind, s.job.records[i], Kept(rows, s.job.records[i]), OutcomeOf(s, i))
  /\ \A r \in s.tx : r.by = t
  /\ db = "postgres" /\ s.migration = "ok" => \A r \in s.tx \cup {r \in rows : r.by = t} : ColumnsOk(r)

\* The same for every tester.
SaveInv ==
  /\ engine \in Engines
  /\ \A r \in stored : r.by \in Testers
  /\ \A t \in Testers : SaveOk(t, session[t], engine, stored)

\* The artifacts written so far are those of the first runs; all of them before
\* the database is touched, and all of them or stdout before an exit with 0.
AllFiles == files = {<<"json", i>> : i \in 1..Targets}
DeliveryInv ==
  /\ IsFiniteSet(files) /\ Cardinality(files) \in 0..Targets
  /\ files = {<<"json", i>> : i \in 1..Cardinality(files)}
  /\ stage \in {"report", "database"} => AllFiles
  /\ stage = "over" /\ session[Cli].exit = "ok" => printed # "nothing" \/ AllFiles
  /\ stage \notin {"database", "over"} => session[Cli].exit = "none"
  /\ stage # "database" => stored = {}

\* Where there is a column for it, an attempt's row has its JSON, stored or about
\* to be.
HasJson(r) == r.table = "RequestAttempt" => "extra_json" \in r.columns
JsonInv ==
  engine = "postgres" /\ "extra_json" \in schema =>
    \A t \in Testers : \A r \in stored \cup session[t].tx : HasJson(r)

\* The inductive invariant, but for JsonInv.
WholeInv == OutputInv /\ SaveInv /\ DeliveryInv

\* The invariant says more than the property.
LEMMA SavesFollow == SaveInv /\ JsonInv => SavesAtomic /\ ColumnsIndependent
<1> SUFFICES ASSUME SaveInv, JsonInv PROVE SavesAtomic /\ ColumnsIndependent
  OBVIOUS
<1>1. \A record : Stored(record) = Kept(stored, record)
  BY DEF Stored, Kept, Pairs
<1>2. ASSUME NEW t \in Testers, NEW record
      PROVE  Whole(engine, Job(t).kind, record, Stored(record)) = IsWhole(t, record)
  BY DEF Whole, IsWhole
<1>3. ASSUME NEW t \in Testers, NEW i \in DOMAIN Job(t).records
      PROVE  /\ Stored(Job(t).records[i]) = {} \/ IsWhole(t, Job(t).records[i])
             /\ OutcomeOf(session[t], i) = "ok" => IsWhole(t, Job(t).records[i])
             /\ OutcomeOf(session[t], i) = "failed" => Stored(Job(t).records[i]) = {}
  <2>1. OutcomeOk(engine, Job(t).kind, Job(t).records[i], Stored(Job(t).records[i]),
                  OutcomeOf(session[t], i))
    BY <1>1 DEF SaveInv, SaveOk, Job
  <2>2. Whole(engine, Job(t).kind, Job(t).records[i], Stored(Job(t).records[i]))
          = IsWhole(t, Job(t).records[i])
    BY <1>2
  <2> QED
    BY <2>1, <2>2 DEF OutcomeOk
<1>4. SavesAtomic
  BY <1>3 DEF SavesAtomic, OutcomeOf
<1>5. ColumnsIndependent
  BY CliAssumption DEF ColumnsIndependent, SaveInv, SaveOk, ColumnsOk, JsonInv, HasJson
<1> QED
  BY <1>4, <1>5

\* Rows of other records are no rows of this one.
LEMMA KeptSame ==
  ASSUME NEW rows, NEW more, NEW record, rows \subseteq more,
         \A r \in more \ rows : IdOf(r) # record.id
  PROVE  Kept(more, record) = Kept(rows, record)
BY DEF Kept, Pairs

\* A transaction holds rows of the record that is being saved.
LEMMA TxKeyed ==
  ASSUME NEW t \in Testers, NEW s, NEW db \in Engines, NEW rows, SaveOk(t, s, db, rows),
         NEW r \in s.tx
  PROVE  /\ Len(s.outcomes) + 1 \in DOMAIN s.job.records
         /\ IdOf(r) = s.job.records[Len(s.outcomes) + 1].id
<1>1. s.at = "insert" /\ s.job \in Jobs[t] /\ Len(s.outcomes) < Len(s.job.records)
  BY DEF SaveOk
<1>2. s.job.records \in Seq(ToSet(s.job.records)) /\ s.outcomes \in Seq({"ok", "failed", "unknown"})
  BY <1>1, RecordsAssumption DEF SaveOk
<1>3. Len(s.outcomes) + 1 \in DOMAIN s.job.records
  BY <1>1, <1>2
<1> DEFINE record == s.job.records[Len(s.outcomes) + 1]
           must == Inserts(db, s.job.kind, record, s.ready)
<1>4. record \in ToSet(s.job.records)
  BY <1>3 DEF ToSet
<1>5. s.ready \in BOOLEAN /\ Pairs(s.tx) \subseteq Rows(must)
  BY <1>1 DEF SaveOk, Progress
<1>6. \A m \in ToSet(must) : IdOf(m) = record.id
  BY <1>1, <1>4, <1>5, StatementsAssumption
<1> HIDE DEF must, record
<1>7. PICK m \in ToSet(must) : m.table = r.table /\ m.key = r.key
  <2>1. <<r.table, r.key>> \in Pairs(s.tx)
    BY DEF Pairs
  <2>2. <<r.table, r.key>> \in Rows(must)
    BY <1>5, <2>1
  <2> QED
    BY <2>2 DEF Rows
<1>8. IdOf(r) = record.id
  BY <1>6, <1>7 DEF IdOf
<1> QED
  BY <1>3, <1>8 DEF record

\* One tester's session and rows change; no other tester has rows of its records.
LEMMA OneSave ==
  ASSUME SaveInv, DOMAIN session = Testers, NEW t \in Testers, NEW n,
         session' = [session EXCEPT ![t] = n], engine' = engine,
         SaveOk(t, n, engine, stored'), stored \subseteq stored',
         stored' \subseteq stored \cup session[t].tx
  PROVE  SaveInv'
<1>1. SaveOk(t, session[t], engine, stored) /\ engine \in Engines
  BY DEF SaveInv
<1>2. \A r \in stored' \ stored :
        /\ r.by = t
        /\ Len(session[t].outcomes) + 1 \in DOMAIN session[t].job.records
        /\ IdOf(r) = session[t].job.records[Len(session[t].outcomes) + 1].id
  BY <1>1, TxKeyed DEF SaveOk
<1>3. session[t].job \in Jobs[t]
  BY <1>1 DEF SaveOk
<1>4. ASSUME NEW o \in Testers
      PROVE  SaveOk(o, session[o]', engine', stored')
  <2>1. CASE o = t
    BY <2>1
  <2>2. CASE o # t
    <3>1. session[o]' = session[o] /\ SaveOk(o, session[o], engine, stored)
      BY <2>2 DEF SaveInv
    <3>2. ASSUME NEW i \in DOMAIN session[o].job.records
          PROVE  Kept(stored', session[o].job.records[i]) = Kept(stored, session[o].job.records[i])
      <4>1. session[o].job \in Jobs[o]
        BY <3>1 DEF SaveOk
      <4>2. \A r \in stored' \ stored : IdOf(r) # session[o].job.records[i].id
        BY <1>2, <1>3, <2>2, <4>1, RecordsAssumption
      <4> QED
        BY <4>2, KeptSame
    <3>3. {r \in stored' : r.by = o} = {r \in stored : r.by = o}
      BY <1>2, <2>2
    <3>4. (\A r \in stored : r.by # o) => (\A r \in stored' : r.by # o)
      BY <1>2, <2>2
    <3> QED
      BY <3>1, <3>2, <3>3, <3>4 DEF SaveOk
  <2> QED
    BY <2>1, <2>2
<1>5. \A r \in stored' : r.by \in Testers
  BY <1>2 DEF SaveInv
<1> QED
  BY <1>1, <1>4, <1>5 DEF SaveInv

\* A step outside a transaction that finishes no save.
LEMMA SameOutcomes ==
  ASSUME NEW t \in Testers, NEW s, NEW n, NEW db, NEW rows, SaveOk(t, s, db, rows),
         n.job = s.job, n.outcomes = s.outcomes, n.at # "insert", n.tx = {},
         n.at # "exit" => s.at # "exit",
         n.at \notin {"ready", "insert", "exit"} => s.at \notin {"ready", "insert", "exit"},
         db = "postgres" /\ n.migration = "ok" =>
           s.migration = "ok" \/ s.at \notin {"ready", "insert", "exit"}
  PROVE  SaveOk(t, n, db, rows)
<1>1. \A i : OutcomeOf(n, i) = OutcomeOf(s, i)
  BY DEF OutcomeOf
<1> QED
  BY <1>1 DEF SaveOk

\* A save ends: what it stored agrees with what it reports.
LEMMA EndSave ==
  ASSUME NEW t \in Testers, NEW s, NEW n, NEW db \in Engines, NEW rows, NEW more,
         SaveOk(t, s, db, rows), rows \subseteq more, more \subseteq rows \cup s.tx,
         NEW out \in {"ok", "failed", "unknown"},
         s.at \in {"ready", "insert"},
         n.job = s.job, n.outcomes = Append(s.outcomes, out), n.migration = s.migration,
         n.at \in {"ready", "exit"}, n.tx = {},
         n.at # "exit" => Len(n.outcomes) < Len(s.job.records),
         LET record == s.job.records[Len(s.outcomes) + 1]
         IN  OutcomeOk(db, s.job.kind, record, Kept(more, record), out)
  PROVE  SaveOk(t, n, db, more)
<1> DEFINE record == s.job.records[Len(s.outcomes) + 1]
<1>1. s.job \in Jobs[t] /\ s.outcomes \in Seq({"ok", "failed", "unknown"})
      /\ Len(s.outcomes) < Len(s.job.records)
  BY DEF SaveOk
<1>2. s.job.records \in Seq(ToSet(s.job.records))
  BY <1>1, RecordsAssumption
<1>3. n.outcomes \in Seq({"ok", "failed", "unknown"}) /\ Len(n.outcomes) = Len(s.outcomes) + 1
      /\ n.outcomes[Len(s.outcomes) + 1] = out
      /\ \A i \in 1..Len(s.outcomes) : n.outcomes[i] = s.outcomes[i]
  BY <1>1
<1>4. ASSUME NEW i \in DOMAIN s.job.records
      PROVE  OutcomeOk(db, s.job.kind, s.job.records[i], Kept(more, s.job.records[i]), OutcomeOf(n, i))
  <2>1. CASE i = Len(s.outcomes) + 1
    BY <1>3, <2>1 DEF OutcomeOf
  <2>2. CASE i # Len(s.outcomes) + 1
    <3>1. OutcomeOf(n, i) = OutcomeOf(s, i)
      BY <1>1, <1>2, <1>3, <2>2 DEF OutcomeOf
    <3>2. ASSUME NEW r \in more \ rows
          PROVE  IdOf(r) # s.job.records[i].id
      <4>1. /\ Len(s.outcomes) + 1 \in DOMAIN s.job.records
            /\ IdOf(r) = s.job.records[Len(s.outcomes) + 1].id
        BY TxKeyed
      <4> QED
        BY <1>1, <2>2, <4>1, RecordsAssumption
    <3>3. Kept(more, s.job.records[i]) = Kept(rows, s.job.records[i])
      BY <3>2, KeptSame
    <3> QED
      BY <3>1, <3>3 DEF SaveOk
  <2> QED
    BY <2>1, <2>2
<1>5. Len(n.outcomes) <= Len(s.job.records)
  BY <1>1, <1>2, <1>3
<1>6. \A r \in more : r.by = t => r \in s.tx \cup {q \in rows : q.by = t}
  OBVIOUS
<1> QED
  BY <1>1, <1>3, <1>4, <1>5, <1>6 DEF SaveOk

\* The elements of a sequence are its first and those of the rest.
LEMMA HeadTail ==
  ASSUME NEW M, NEW q \in Seq(M), q # <<>>
  PROVE  /\ Head(q) \in M /\ Tail(q) \in Seq(M)
         /\ \A x \in ToSet(q) : x = Head(q) \/ x \in ToSet(Tail(q))
<1>1. Head(q) \in M /\ Tail(q) \in Seq(M) /\ Len(q) \in Nat \ {0} /\ Len(Tail(q)) = Len(q) - 1
  OBVIOUS
<1>2. ASSUME NEW i \in DOMAIN q, i # 1
      PROVE  i - 1 \in DOMAIN Tail(q) /\ Tail(q)[i - 1] = q[i]
  BY <1>1, <1>2
<1>3. ASSUME NEW x \in ToSet(q), x # Head(q)
      PROVE  x \in ToSet(Tail(q))
  <2>1. PICK i \in DOMAIN q : q[i] = x
    BY DEF ToSet
  <2>2. i # 1
    BY <1>3, <2>1
  <2> QED
    BY <1>2, <2>1, <2>2 DEF ToSet
<1> QED
  BY <1>1, <1>3

-----------------------------------------------------------------------------
\* A step outside a transaction that finishes no save, in the store.
LEMMA QuietStep ==
  ASSUME SaveInv, MigrationInv, NEW t \in Testers, NEW n,
         session' = [session EXCEPT ![t] = n], UNCHANGED <<engine, stored>>,
         n.job = session[t].job, n.outcomes = session[t].outcomes, n.at # "insert", n.tx = {},
         n.at # "exit" => session[t].at # "exit",
         n.at \notin {"ready", "insert", "exit"} => session[t].at \notin {"ready", "insert", "exit"},
         engine = "postgres" /\ n.migration = "ok" =>
           session[t].migration = "ok" \/ session[t].at \notin {"ready", "insert", "exit"}
  PROVE  SaveInv'
<1>1. SaveOk(t, session[t], engine, stored)
  BY DEF SaveInv
<1>2. SaveOk(t, n, engine, stored)
  BY <1>1, SameOutcomes
<1> QED
  BY <1>2, OneSave DEF MigrationInv

\* A tester that leaves loses its transaction and nothing else.
LEMMA QuitSave ==
  ASSUME SaveInv, MigrationInv, NEW t \in Testers, NEW code, Quit(t, code),
         UNCHANGED <<engine, stored>>
  PROVE  SaveInv'
<1> DEFINE n == [session[t] EXCEPT !.at = "exit", !.connected = FALSE, !.tx = {}, !.exit = code]
<1>1. DOMAIN session[t] = Fields
  BY DEF MigrationInv, SessionOk
<1>2. /\ n.job = session[t].job /\ n.outcomes = session[t].outcomes /\ n.at = "exit"
      /\ n.tx = {} /\ n.migration = session[t].migration
  BY <1>1 DEF Fields
<1>3. session' = [session EXCEPT ![t] = n]
  BY DEF Quit, Set
<1> HIDE DEF n
<1> QED
  BY <1>2, <1>3, QuietStep

\* Connecting and migrating store no record.
LEMMA MigrationSave ==
  ASSUME SaveInv, MigrationInv, NEW t \in Testers,
         \/ Connect(t) \/ AdvisoryLock(t) \/ CheckVersion(t) \/ ApplyVersion(t)
         \/ RecordVersion(t) \/ AdvisoryUnlock(t)
  PROVE  SaveInv'
<1>1. DOMAIN session[t] = Fields /\ SaveOk(t, session[t], engine, stored)
  BY DEF MigrationInv, SessionOk, SaveInv
<1>2. session[t].at \in {"connect", "lock", "check", "apply", "record", "unlock"}
  BY DEF Connect, AdvisoryLock, CheckVersion, ApplyVersion, RecordVersion, AdvisoryUnlock, At
<1>3. UNCHANGED <<engine, stored>>
  BY DEF Connect, AdvisoryLock, CheckVersion, ApplyVersion, RecordVersion, AdvisoryUnlock
<1>4. session[t].tx = {}
  BY <1>1, <1>2 DEF SaveOk
<1>5. ASSUME NEW n, session' = [session EXCEPT ![t] = n],
             n.job = session[t].job, n.outcomes = session[t].outcomes, n.tx = session[t].tx,
             n.at # "insert"
      PROVE  SaveInv'
  BY <1>2, <1>3, <1>4, <1>5, QuietStep
<1>6. CASE Connect(t)
  <2> DEFINE n == [session[t] EXCEPT
               !.at = IF Job(t).migrate /\ engine = "postgres" THEN "lock" ELSE "ready",
               !.connected = TRUE,
               !.migration = IF Job(t).migrate /\ engine = "mssql" THEN "ok" ELSE "none"]
  <2>1. session' = [session EXCEPT ![t] = n]
    BY <1>6 DEF Connect, Set
  <2>2. n.job = session[t].job /\ n.outcomes = session[t].outcomes /\ n.tx = session[t].tx
        /\ n.at # "insert"
    BY <1>1 DEF Fields
  <2> HIDE DEF n
  <2> QED
    BY <1>5, <2>1, <2>2
<1>7. ASSUME NEW p, p # "insert", Go(t, p) PROVE SaveInv'
  <2> DEFINE n == [session[t] EXCEPT !.at = p]
  <2>1. session' = [session EXCEPT ![t] = n]
    BY <1>7 DEF Go, Set
  <2>2. n.job = session[t].job /\ n.outcomes = session[t].outcomes /\ n.tx = session[t].tx
        /\ n.at # "insert"
    BY <1>1, <1>7 DEF Fields
  <2> HIDE DEF n
  <2> QED
    BY <1>5, <2>1, <2>2
<1>8. ASSUME NEW result, Migrated(t, result) PROVE SaveInv'
  <2> DEFINE n == [session[t] EXCEPT !.at = "unlock", !.migration = result]
  <2>1. session' = [session EXCEPT ![t] = n]
    BY <1>8 DEF Migrated, Set
  <2>2. n.job = session[t].job /\ n.outcomes = session[t].outcomes /\ n.tx = session[t].tx
        /\ n.at # "insert"
    BY <1>1 DEF Fields
  <2> HIDE DEF n
  <2> QED
    BY <1>5, <2>1, <2>2
<1>9. CASE Set(t, [session[t] EXCEPT !.version = @ + 1])
  <2> DEFINE n == [session[t] EXCEPT !.version = @ + 1]
  <2>1. session' = [session EXCEPT ![t] = n]
    BY <1>9 DEF Set
  <2>2. n.job = session[t].job /\ n.outcomes = session[t].outcomes /\ n.tx = session[t].tx
        /\ n.at = session[t].at
    BY <1>1 DEF Fields
  <2> HIDE DEF n
  <2> QED
    BY <1>2, <1>5, <2>1, <2>2
<1>10. CASE Set(t, [session[t] EXCEPT !.at = "check", !.version = @ + 1])
  <2> DEFINE n == [session[t] EXCEPT !.at = "check", !.version = @ + 1]
  <2>1. session' = [session EXCEPT ![t] = n]
    BY <1>10 DEF Set
  <2>2. n.job = session[t].job /\ n.outcomes = session[t].outcomes /\ n.tx = session[t].tx
        /\ n.at # "insert"
    BY <1>1 DEF Fields
  <2> HIDE DEF n
  <2> QED
    BY <1>5, <2>1, <2>2
<1>11. CASE AdvisoryLock(t) \/ ApplyVersion(t)
  BY <1>7, <1>11 DEF AdvisoryLock, ApplyVersion
<1>12. CASE CheckVersion(t)
  BY <1>7, <1>8, <1>9, <1>12 DEF CheckVersion
<1>13. CASE RecordVersion(t)
  BY <1>8, <1>10, <1>13 DEF RecordVersion
<1>14. CASE AdvisoryUnlock(t)
  BY <1>3, <1>7, <1>14, QuitSave DEF AdvisoryUnlock
<1> QED
  BY <1>6, <1>11, <1>12, <1>13, <1>14

\* A save that ends with this outcome.
LEMMA SavedSave ==
  ASSUME SaveInv, MigrationInv, NEW t \in Testers, NEW out \in {"ok", "failed"}, Saved(t, out),
         UNCHANGED engine, stored \subseteq stored', stored' \subseteq stored \cup session[t].tx,
         session[t].at \in {"ready", "insert"},
         LET record == session[t].job.records[Len(session[t].outcomes) + 1]
         IN  OutcomeOk(engine, session[t].job.kind, record, Kept(stored', record), out)
  PROVE  SaveInv'
<1> DEFINE outcomes == Append(session[t].outcomes, out)
           abort == out # "ok" /\ Insistent(t)
           leave == abort \/ Len(outcomes) = Len(Job(t).records)
           n == [session[t] EXCEPT
                   !.at = IF leave THEN "exit" ELSE "ready", !.tx = {}, !.outcomes = outcomes,
                   !.connected = ~leave,
                   !.exit = IF abort THEN "error" ELSE IF leave THEN "ok" ELSE "none"]
<1>1. DOMAIN session[t] = Fields /\ SaveOk(t, session[t], engine, stored) /\ engine \in Engines
  BY DEF MigrationInv, SessionOk, SaveInv
<1>2. session' = [session EXCEPT ![t] = n]
  BY DEF Saved, Set
<1>3. Len(outcomes) # Len(session[t].job.records) => Len(outcomes) < Len(session[t].job.records)
  <2>1. /\ session[t].job.records \in Seq(ToSet(session[t].job.records))
        /\ session[t].outcomes \in Seq({"ok", "failed", "unknown"})
        /\ Len(session[t].outcomes) < Len(session[t].job.records)
    BY <1>1, RecordsAssumption DEF SaveOk
  <2> QED
    BY <2>1
<1>4. /\ n.job = session[t].job /\ n.outcomes = outcomes /\ n.tx = {}
      /\ n.migration = session[t].migration /\ n.at = IF leave THEN "exit" ELSE "ready"
  BY <1>1 DEF Fields
<1> HIDE DEF n
<1>5. n.at \in {"ready", "exit"} /\ (n.at # "exit" => Len(n.outcomes) < Len(session[t].job.records))
  BY <1>3, <1>4 DEF Job
<1>6. SaveOk(t, n, engine, stored')
  BY <1>1, <1>4, <1>5, EndSave
<1> QED
  BY <1>2, <1>6, OneSave DEF MigrationInv

\* A save that failed is rolled back: nothing of its record is stored.
LEMMA FailedSave ==
  ASSUME SaveInv, MigrationInv, NEW t \in Testers, Saved(t, "failed"),
         UNCHANGED <<engine, stored>>, session[t].at \in {"ready", "insert"}
  PROVE  SaveInv'
<1>1. SaveOk(t, session[t], engine, stored)
  BY DEF SaveInv
<1> DEFINE i == Len(session[t].outcomes) + 1
<1>2. i \in DOMAIN session[t].job.records /\ i \notin DOMAIN session[t].outcomes
  <2>1. /\ session[t].job.records \in Seq(ToSet(session[t].job.records))
        /\ session[t].outcomes \in Seq({"ok", "failed", "unknown"})
        /\ Len(session[t].outcomes) < Len(session[t].job.records)
    BY <1>1, RecordsAssumption DEF SaveOk
  <2> QED
    BY <2>1
<1> HIDE DEF i
<1>3. OutcomeOk(engine, session[t].job.kind, session[t].job.records[i],
                Kept(stored, session[t].job.records[i]), "none")
  BY <1>1, <1>2 DEF SaveOk, OutcomeOf
<1>4. OutcomeOk(engine, session[t].job.kind, session[t].job.records[i],
                Kept(stored, session[t].job.records[i]), "failed")
  BY <1>3 DEF OutcomeOk
<1> QED
  BY <1>4, SavedSave DEF i

-----------------------------------------------------------------------------
\* A transaction begins with every statement still to do.
LEMMA BeginSaveSave ==
  ASSUME SaveInv, MigrationInv, NEW t \in Testers, BeginSave(t)
  PROVE  SaveInv'
<1>1. session[t].at = "ready" /\ UNCHANGED <<engine, stored>>
  BY DEF BeginSave, At
<1>2. CASE mssql_save_tls_profile(t)
  BY <1>1, <1>2, FailedSave DEF BeginSave
<1>3. CASE ~mssql_save_tls_profile(t)
  <2> DEFINE record == session[t].job.records[Len(session[t].outcomes) + 1]
             must == Inserts(engine, session[t].job.kind, record, Ready)
             n == [session[t] EXCEPT !.at = "insert", !.ready = Ready, !.todo = must]
  <2>1. DOMAIN session[t] = Fields /\ SaveOk(t, session[t], engine, stored) /\ engine \in Engines
    BY DEF MigrationInv, SessionOk, SaveInv
  <2>2. session' = [session EXCEPT ![t] = n]
    BY <1>3 DEF BeginSave, Set, Statements, Job, Current
  <2>3. record \in ToSet(session[t].job.records) /\ session[t].job \in Jobs[t]
    <3>1. /\ session[t].job.records \in Seq(ToSet(session[t].job.records))
          /\ session[t].outcomes \in Seq({"ok", "failed", "unknown"})
          /\ Len(session[t].outcomes) < Len(session[t].job.records)
          /\ session[t].job \in Jobs[t]
      BY <1>1, <2>1, RecordsAssumption DEF SaveOk
    <3>2. Len(session[t].outcomes) + 1 \in DOMAIN session[t].job.records
      BY <3>1
    <3> QED
      BY <3>1, <3>2 DEF ToSet
  <2>4. Ready \in BOOLEAN
    BY DEF Ready, benchmark_schema_installed, mssql_benchmark_schema_installed
  <2>5. must \in Seq(ToSet(must))
    BY <2>1, <2>3, <2>4, StatementsAssumption
  <2>6. /\ n.job = session[t].job /\ n.outcomes = session[t].outcomes /\ n.at = "insert"
        /\ n.tx = session[t].tx /\ n.migration = session[t].migration /\ n.ready = Ready
        /\ n.todo = must
    BY <2>1 DEF Fields
  <2>7. session[t].tx = {}
    BY <1>1, <2>1 DEF SaveOk
  <2> HIDE DEF n
  <2>8. Inserts(engine, n.job.kind, n.job.records[Len(n.outcomes) + 1], n.ready) = must
    BY <2>6
  <2> HIDE DEF must, record
  <2>9. Progress(t, n, engine)
    BY <2>4, <2>5, <2>6, <2>7, <2>8 DEF Progress, Pairs
  <2>10. \A k : OutcomeOf(n, k) = OutcomeOf(session[t], k)
    BY <2>6 DEF OutcomeOf
  <2>11. SaveOk(t, n, engine, stored)
    BY <1>1, <2>1, <2>6, <2>7, <2>9, <2>10 DEF SaveOk
  <2> QED
    BY <1>1, <2>2, <2>11, OneSave DEF MigrationInv
<1> QED
  BY <1>2, <1>3

\* A statement leaves the list for the transaction, or because it may be left out.
LEMMA NextStatement ==
  ASSUME SaveInv, MigrationInv, NEW t \in Testers, NEW tx,
         session[t].at = "insert", session[t].todo # <<>>,
         UNCHANGED <<engine, stored>>,
         session' = [session EXCEPT ![t] = [session[t] EXCEPT !.todo = Tail(@), !.tx = tx]],
         LET m == Head(session[t].todo)
         IN  \/ tx = session[t].tx /\ m.gated
             \/ tx = session[t].tx \cup {Row(t, m)}
  PROVE  SaveInv'
<1> DEFINE s == session[t]
           record == s.job.records[Len(s.outcomes) + 1]
           must == Inserts(engine, s.job.kind, record, s.ready)
           n == [s EXCEPT !.todo = Tail(@), !.tx = tx]
           m == Head(s.todo)
<1>1. DOMAIN s = Fields /\ SaveOk(t, s, engine, stored) /\ engine \in Engines
  BY DEF MigrationInv, SessionOk, SaveInv
<1>2. /\ n.job = s.job /\ n.outcomes = s.outcomes /\ n.at = "insert" /\ n.ready = s.ready
      /\ n.tx = tx /\ n.migration = s.migration /\ n.todo = Tail(s.todo)
  BY <1>1 DEF Fields
<1>3. session' = [session EXCEPT ![t] = n]
  OBVIOUS
<1>4. /\ s.ready \in BOOLEAN /\ s.todo \in Seq(ToSet(must)) /\ Pairs(s.tx) \subseteq Rows(must)
      /\ \A x \in ToSet(must) : x \in ToSet(s.todo) \/ x.gated \/ <<x.table, x.key>> \in Pairs(s.tx)
  BY <1>1 DEF SaveOk, Progress
<1>5. record \in ToSet(s.job.records) /\ s.job \in Jobs[t]
  <2>1. /\ s.job.records \in Seq(ToSet(s.job.records))
        /\ s.outcomes \in Seq({"ok", "failed", "unknown"})
        /\ Len(s.outcomes) < Len(s.job.records) /\ s.job \in Jobs[t]
    BY <1>1, RecordsAssumption DEF SaveOk
  <2>2. Len(s.outcomes) + 1 \in DOMAIN s.job.records
    BY <2>1
  <2> QED
    BY <2>1, <2>2 DEF ToSet
<1>6. \A x \in ToSet(must) :
        /\ IdOf(x) = record.id
        /\ x.table = "RequestAttempt" /\ engine = "postgres" => x = insert_request_attempt(x.key)
  BY <1>1, <1>4, <1>5, StatementsAssumption, Zenon
<1> HIDE DEF n
<1>7. Inserts(engine, n.job.kind, n.job.records[Len(n.outcomes) + 1], n.ready) = must
  BY <1>2
<1>8. /\ m \in ToSet(must) /\ Tail(s.todo) \in Seq(ToSet(must))
      /\ \A x \in ToSet(s.todo) : x = m \/ x \in ToSet(Tail(s.todo))
  <2> HIDE DEF must
  <2> QED
    BY <1>4, HeadTail
<1> HIDE DEF must, record, m
<1>9. CASE tx = s.tx /\ m.gated
  <2>1. Progress(t, n, engine)
    BY <1>2, <1>4, <1>7, <1>8, <1>9 DEF Progress
  <2>2. \A k : OutcomeOf(n, k) = OutcomeOf(s, k)
    BY <1>2 DEF OutcomeOf
  <2>3. SaveOk(t, n, engine, stored)
    BY <1>1, <1>2, <1>9, <2>1, <2>2 DEF SaveOk
  <2> QED
    BY <1>3, <2>3, OneSave DEF MigrationInv
<1>10. CASE tx = s.tx \cup {Row(t, m)}
  <2>1. /\ Row(t, m).table = m.table /\ Row(t, m).key = m.key /\ Row(t, m).by = t
        /\ Row(t, m).columns = m.columns \cap schema
    BY DEF Row
  <2>2. Pairs(tx) = Pairs(s.tx) \cup {<<m.table, m.key>>}
    BY <1>10, <2>1 DEF Pairs
  <2>3. <<m.table, m.key>> \in Rows(must)
    BY <1>8 DEF Rows
  <2>4. Progress(t, n, engine)
    BY <1>2, <1>4, <1>7, <1>8, <2>2, <2>3 DEF Progress
  <2>5. \A k : OutcomeOf(n, k) = OutcomeOf(s, k)
    BY <1>2 DEF OutcomeOf
  <2>6. engine = "postgres" /\ s.migration = "ok" => ColumnsOk(Row(t, m))
    <3> SUFFICES ASSUME engine = "postgres", s.migration = "ok", m.table = "RequestAttempt"
                 PROVE  {"TargetUrl", "SampleIndex"} \subseteq Row(t, m).columns
      BY <2>1 DEF ColumnsOk
    <3>1. recorded = Versions
      BY DEF MigrationInv, SessionOk
    <3>2. Installs[6] \subseteq schema /\ Installs[7] \subseteq schema
      BY <3>1 DEF MigrationInv, Versions
    <3>3. "TargetUrl" \in Installs[6] /\ "SampleIndex" \in Installs[7]
      BY DEF Installs, V006, V007
    <3>4. {"TargetUrl", "SampleIndex"} \subseteq m.columns
      BY <1>6, <1>8 DEF insert_request_attempt, Statement
    <3> QED
      BY <2>1, <3>2, <3>3, <3>4
  <2>7. SaveOk(t, n, engine, stored)
    BY <1>1, <1>2, <1>10, <2>1, <2>4, <2>5, <2>6 DEF SaveOk
  <2> QED
    BY <1>3, <2>7, OneSave DEF MigrationInv
<1> QED
  BY <1>9, <1>10 DEF m

\* An inserted row, its missing optional columns dropped.
LEMMA InsertSave ==
  ASSUME SaveInv, MigrationInv, NEW t \in Testers, Insert(t)
  PROVE  SaveInv'
<1> DEFINE tx == session[t].tx \cup {Row(t, Head(session[t].todo))}
<1>1. session' = [session EXCEPT ![t] = [session[t] EXCEPT !.todo = Tail(@), !.tx = tx]]
  BY DEF Insert, Set, MigrationInv
<1>2. session[t].at = "insert" /\ session[t].todo # <<>> /\ UNCHANGED <<engine, stored>>
  BY DEF Insert, At
<1> QED
  BY <1>1, <1>2, NextStatement

\* A gated statement whose table is missing.
LEMMA SkipGatedSave ==
  ASSUME SaveInv, MigrationInv, NEW t \in Testers, SkipGated(t)
  PROVE  SaveInv'
<1>1. DOMAIN session[t] = Fields
  BY DEF MigrationInv, SessionOk
<1>2. [session[t] EXCEPT !.todo = Tail(@)] = [session[t] EXCEPT !.todo = Tail(@), !.tx = session[t].tx]
  BY <1>1 DEF Fields
<1>3. session' = [session EXCEPT ![t] = [session[t] EXCEPT !.todo = Tail(@), !.tx = session[t].tx]]
  BY <1>2 DEF SkipGated, Set, MigrationInv
<1>4. /\ session[t].at = "insert" /\ session[t].todo # <<>> /\ UNCHANGED <<engine, stored>>
      /\ Head(session[t].todo).gated
  BY DEF SkipGated, At
<1> QED
  BY <1>3, <1>4, NextStatement

\* With nothing left to do, the transaction is the record.
LEMMA CommitWhole ==
  ASSUME NEW t \in Testers, NEW s, NEW db \in Engines, NEW rows, SaveOk(t, s, db, rows),
         s.at = "insert", s.todo = <<>>
  PROVE  LET record == s.job.records[Len(s.outcomes) + 1]
         IN  Whole(db, s.job.kind, record, Kept(rows \cup s.tx, record))
<1> DEFINE i == Len(s.outcomes) + 1
           record == s.job.records[i]
           must == Inserts(db, s.job.kind, record, s.ready)
<1>1. i \in DOMAIN s.job.records /\ i \notin DOMAIN s.outcomes
  <2>1. /\ s.job.records \in Seq(ToSet(s.job.records))
        /\ s.outcomes \in Seq({"ok", "failed", "unknown"})
        /\ Len(s.outcomes) < Len(s.job.records)
    BY RecordsAssumption DEF SaveOk
  <2> QED
    BY <2>1
<1>2. \A r \in s.tx : IdOf(r) = record.id
  BY TxKeyed
<1>3. /\ s.ready \in BOOLEAN /\ Pairs(s.tx) \subseteq Rows(must)
      /\ \A x \in ToSet(must) : x \in ToSet(s.todo) \/ x.gated \/ <<x.table, x.key>> \in Pairs(s.tx)
  BY DEF SaveOk, Progress
<1> HIDE DEF i
<1>4. OutcomeOk(db, s.job.kind, record, Kept(rows, record), "none")
  BY <1>1 DEF SaveOk, OutcomeOf
<1>5. Kept(rows, record) = {}
  BY <1>4 DEF OutcomeOk
<1> HIDE DEF record
<1>6. Kept(rows \cup s.tx, record) = Pairs(s.tx)
  BY <1>2, <1>5 DEF Kept, Pairs
<1>7. ToSet(s.todo) = {}
  BY DEF ToSet
<1>8. Whole(db, s.job.kind, record, Pairs(s.tx))
  BY <1>3, <1>7 DEF Whole
<1> QED
  BY <1>6, <1>8 DEF record, i

\* COMMIT stores the record whole.
LEMMA CommitSave ==
  ASSUME SaveInv, MigrationInv, NEW t \in Testers, Commit(t)
  PROVE  SaveInv'
<1>1. /\ session[t].at = "insert" /\ session[t].todo = <<>> /\ UNCHANGED engine
      /\ stored' = stored \cup session[t].tx /\ Saved(t, "ok")
  BY DEF Commit, At
<1>2. SaveOk(t, session[t], engine, stored) /\ engine \in Engines
  BY DEF SaveInv
<1> DEFINE record == session[t].job.records[Len(session[t].outcomes) + 1]
<1>3. Whole(engine, session[t].job.kind, record, Kept(stored', record))
  BY <1>1, <1>2, CommitWhole
<1>4. OutcomeOk(engine, session[t].job.kind, record, Kept(stored', record), "ok")
  BY <1>3 DEF OutcomeOk
<1> QED
  BY <1>1, <1>4, SavedSave

\* The elements of a concatenation.
LEMMA Concat ==
  ASSUME NEW S, NEW p \in Seq(S), NEW q \in Seq(S)
  PROVE  /\ p \o q \in Seq(S) /\ Len(p \o q) = Len(p) + Len(q)
         /\ DOMAIN (p \o q) = 1..(Len(p) + Len(q))
         /\ \A i \in 1..Len(p) : (p \o q)[i] = p[i]
         /\ \A i \in (Len(p) + 1)..(Len(p) + Len(q)) : (p \o q)[i] = q[i - Len(p)]
OBVIOUS

\* Positions after the first k.
LEMMA Offset ==
  ASSUME NEW k \in Nat, NEW l \in Nat, NEW i \in 1..l, i > k
  PROVE  i \in (k + 1)..l /\ i - k \in 1..(l - k) /\ (i - k = 1 <=> i = k + 1)
OBVIOUS

\* A session s cut off becomes n: the save it was in has this outcome, the ones
\* to follow have failed.
CutOff(s, n, rows, more, first, failed) ==
  /\ s.at # "exit" /\ first \in {"unknown", "failed"}
  /\ first = "unknown" => s.at = "insert" /\ s.todo = <<>>
  /\ more = rows \/ (first = "unknown" /\ more = rows \cup s.tx)
  /\ n.job = s.job /\ n.at = "exit" /\ n.tx = {}
  /\ n.migration = s.migration \/ n.migration = "failed"
  /\ failed \in Seq({"ok", "failed", "unknown"})
  /\ Len(failed) = Len(s.job.records) - Len(s.outcomes)
  /\ \A i \in 1..Len(failed) : failed[i] = IF i = 1 THEN first ELSE "failed"
  /\ n.outcomes = s.outcomes \o failed

\* A lost connection fails the save it interrupts and all that were to follow;
\* only that of an open COMMIT is unknown.
LEMMA LostOutcomes ==
  ASSUME NEW t \in Testers, NEW s, NEW n, NEW db \in Engines, NEW rows, NEW more,
         NEW first, NEW failed, SaveOk(t, s, db, rows), CutOff(s, n, rows, more, first, failed)
  PROVE  SaveOk(t, n, db, more)
<1> USE DEF CutOff
<1> DEFINE k == Len(s.outcomes)
           l == Len(s.job.records)
<1>1. /\ s.job.records \in Seq(ToSet(s.job.records)) /\ s.job \in Jobs[t]
      /\ s.outcomes \in Seq({"ok", "failed", "unknown"})
      /\ Len(s.outcomes) < Len(s.job.records)
  BY RecordsAssumption DEF SaveOk
<1>2. /\ k \in Nat /\ l \in Nat /\ k < l /\ Len(failed) = l - k
      /\ DOMAIN s.job.records = 1..l /\ DOMAIN s.outcomes = 1..k
  BY <1>1
<1>3. /\ n.outcomes \in Seq({"ok", "failed", "unknown"}) /\ Len(n.outcomes) = k + Len(failed)
      /\ DOMAIN n.outcomes = 1..(k + Len(failed))
      /\ \A i \in 1..k : n.outcomes[i] = s.outcomes[i]
      /\ \A i \in (k + 1)..(k + Len(failed)) : n.outcomes[i] = failed[i - k]
  BY <1>1, Concat
<1> HIDE DEF k, l
<1>4. /\ Len(n.outcomes) = l /\ DOMAIN n.outcomes = 1..l
      /\ \A i \in (k + 1)..l : n.outcomes[i] = failed[i - k]
  <2>1. k + (l - k) = l
    BY <1>2
  <2>2. k + Len(failed) = l
    BY <1>2, <2>1
  <2> QED
    BY <1>3, <2>2
<1>5. ASSUME NEW i \in DOMAIN s.job.records
      PROVE  OutcomeOk(db, s.job.kind, s.job.records[i], Kept(more, s.job.records[i]), OutcomeOf(n, i))
  <2> DEFINE record == s.job.records[i]
  <2>1. i \in 1..l
    BY <1>2
  <2>2. OutcomeOk(db, s.job.kind, record, Kept(rows, record), OutcomeOf(s, i))
    BY DEF SaveOk
  <2>3. ASSUME i > k
        PROVE  /\ Kept(rows, record) = {}
               /\ OutcomeOf(n, i) = IF i = k + 1 THEN first ELSE "failed"
    <3>1. OutcomeOf(s, i) = "none"
      BY <1>2, <2>1, <2>3 DEF OutcomeOf
    <3>2. i \in (k + 1)..l /\ i - k \in 1..(l - k) /\ (i - k = 1 <=> i = k + 1)
      BY <1>2, <2>1, <2>3, Offset
    <3>3. n.outcomes[i] = IF i = k + 1 THEN first ELSE "failed"
      BY <1>2, <1>4, <3>2
    <3> QED
      BY <1>4, <2>1, <2>2, <3>1, <3>3 DEF OutcomeOf, OutcomeOk
  <2>4. CASE i # k + 1
    <3>1. ASSUME NEW r \in more \ rows
          PROVE  IdOf(r) # record.id
      <4>1. k + 1 \in DOMAIN s.job.records /\ IdOf(r) = s.job.records[k + 1].id
        BY TxKeyed DEF k
      <4> QED
        BY <1>1, <2>4, <4>1, RecordsAssumption
    <3>2. Kept(more, record) = Kept(rows, record)
      BY <3>1, KeptSame
    <3>3. CASE i \in 1..k
      <4>1. OutcomeOf(n, i) = OutcomeOf(s, i)
        BY <1>2, <1>3, <1>4, <2>1, <3>3 DEF OutcomeOf
      <4> QED
        BY <2>2, <3>2, <4>1
    <3>4. CASE i > k
      BY <2>3, <2>4, <3>2, <3>4 DEF OutcomeOk
    <3> QED
      BY <1>2, <2>1, <3>3, <3>4
  <2>5. CASE i = k + 1
    <3>1. Kept(rows, record) = {} /\ OutcomeOf(n, i) = first
      BY <1>2, <2>3, <2>5
    <3>2. CASE first = "failed"
      BY <3>1, <3>2 DEF OutcomeOk
    <3>3. CASE first = "unknown"
      <4>1. Kept(more, record) = {} \/ Whole(db, s.job.kind, record, Kept(more, record))
        BY <2>5, <3>1, <3>3, CommitWhole DEF k
      <4> QED
        BY <3>1, <3>3, <4>1 DEF OutcomeOk
    <3> QED
      BY <3>2, <3>3
  <2> QED
    BY <2>4, <2>5
<1>6. \A r \in more : r.by = t => r \in s.tx \cup {q \in rows : q.by = t}
  OBVIOUS
<1>7. Len(n.outcomes) <= Len(n.job.records)
  BY <1>2, <1>4 DEF l
<1>8. db = "postgres" /\ n.migration = "ok" =>
        \A r \in n.tx \cup {q \in more : q.by = t} : ColumnsOk(r)
  BY <1>6 DEF SaveOk
<1> QED
  BY <1>1, <1>3, <1>5, <1>7, <1>8 DEF SaveOk

\* The connection is lost, with or without the commit.
LEMMA ConnectionLostSave ==
  ASSUME SaveInv, MigrationInv, NEW t \in Testers, ConnectionLost(t)
  PROVE  SaveInv'
<1> DEFINE s == session[t]
           committing == At(t, "insert") /\ s.todo = <<>>
           failed == [i \in 1..(Len(Job(t).records) - Len(s.outcomes)) |->
                        IF i = 1 /\ committing THEN "unknown" ELSE "failed"]
           n == [s EXCEPT !.at = "exit", !.connected = FALSE, !.tx = {}, !.hurt = TRUE,
                           !.outcomes = @ \o failed,
                           !.exit = IF Insistent(t) THEN "error" ELSE "ok",
                           !.migration =
                             IF s.at \in {"lock", "check", "apply", "record", "unlock"}
                             THEN "failed" ELSE @]
<1>1. DOMAIN s = Fields /\ SaveOk(t, s, engine, stored) /\ engine \in Engines
  BY DEF MigrationInv, SessionOk, SaveInv
<1>2. /\ session' = [session EXCEPT ![t] = n] /\ s.at # "exit" /\ UNCHANGED engine
      /\ stored' = stored \/ (committing /\ stored' = stored \cup s.tx)
  BY DEF ConnectionLost, Set
<1> DEFINE first == IF committing THEN "unknown" ELSE "failed"
<1>3. /\ first \in {"unknown", "failed"} /\ (committing <=> first = "unknown")
      /\ first = "unknown" => s.at = "insert" /\ s.todo = <<>>
  BY DEF At
<1>4. failed = [i \in 1..(Len(s.job.records) - Len(s.outcomes)) |->
                  IF i = 1 THEN first ELSE "failed"]
  BY DEF Job
<1>5. stored' = stored \/ (first = "unknown" /\ stored' = stored \cup s.tx)
  BY <1>2, <1>3
<1> HIDE DEF committing, first, failed
<1>6. /\ failed \in Seq({"ok", "failed", "unknown"})
      /\ Len(failed) = Len(s.job.records) - Len(s.outcomes)
      /\ \A i \in 1..Len(failed) : failed[i] = IF i = 1 THEN first ELSE "failed"
  <2>1. Len(s.job.records) - Len(s.outcomes) \in Nat
    <3>1. /\ s.job.records \in Seq(ToSet(s.job.records))
          /\ s.outcomes \in Seq({"ok", "failed", "unknown"})
          /\ Len(s.outcomes) <= Len(s.job.records)
      BY <1>1, RecordsAssumption DEF SaveOk
    <3> QED
      BY <3>1
  <2> DEFINE d == Len(s.job.records) - Len(s.outcomes)
  <2> HIDE DEF d
  <2>2. \A i \in 1..d : failed[i] = IF i = 1 THEN first ELSE "failed"
    BY <1>4 DEF d
  <2>3. failed = [i \in 1..d |-> failed[i]] /\ d \in Nat
    BY <1>4, <2>1 DEF d
  <2>4. failed \in Seq({"ok", "failed", "unknown"}) /\ Len(failed) = d
    BY <1>3, <2>2, <2>3
  <2> QED
    BY <2>2, <2>4 DEF d
<1>7. /\ n.job = s.job /\ n.at = "exit" /\ n.tx = {} /\ n.outcomes = s.outcomes \o failed
      /\ n.migration = s.migration \/ n.migration = "failed"
  BY <1>1 DEF Fields
<1> HIDE DEF n
<1>8. SaveOk(t, n, engine, stored')
  <2>1. s.at # "exit"
    BY <1>2
  <2> HIDE DEF s
  <2> QED
    <3>1. CutOff(s, n, stored, stored', first, failed)
      BY <1>3, <1>5, <1>6, <1>7, <2>1 DEF CutOff
    <3> QED
      BY <1>1, <3>1, LostOutcomes
<1> QED
  BY <1>2, <1>8, OneSave DEF MigrationInv

\* A statement fails: of the migration, or of a save, which is rolled back.
LEMMA StatementFailsSave ==
  ASSUME SaveInv, MigrationInv, NEW t \in Testers, StatementFails(t)
  PROVE  SaveInv'
<1>1. CASE (At(t, "ready") \/ At(t, "insert")) /\ Rollback(t)
  BY <1>1, FailedSave DEF StatementFails, Rollback, At
<1>2. CASE /\ session[t].at \in {"check", "apply", "record"}
           /\ Set(t, [session[t] EXCEPT !.at = "unlock", !.migration = "failed", !.hurt = TRUE])
           /\ UNCHANGED <<advisory, stored>>
  <2> DEFINE n == [session[t] EXCEPT !.at = "unlock", !.migration = "failed", !.hurt = TRUE]
  <2>1. DOMAIN session[t] = Fields /\ SaveOk(t, session[t], engine, stored)
    BY DEF MigrationInv, SessionOk, SaveInv
  <2>2. /\ n.job = session[t].job /\ n.outcomes = session[t].outcomes /\ n.at = "unlock"
        /\ n.tx = session[t].tx /\ n.migration = "failed"
    BY <2>1 DEF Fields
  <2>3. session' = [session EXCEPT ![t] = n] /\ UNCHANGED <<engine, stored>>
    BY <1>2 DEF StatementFails, Set
  <2> HIDE DEF n
  <2>4. session[t].tx = {}
    BY <1>2, <2>1 DEF SaveOk
  <2> QED
    BY <1>2, <2>2, <2>3, <2>4, QuietStep
<1>3. CASE session[t].at = "unlock" /\ UnlockFailed(t)
  <2> DEFINE n == UnlockFailedSession(t)
  <2>1. DOMAIN session[t] = Fields /\ SaveOk(t, session[t], engine, stored)
    BY DEF MigrationInv, SessionOk, SaveInv
  <2>2. /\ n.job = session[t].job /\ n.outcomes = session[t].outcomes /\ n.at \in {"ready", "exit"}
        /\ n.tx = session[t].tx /\ n.migration = "failed"
    BY <2>1 DEF Fields, UnlockFailedSession
  <2>3. session' = [session EXCEPT ![t] = n] /\ UNCHANGED <<engine, stored>>
    BY <1>3 DEF StatementFails, Set, UnlockFailed
  <2> HIDE DEF n
  <2>4. session[t].tx = {}
    BY <1>3, <2>1 DEF SaveOk
  <2> QED
    BY <1>3, <2>2, <2>3, <2>4, QuietStep
<1> QED
  BY <1>1, <1>2, <1>3, UnlockFails DEF StatementFails, At

\* Every step of a tester at the database, and every fault it meets.
LEMMA StoreSave ==
  ASSUME SaveInv, MigrationInv, NEW t \in Testers, StoreStep(t) \/ StoreFault(t)
  PROVE  SaveInv'
<1>1. CASE ConnectFails(t) \/ TesterKilled(t)
  BY <1>1, QuitSave DEF ConnectFails, TesterKilled
<1>2. CASE SchemaRefuses(t)
  BY <1>2, FailedSave DEF SchemaRefuses, Rollback, At
<1> QED
  BY <1>1, <1>2, MigrationSave, BeginSaveSave, InsertSave, SkipGatedSave, CommitSave,
     StatementFailsSave, ConnectionLostSave DEF StoreStep, StoreFault

-----------------------------------------------------------------------------
(***************************************************************************)
(* What is saved is delivered.                                             *)
(***************************************************************************)
\* The jobs have records, a whole number of them.
LEMMA TargetsType == SaveInv => Targets \in Nat \ {0}
<1> SUFFICES ASSUME SaveInv PROVE Targets \in Nat \ {0}
  OBVIOUS
<1>1. session[Cli].job \in Jobs[Cli]
  BY CliAssumption DEF SaveInv, SaveOk
<1>2. session[Cli].job.records \in Seq(ToSet(session[Cli].job.records))
      /\ session[Cli].job.records # <<>>
  BY <1>1, CliAssumption, RecordsAssumption
<1> QED
  BY <1>2 DEF Targets, Job

\* The invariant says more than the property.
LEMMA DeliveryFollows == SaveInv /\ DeliveryInv => ResultsDelivered
<1> SUFFICES ASSUME SaveInv, DeliveryInv PROVE ResultsDelivered
  OBVIOUS
<1>1. AllFiles => ToSet(Wanted) \subseteq files
  BY DEF AllFiles, ToSet, Wanted
<1>2. session[Cli].exit = "ok" => printed # "nothing" \/ AllFiles
  BY DEF DeliveryInv
<1>3. ASSUME NEW i \in 1..Targets, Stored(Job(Cli).records[i]) # {}
      PROVE  Wanted[i] \in files
  <2>1. stored # {}
    BY <1>3 DEF Stored
  <2>2. AllFiles
    BY <2>1 DEF DeliveryInv
  <2> QED
    BY <2>2 DEF AllFiles, Wanted
<1> QED
  BY <1>1, <1>2, <1>3 DEF ResultsDelivered

\* No step at the database changes a job.
LEMMA JobsStay ==
  ASSUME MigrationInv, NEW t \in Testers, StoreStep(t) \/ StoreFault(t), NEW o \in Testers
  PROVE  session[o].job' = session[o].job
<1>1. DOMAIN session[t] = Fields /\ DOMAIN session = Testers
  BY DEF MigrationInv, SessionOk
<1>2. ASSUME NEW n, Set(t, n), n.job = session[t].job
      PROVE  session[o].job' = session[o].job
  BY <1>1, <1>2 DEF Set
<1>3. ASSUME NEW code, Quit(t, code) PROVE session[o].job' = session[o].job
  BY <1>1, <1>2, <1>3 DEF Quit, Fields
<1>4. ASSUME NEW outcome, Saved(t, outcome) PROVE session[o].job' = session[o].job
  BY <1>1, <1>2, <1>4 DEF Saved, Fields
<1>5. ASSUME NEW p, Go(t, p) PROVE session[o].job' = session[o].job
  BY <1>1, <1>2, <1>5 DEF Go, Fields
<1>6. ASSUME NEW result, Migrated(t, result) PROVE session[o].job' = session[o].job
  BY <1>1, <1>2, <1>6 DEF Migrated, Fields
<1>7. CASE \/ ConnectFails(t) \/ AdvisoryLock(t) \/ ApplyVersion(t) \/ AdvisoryUnlock(t)
           \/ SchemaRefuses(t) \/ Commit(t) \/ TesterKilled(t)
  BY <1>3, <1>4, <1>5, <1>7 DEF ConnectFails, AdvisoryLock, ApplyVersion, AdvisoryUnlock,
     SchemaRefuses, Rollback, Commit, TesterKilled
<1>8. CASE Connect(t) \/ SkipGated(t) \/ Insert(t)
  BY <1>1, <1>2, <1>8 DEF Connect, SkipGated, Insert, Fields
<1>9. CASE CheckVersion(t) \/ RecordVersion(t)
  BY <1>1, <1>2, <1>5, <1>6, <1>9 DEF CheckVersion, RecordVersion, Fields
<1>10. CASE BeginSave(t)
  BY <1>1, <1>2, <1>4, <1>10 DEF BeginSave, Fields
<1>11. CASE StatementFails(t)
  <2>1. CASE session[t].at = "unlock"
    <3>1. UnlockFailedSession(t).job = session[t].job
      BY <1>1 DEF UnlockFailedSession, Fields
    <3> QED
      BY <1>2, <1>11, <2>1, <3>1, UnlockFails DEF UnlockFailed
  <2>2. CASE session[t].at # "unlock"
    BY <1>1, <1>2, <1>4, <1>11, <2>2 DEF StatementFails, Rollback, At, Fields
  <2> QED
    BY <2>1, <2>2
<1>12. CASE ConnectionLost(t)
  BY <1>1, <1>2, <1>12 DEF ConnectionLost, Fields
<1> QED
  BY <1>7, <1>8, <1>9, <1>10, <1>11, <1>12 DEF StoreStep, StoreFault

\* Nothing is stored or written at the start.
LEMMA WholeInit == Init => WholeInv
<1> SUFFICES ASSUME Init PROVE WholeInv
  OBVIOUS
<1> DEFINE Fresh(o) ==
             [at : {"connect"}, job : Jobs[o], connected : {FALSE},
                                 tx : {{}}, todo : {<<>>}, version : {1}, ready : {FALSE},
                                 migration : {"none"}, outcomes : {<<>>}, hurt : {FALSE},
                                 exit : {"none"}]
<1>1. /\ session \in [Testers -> UNION {Fresh(o) : o \in Testers}]
      /\ \A t \in Testers : session[t].job \in Jobs[t]
      /\ stored = {} /\ engine = AnyOf(Seeds).engine
      /\ stage = "capture" /\ files = {}
  BY DEF Init, StoreInit
<1>2. ASSUME NEW t \in Testers
      PROVE  /\ session[t].at = "connect" /\ session[t].tx = {} /\ session[t].outcomes = <<>>
             /\ session[t].migration = "none" /\ session[t].exit = "none"
  <2>1. \A o \in Testers : \A r \in Fresh(o) :
          /\ r.at = "connect" /\ r.tx = {} /\ r.outcomes = <<>>
          /\ r.migration = "none" /\ r.exit = "none"
    OBVIOUS
  <2> HIDE DEF Fresh
  <2> QED
    BY <1>1, <2>1
<1> HIDE DEF Fresh
<1>3. engine \in Engines
  <2>1. AnyOf(Seeds) \in Seeds
    BY SeedsAssumption DEF AnyOf
  <2> QED
    BY <1>1, <2>1, SeedsAssumption
<1>4. ASSUME NEW t \in Testers
      PROVE  SaveOk(t, session[t], engine, stored)
  <2>1. /\ session[t].job.records \in Seq(ToSet(session[t].job.records))
        /\ session[t].job.records # <<>>
    BY <1>1, RecordsAssumption, SMTT(20)
  <2>2. Len(session[t].job.records) \in Nat \ {0}
    BY <2>1
  <2>3. \A record : Kept(stored, record) = {}
    BY <1>1 DEF Kept, Pairs
  <2>4. \A i : OutcomeOf(session[t], i) = "none"
    BY <1>2 DEF OutcomeOf
  <2>5. session[t].outcomes \in Seq({"ok", "failed", "unknown"}) /\ Len(session[t].outcomes) = 0
    <3>1. <<>> \in Seq({"ok", "failed", "unknown"}) /\ Len(<<>>) = 0
      OBVIOUS
    <3>2. session[t].outcomes = <<>>
      BY <1>2
    <3> QED
      BY <3>1, <3>2
  <2> QED
    BY <1>1, <1>2, <2>2, <2>3, <2>4, <2>5 DEF SaveOk, OutcomeOk
<1>5. SaveInv
  BY <1>1, <1>3, <1>4 DEF SaveInv
<1>6. Targets \in Nat
  BY <1>5, TargetsType
<1>7. DeliveryInv
  BY <1>1, <1>2, <1>6, CliAssumption, FS_EmptySet DEF DeliveryInv
<1> QED
  BY <1>5, <1>7, OutputInit DEF WholeInv

\* A tester that leaves before it turned to the database, its files as they are.
LEMMA ExitWhole ==
  ASSUME WholeInv, NEW code, ExitCli(code), UNCHANGED files,
         stage \notin {"database", "over"},
         code = "ok" => printed' # "nothing" \/ AllFiles
  PROVE  WholeInv'
<1> DEFINE n == [session[Cli] EXCEPT !.at = "exit", !.exit = code]
<1>1. /\ DOMAIN session[Cli] = Fields /\ SaveOk(Cli, session[Cli], engine, stored)
      /\ session[Cli].at = "connect" /\ DOMAIN session = Testers
  BY CliAssumption DEF WholeInv, OutputInv, Untouched, MigrationInv, SessionOk, SaveInv
<1>2. session[Cli].tx = {}
  BY <1>1 DEF SaveOk
<1>3. /\ n.job = session[Cli].job /\ n.outcomes = session[Cli].outcomes /\ n.at = "exit"
      /\ n.tx = {} /\ n.migration = session[Cli].migration /\ n.exit = code
  BY <1>1, <1>2 DEF Fields
<1>4. session' = [session EXCEPT ![Cli] = n] /\ UNCHANGED <<engine, stored>> /\ stage' = "over"
  BY <1>1, CliAssumption DEF ExitCli
<1> HIDE DEF n
<1>5. SaveInv'
  BY <1>3, <1>4, CliAssumption, QuietStep DEF WholeInv, OutputInv
<1>6. session[Cli].job' = session[Cli].job /\ session[Cli].exit' = code
  BY <1>1, <1>3, <1>4, CliAssumption
<1>7. Targets' = Targets /\ AllFiles' = AllFiles
  BY <1>6 DEF Targets, Job, AllFiles
<1>8. DeliveryInv'
  BY <1>4, <1>6, <1>7 DEF DeliveryInv, WholeInv
<1> QED
  BY <1>5, <1>8, ExitInv DEF WholeInv

\* The command line turns to the database with its artifacts written.
LEMMA ReportsWhole ==
  ASSUME WholeInv, WriteReports
  PROVE  WholeInv'
<1>1. UNCHANGED files /\ UNCHANGED printed /\ stage = "report"
  BY DEF WriteReports
<1>2. CASE ExitCli("error")
  BY <1>1, <1>2, ExitWhole
<1>3. CASE /\ stage' = "database" /\ UNCHANGED <<recorded, advisory, stored, session, faults>>
           /\ \E seed \in Seeds : engine' = seed.engine /\ schema' = seed.schema
  <2>1. Untouched /\ stored = {} /\ AllFiles
    BY <1>1 DEF WholeInv, OutputInv, DeliveryInv
  <2>2. engine' \in Engines
    BY <1>3, SeedsAssumption
  <2>3. ASSUME NEW t \in Testers
        PROVE  SaveOk(t, session[t], engine', stored)
    <3>1. SaveOk(t, session[t], engine, stored) /\ session[t].at = "connect"
      BY <2>1 DEF WholeInv, SaveInv, Untouched
    <3>2. session[t].outcomes = <<>> /\ session[t].tx = {}
      BY <3>1 DEF SaveOk
    <3>3. \A record : Kept(stored, record) = {}
      BY <2>1 DEF Kept, Pairs
    <3>4. \A i : OutcomeOf(session[t], i) = "none"
      BY <3>2 DEF OutcomeOf
    <3> QED
      BY <2>1, <3>1, <3>2, <3>3, <3>4 DEF SaveOk, OutcomeOk
  <2>4. SaveInv'
    BY <1>3, <2>1, <2>2, <2>3 DEF SaveInv
  <2>5. Targets' = Targets /\ AllFiles'
    BY <1>1, <1>3, <2>1 DEF Targets, Job, AllFiles
  <2>6. DeliveryInv'
    BY <1>1, <1>3, <2>5 DEF DeliveryInv, WholeInv
  <2> QED
    BY <2>4, <2>6, ReportsInv DEF WholeInv
<1> QED
  BY <1>2, <1>3 DEF WriteReports

\* One artifact more.
LEMMA SaveJsonWhole ==
  ASSUME WholeInv, SaveJson
  PROVE  WholeInv'
<1>1. stage = "artifacts" /\ UNCHANGED printed
  BY DEF SaveJson
<1>2. CASE ExitCli("error") /\ UNCHANGED files
  BY <1>1, <1>2, ExitWhole
<1>3. CASE files' = files \cup {Wanted[NextJson]} /\ UNCHANGED <<stage, storevars>>
  <2> DEFINE k == Cardinality(files)
  <2>1. /\ IsFiniteSet(files) /\ k \in 0..Targets /\ files = {<<"json", i>> : i \in 1..k}
        /\ Targets \in Nat /\ k + 1 <= Targets
    BY TargetsType DEF WholeInv, DeliveryInv, SaveJson, NextJson
  <2> HIDE DEF k
  <2>2. k + 1 \in 1..Targets /\ files' = files \cup {<<"json", k + 1>>}
    BY <1>3, <2>1 DEF Wanted, NextJson, k
  <2>3. <<"json", k + 1>> \notin files
    BY <2>1
  <2>4. IsFiniteSet(files') /\ Cardinality(files') = k + 1
    BY <2>1, <2>2, <2>3, FS_AddElement DEF k
  <2>5. 1..(k + 1) = (1..k) \cup {k + 1}
    BY <2>1
  <2>6. files' = {<<"json", i>> : i \in 1..(k + 1)}
    BY <2>1, <2>2, <2>5
  <2>7. UNCHANGED <<session, stored, engine>>
    BY <1>3 DEF storevars
  <2>8. Targets' = Targets
    BY <2>7 DEF Targets, Job
  <2>9. DeliveryInv'
    <3>1. IsFiniteSet(files)' /\ Cardinality(files)' = k + 1 /\ k + 1 \in 0..Targets
      BY <2>2, <2>4
    <3>2. stage' = "artifacts"
      BY <1>1, <1>3
    <3> QED
      BY <1>1, <2>6, <2>7, <2>8, <3>1, <3>2 DEF DeliveryInv, WholeInv
  <2>10. SaveInv'
    BY <2>7 DEF SaveInv, WholeInv
  <2> QED
    BY <1>3, <2>9, <2>10, ElsewhereInv DEF WholeInv
<1> QED
  BY <1>2, <1>3 DEF SaveJson

\* With as many artifacts as targets, all are written.
LEMMA ArtifactsWhole ==
  ASSUME WholeInv, ArtifactsSaved
  PROVE  WholeInv'
<1>1. /\ stage = "artifacts" /\ stage' = "report" /\ UNCHANGED <<files, printed, storevars>>
      /\ Cardinality(files) + 1 > Targets
  BY DEF ArtifactsSaved, NextJson
<1>2. Cardinality(files) = Targets
  BY <1>1, TargetsType DEF WholeInv, DeliveryInv
<1>3. AllFiles
  BY <1>2 DEF WholeInv, DeliveryInv, AllFiles
<1>4. UNCHANGED <<session, stored, engine>>
  BY <1>1 DEF storevars
<1>5. Targets' = Targets
  BY <1>4 DEF Targets, Job
<1>6. AllFiles'
  BY <1>1, <1>3, <1>5 DEF AllFiles
<1>7. DeliveryInv' /\ SaveInv'
  BY <1>1, <1>4, <1>5, <1>6 DEF DeliveryInv, SaveInv, WholeInv
<1> QED
  BY <1>1, <1>7, ElsewhereInv DEF WholeInv

\* A step of the capture, of the measurements or of nobody.
LEMMA ElsewhereWhole ==
  ASSUME WholeInv, UNCHANGED <<files, storevars>>,
         \/ UNCHANGED <<stage, printed>>
         \/ /\ stage \notin {"database", "over"} /\ UNCHANGED printed
            /\ stage' \notin {"report", "database", "over"}
  PROVE  WholeInv'
<1>1. UNCHANGED <<session, stored, engine>>
  BY DEF storevars
<1>2. Targets' = Targets /\ AllFiles' = AllFiles
  BY <1>1 DEF Targets, Job, AllFiles
<1>3. DeliveryInv' /\ SaveInv'
  BY <1>1, <1>2 DEF DeliveryInv, SaveInv, WholeInv
<1>4. OutputInv'
  BY ElsewhereInv DEF WholeInv
<1> QED
  BY <1>3, <1>4 DEF WholeInv

\* One case per part of the tester.
LEMMA WholeNext == WholeInv /\ [Next]_vars => WholeInv'
<1> SUFFICES ASSUME WholeInv, [Next]_vars PROVE WholeInv'
  OBVIOUS
<1>1. CASE CliStep
  <2>1. CASE WorkFails
    BY <2>1, ExitWhole DEF WorkFails, Abandon
  <2>2. CASE PrintJson
    BY <2>2, ExitWhole DEF PrintJson
  <2>3. CASE NoDatabase
    <3>1. AllFiles
      BY <2>3 DEF NoDatabase, WholeInv, DeliveryInv
    <3> QED
      BY <2>3, <3>1, ExitWhole DEF NoDatabase
  <2>4. CASE BeginWork \/ MeasureTarget \/ WorkDone \/ Finalized \/ Validated
    <3>1. UNCHANGED <<files, printed, storevars>> /\ stage \notin {"database", "over"}
      BY <2>4 DEF BeginWork, MeasureTarget, WorkDone, Finalized, Validated
    <3>2. stage' \notin {"report", "database", "over"}
      BY <2>4 DEF BeginWork, MeasureTarget, WorkDone, Finalized, Validated
    <3> QED
      BY <3>1, <3>2, ElsewhereWhole
  <2> QED
    BY <1>1, <2>1, <2>2, <2>3, <2>4, SaveJsonWhole, ArtifactsWhole, ReportsWhole DEF CliStep
<1>2. CASE CaptureStep \/ UrlStep \/ ProfileStep \/ Tshark \/ Over \/ UNCHANGED vars
  <2>1. UNCHANGED <<files, storevars, stage, printed>>
    BY <1>2 DEF CaptureStep, UrlStep, ProfileStep, Tshark, Over, vars, Ours, mainvars
  <2> QED
    BY <2>1, ElsewhereWhole
<1>3. ASSUME NEW t \in Testers, Database(t) \/ DatabaseFault(t)
      PROVE  WholeInv'
  <2>1. /\ StoreStep(t) \/ StoreFault(t)
        /\ stage = "database" /\ UNCHANGED <<stage, files, printed>>
    BY <1>3 DEF Database, DatabaseFault, Sharing, mainvars
  <2>2. MigrationInv' /\ SaveInv'
    BY <2>1, StoreInv, StoreSave DEF WholeInv, OutputInv
  <2>3. session[Cli].job' = session[Cli].job
    BY <2>1, JobsStay, CliAssumption DEF WholeInv, OutputInv
  <2>4. Targets' = Targets /\ AllFiles' = AllFiles
    BY <2>1, <2>3 DEF Targets, Job, AllFiles
  <2>5. DeliveryInv' /\ OutputInv'
    BY <2>1, <2>2, <2>4 DEF DeliveryInv, OutputInv, WholeInv
  <2> QED
    BY <2>2, <2>5 DEF WholeInv
<1> QED
  BY <1>1, <1>2, <1>3 DEF Next

-----------------------------------------------------------------------------
\* A session changes, its transaction grows by rows with their JSON at most, and
\* the column is not added under it.
LEMMA JsonStays ==
  ASSUME JsonInv, DOMAIN session = Testers, NEW t \in Testers, NEW n,
         session' = [session EXCEPT ![t] = n], engine' = engine,
         "extra_json" \in schema' => "extra_json" \in schema,
         stored' \subseteq stored \cup session[t].tx,
         engine = "postgres" /\ "extra_json" \in schema =>
           \A r \in n.tx : r \in session[t].tx \/ HasJson(r)
  PROVE  JsonInv'
<1> SUFFICES ASSUME engine = "postgres", "extra_json" \in schema, NEW o \in Testers,
                    NEW r \in stored' \cup session'[o].tx
             PROVE  HasJson(r)
  BY DEF JsonInv, HasJson
<1>1. \A p \in Testers : \A q \in stored \cup session[p].tx : HasJson(q)
  BY DEF JsonInv
<1>2. CASE r \in stored'
  BY <1>1, <1>2
<1>3. CASE r \in session'[o].tx
  BY <1>1, <1>3
<1> QED
  BY <1>2, <1>3

\* The row of a statement of the save under way.
LEMMA RowHasJson ==
  ASSUME SaveInv, NEW t \in Testers, session[t].at = "insert", session[t].todo # <<>>,
         engine = "postgres", "extra_json" \in schema
  PROVE  HasJson(Row(t, Head(session[t].todo)))
<1> DEFINE s == session[t]
           record == s.job.records[Len(s.outcomes) + 1]
           must == Inserts(engine, s.job.kind, record, s.ready)
           m == Head(s.todo)
<1>1. SaveOk(t, s, engine, stored) /\ engine \in Engines
  BY DEF SaveInv
<1>2. s.ready \in BOOLEAN /\ s.todo \in Seq(ToSet(must))
  BY <1>1 DEF SaveOk, Progress
<1>3. record \in ToSet(s.job.records) /\ s.job \in Jobs[t]
  <2>1. /\ s.job.records \in Seq(ToSet(s.job.records))
        /\ s.outcomes \in Seq({"ok", "failed", "unknown"})
        /\ Len(s.outcomes) < Len(s.job.records) /\ s.job \in Jobs[t]
    BY <1>1, RecordsAssumption DEF SaveOk
  <2>2. Len(s.outcomes) + 1 \in DOMAIN s.job.records
    BY <2>1
  <2> QED
    BY <2>1, <2>2 DEF ToSet
<1>4. \A x \in ToSet(must) : x.table = "RequestAttempt" => x = insert_request_attempt(x.key)
  <2>1. \A x \in ToSet(must) :
          /\ IdOf(x) = record.id
          /\ x.table = "RequestAttempt" /\ engine = "postgres" => x = insert_request_attempt(x.key)
    BY <1>1, <1>2, <1>3, StatementsAssumption, Zenon
  <2> QED
    BY <2>1
<1>5. m \in ToSet(must)
  <2> HIDE DEF must
  <2> QED
    BY <1>2, HeadTail
<1>6. Row(t, m).table = m.table /\ Row(t, m).columns = m.columns \cap schema
  BY DEF Row
<1>7. ASSUME m.table = "RequestAttempt" PROVE "extra_json" \in m.columns
  <2>1. m = insert_request_attempt(m.key)
    BY <1>4, <1>5, <1>7
  <2>2. insert_request_attempt(m.key).columns = {"TargetUrl", "SampleIndex", "extra_json"}
    BY DEF insert_request_attempt, Statement
  <2> HIDE DEF m
  <2> QED
    BY <2>1, <2>2
<1> QED
  BY <1>6, <1>7 DEF HasJson

\* At the database.
LEMMA JsonStep ==
  ASSUME SaveInv, MigrationInv, JsonInv, NEW t \in Testers, StoreStep(t) \/ StoreFault(t)
  PROVE  JsonInv'
<1>1. DOMAIN session[t] = Fields /\ DOMAIN session = Testers
  BY DEF MigrationInv, SessionOk
<1>2. ASSUME NEW n, Set(t, n), n.tx \in {{}, session[t].tx},
             engine' = engine, "extra_json" \in schema' => "extra_json" \in schema,
             stored' \subseteq stored \cup session[t].tx
      PROVE  JsonInv'
  BY <1>1, <1>2, JsonStays DEF Set
<1>3. ASSUME NEW code, Quit(t, code), UNCHANGED <<engine, schema, stored>> PROVE JsonInv'
  <2> DEFINE n == [session[t] EXCEPT !.at = "exit", !.connected = FALSE, !.tx = {}, !.exit = code]
  <2>1. Set(t, n) /\ n.tx = {}
    BY <1>1, <1>3 DEF Quit, Fields
  <2> HIDE DEF n
  <2> QED
    BY <1>2, <1>3, <2>1
<1>4. ASSUME NEW outcome, Saved(t, outcome), UNCHANGED <<engine, schema>>,
             stored' \subseteq stored \cup session[t].tx
      PROVE  JsonInv'
  <2>1. PICK at, outcomes, connected, exit :
          Set(t, [session[t] EXCEPT !.at = at, !.tx = {}, !.outcomes = outcomes,
                                    !.connected = connected, !.exit = exit])
    BY <1>4 DEF Saved
  <2> DEFINE n == [session[t] EXCEPT !.at = at, !.tx = {}, !.outcomes = outcomes,
                                     !.connected = connected, !.exit = exit]
  <2>2. n.tx = {}
    BY <1>1 DEF Fields
  <2> HIDE DEF n
  <2> QED
    BY <1>2, <1>4, <2>1, <2>2 DEF n
<1>5. ASSUME NEW p, Go(t, p), UNCHANGED <<engine, stored>>,
             "extra_json" \in schema' => "extra_json" \in schema
      PROVE  JsonInv'
  BY <1>1, <1>2, <1>5 DEF Go, Fields
<1>6. ASSUME NEW result, Migrated(t, result), UNCHANGED <<engine, schema, stored>> PROVE JsonInv'
  BY <1>1, <1>2, <1>6 DEF Migrated, Fields
<1>7. CASE ConnectFails(t) \/ TesterKilled(t)
  BY <1>3, <1>7 DEF ConnectFails, TesterKilled
<1>8. CASE SchemaRefuses(t) \/ Commit(t)
  BY <1>4, <1>8 DEF SchemaRefuses, Rollback, Commit
<1>9. CASE ApplyVersion(t)
  <2>1. session[t].version \in 1..8
    BY <1>9 DEF ApplyVersion, At, MigrationInv, SessionOk, Versions
  <2>2. "extra_json" \notin Installs[session[t].version]
    BY <2>1 DEF Installs, V001, V002, V003, V004, V005, V006, V007, V008, AttemptTables
  <2>3. schema' = schema \cup Installs[session[t].version] /\ Go(t, "record")
        /\ UNCHANGED <<engine, stored>>
    BY <1>9 DEF ApplyVersion
  <2> QED
    BY <1>5, <2>2, <2>3
<1>10. CASE AdvisoryLock(t) \/ AdvisoryUnlock(t)
  BY <1>3, <1>5, <1>10 DEF AdvisoryLock, AdvisoryUnlock
<1>11. CASE Connect(t) \/ SkipGated(t)
  BY <1>1, <1>2, <1>11 DEF Connect, SkipGated, Fields
<1>12. CASE CheckVersion(t) \/ RecordVersion(t)
  BY <1>1, <1>2, <1>5, <1>6, <1>12 DEF CheckVersion, RecordVersion, Fields
<1>13. CASE BeginSave(t)
  BY <1>1, <1>2, <1>4, <1>13 DEF BeginSave, Fields
<1>14. CASE StatementFails(t)
  <2>1. CASE session[t].at = "unlock"
    <3>1. UnlockFailedSession(t).tx = session[t].tx
      BY <1>1 DEF UnlockFailedSession, Fields
    <3> QED
      BY <1>2, <1>14, <2>1, <3>1, UnlockFails DEF UnlockFailed, StatementFails
  <2>2. CASE session[t].at # "unlock"
    BY <1>1, <1>2, <1>4, <1>14, <2>2 DEF StatementFails, Rollback, At, Fields
  <2> QED
    BY <2>1, <2>2
<1>15. CASE ConnectionLost(t)
  <2>1. PICK hurt, outcomes, exit, migration :
          Set(t, [session[t] EXCEPT !.at = "exit", !.connected = FALSE, !.tx = {}, !.hurt = hurt,
                    !.outcomes = outcomes, !.exit = exit, !.migration = migration])
    BY <1>15 DEF ConnectionLost
  <2> DEFINE n == [session[t] EXCEPT !.at = "exit", !.connected = FALSE, !.tx = {}, !.hurt = hurt,
                     !.outcomes = outcomes, !.exit = exit, !.migration = migration]
  <2>2. n.tx = {}
    BY <1>1 DEF Fields
  <2>3. UNCHANGED <<engine, schema>> /\ stored' \subseteq stored \cup session[t].tx
    BY <1>15 DEF ConnectionLost
  <2> HIDE DEF n
  <2> QED
    BY <1>2, <2>1, <2>2, <2>3 DEF n
<1>16. CASE Insert(t)
  <2> DEFINE row == Row(t, Head(session[t].todo))
             n == [session[t] EXCEPT !.todo = Tail(@), !.tx = @ \cup {row}]
  <2>1. /\ session[t].at = "insert" /\ session[t].todo # <<>>
        /\ session' = [session EXCEPT ![t] = n] /\ UNCHANGED <<engine, schema, stored>>
    BY <1>16 DEF Insert, At, Set
  <2>2. engine = "postgres" /\ "extra_json" \in schema => HasJson(row)
    BY <2>1, RowHasJson
  <2>3. n.tx = session[t].tx \cup {row}
    BY <1>1 DEF Fields
  <2> HIDE DEF n, row
  <2> QED
    BY <1>1, <2>1, <2>2, <2>3, JsonStays
<1> QED
  BY <1>7, <1>8, <1>9, <1>10, <1>11, <1>12, <1>13, <1>14, <1>15, <1>16 DEF StoreStep, StoreFault

LEMMA JsonInit == Init => JsonInv
<1> SUFFICES ASSUME Init PROVE JsonInv
  OBVIOUS
<1>1. SaveInv /\ stored = {}
  BY WholeInit DEF WholeInv, Init, StoreInit
<1>2. \A t \in Testers : session[t].at = "connect"
  BY WholeInit DEF WholeInv, OutputInv, Untouched, Init
<1>3. \A t \in Testers : session[t].tx = {}
  BY <1>1, <1>2 DEF SaveInv, SaveOk
<1> QED
  BY <1>1, <1>3 DEF JsonInv

\* Before the database there is nothing to lose.
LEMMA JsonNext == WholeInv /\ JsonInv /\ [Next]_vars => JsonInv'
<1> SUFFICES ASSUME WholeInv, JsonInv, [Next]_vars PROVE JsonInv'
  OBVIOUS
<1>1. CASE CliStep
  <2>1. stage \notin {"database", "over"}
    BY <1>1 DEF CliStep, BeginWork, MeasureTarget, WorkFails, WorkDone, Finalized, Validated, PrintJson,
       SaveJson, ArtifactsSaved, WriteReports, NoDatabase
  <2>2. stored = {} /\ (\A t \in Testers : session[t].at = "connect") /\ DOMAIN session = Testers
    BY <2>1 DEF WholeInv, OutputInv, Untouched, DeliveryInv, MigrationInv
  <2>3. \A t \in Testers : session[t].tx = {} /\ DOMAIN session[t] = Fields
    BY <2>2 DEF WholeInv, OutputInv, MigrationInv, SessionOk, SaveInv, SaveOk
  <2>4. UNCHANGED stored /\ (UNCHANGED session \/ \E code : ExitCli(code))
    <3>1. CASE WorkFails \/ PrintJson \/ NoDatabase \/ WriteReports
      BY <3>1 DEF WorkFails, Abandon, PrintJson, NoDatabase, WriteReports, ExitCli
    <3>2. CASE SaveJson
      BY <3>2 DEF SaveJson, ExitCli, storevars
    <3> QED
      BY <1>1, <3>1, <3>2 DEF CliStep, BeginWork, MeasureTarget, WorkDone, Finalized, Validated,
         ArtifactsSaved, storevars
  <2>5. ASSUME NEW t \in Testers PROVE session'[t].tx = {}
    <3>1. CASE UNCHANGED session
      BY <2>3, <3>1
    <3>2. ASSUME NEW code, ExitCli(code) PROVE session'[t].tx = {}
      BY <2>2, <2>3, <3>2, CliAssumption DEF ExitCli, Fields
    <3> QED
      BY <2>4, <3>1, <3>2
  <2> QED
    BY <2>2, <2>4, <2>5 DEF JsonInv
<1>2. CASE CaptureStep \/ UrlStep \/ ProfileStep \/ Tshark \/ Over \/ UNCHANGED vars
  <2>1. UNCHANGED <<engine, schema, stored, session>>
    BY <1>2 DEF CaptureStep, UrlStep, ProfileStep, Tshark, Over, vars, Ours, storevars
  <2> QED
    BY <2>1 DEF JsonInv, HasJson
<1>3. ASSUME NEW t \in Testers, Database(t) \/ DatabaseFault(t) PROVE JsonInv'
  BY <1>3, JsonStep DEF Database, DatabaseFault, WholeInv, OutputInv
<1> QED
  BY <1>1, <1>2, <1>3 DEF Next

\* What was stored and delivered is whole, whichever statement fails, connection
\* is lost or tester killed, and whatever schema the database has: saves are
\* atomic, an attempt's optional columns fail on their own, and with exit code 0 the
\* runs are out or stdout says that they could not be serialised (postgres.rs save,
\* insert_request_attempt; main).
THEOREM ResultsAreWhole == Spec => []ResultsWhole
<1>1. WholeInv /\ JsonInv => ResultsWhole
  BY SavesFollow, DeliveryFollows DEF WholeInv, ResultsWhole
<1> QED
  BY <1>1, WholeInit, WholeNext, JsonInit, JsonNext, PTL DEF Spec


-----------------------------------------------------------------------------
(***************************************************************************)
(* The diagnostics.  First what the summaries compute: the share of a      *)
(* single destination, the requests per origin, and which certificate      *)
(* becomes the first.                                                      *)
(***************************************************************************)
FiniteTrace == {trace \in Trace : IsFiniteSet(trace.to)}

\* A trace without packets is one, and so is every trace of tshark.
LEMMA TracesAreTraces == {NoTrace} \cup Traces \subseteq FiniteTrace
<1>1. NoTrace \in Trace /\ IsFiniteSet(NoTrace.to)
  BY FS_EmptySet DEF NoTrace, Trace
<1> QED
  BY <1>1, CaptureAssumption DEF FiniteTrace

\* Five hundred tenths of a percent are half of the packets, up to rounding.
LEMMA HalfOfAll ==
  ASSUME NEW packets \in Nat, NEW total \in Nat, total > 0, pct(packets, total) >= 500
  PROVE  2000 * packets >= 999 * total
<1> DEFINE a == 2000 * packets + total
           b == 2 * total
           q == a \div b
<1>1. a \in Nat /\ b \in Nat /\ b > 0 /\ q >= 500
  BY DEF pct
<1>2. q \in Nat /\ b * q <= a
  <2> HIDE DEF a, b
  <2> QED
    BY <1>1
<1>3. b * 500 <= b * q
  <2> HIDE DEF a, b, q
  <2> QED
    BY <1>1, <1>2
<1> QED
  BY <1>2, <1>3

\* The packets of a single endpoint.
LEMMA PacketsOfOne ==
  ASSUME NEW e, e.packets \in Nat
  PROVE  likely_target_packet_count({e}) = e.packets
<1>1. UNION {{x} \X (1..x.packets) : x \in {e}} = {e} \X (1..e.packets)
  OBVIOUS
<1>2. IsFiniteSet({e}) /\ Cardinality({e}) = 1
  BY FS_Singleton
<1>3. IsFiniteSet(1..e.packets) /\ Cardinality(1..e.packets) = e.packets
  BY FS_Interval
<1>4. Cardinality({e} \X (1..e.packets)) = Cardinality({e}) * Cardinality(1..e.packets)
  BY <1>2, <1>3, FS_Product
<1>5. Cardinality({e} \X (1..e.packets)) = e.packets
  BY <1>2, <1>3, <1>4
<1>6. likely_target_packet_count({e}) = Cardinality(UNION {{x} \X (1..x.packets) : x \in {e}})
  BY DEF likely_target_packet_count
<1> QED
  BY <1>1, <1>5, <1>6

\* A clear summary with a target in it names one endpoint.
LEMMA OneLikely ==
  ASSUME NEW c, NEW rows, IsFiniteSet(rows), NEW likely, likely = likely_target_endpoints(rows),
         likely # {}, ~apply_interpretation(c, rows, likely)
  PROVE  \E e \in rows : likely = {e}
<1>1. likely \subseteq rows
  BY DEF likely_target_endpoints, Foremost
<1>2. IsFiniteSet(likely) /\ Cardinality(likely) <= Cardinality(rows)
  BY <1>1, FS_Subset
<1>3. Cardinality(likely) \in Nat /\ Cardinality(rows) \in Nat
  BY <1>2, FS_CardinalityType
<1>4. Cardinality(likely) # 0
  BY <1>2, FS_EmptySet
<1>5. Cardinality(likely) = 1
  BY <1>2, <1>3, <1>4 DEF apply_interpretation
<1> QED
  BY <1>1, <1>2, <1>5, FS_Singleton

\* A high confidence is earned, whatever was captured.
LEMMA HighIsEarned ==
  ASSUME NEW trace \in FiniteTrace, NEW s, s = summarize(trace), s.confidence = "high"
  PROVE  /\ s.counts.frames > 0 /\ ~observed_mixed_transport(s.counts)
         /\ \E e \in s.counts.to : 2000 * e.packets >= 999 * s.counts.frames
<1> DEFINE c == Counts(trace)
           rows == top_n_endpoints(c.to)
           likely == likely_target_endpoints(rows)
           ambiguous == apply_interpretation(c, rows, likely)
<1>1. s.counts = c /\ capture_confidence_label(c, likely, ambiguous) = "high"
  BY DEF summarize
<1>2. trace \in Trace /\ IsFiniteSet(trace.to)
  BY DEF FiniteTrace
<1>3. c.frames \in Nat /\ c.to \subseteq Endpoint /\ IsFiniteSet(c.to)
  BY <1>2, FS_EmptySet DEF Counts, count_matches, Trace
<1>4. rows \subseteq c.to
  BY DEF top_n_endpoints, endpoint_counts, Foremost
<1>5. IsFiniteSet(rows) /\ rows \subseteq Endpoint
  BY <1>3, <1>4, FS_Subset
<1> HIDE DEF c, rows, likely, ambiguous
<1>6. /\ c.frames > 0 /\ ~ambiguous /\ likely # {}
      /\ pct(likely_target_packet_count(likely), c.frames) >= 500
  BY <1>1, <1>3 DEF capture_confidence_label
<1>7. PICK e \in rows : likely = {e}
  BY <1>5, <1>6, OneLikely DEF likely, ambiguous
<1>8. e.packets \in Nat /\ e \in c.to
  BY <1>4, <1>5, <1>7 DEF Endpoint
<1>9. 2000 * e.packets >= 999 * c.frames
  BY <1>3, <1>6, <1>7, <1>8, PacketsOfOne, HalfOfAll
<1>10. ~observed_mixed_transport(c)
  BY <1>6 DEF ambiguous, apply_interpretation
<1> QED
  BY <1>1, <1>6, <1>8, <1>9, <1>10

\* Every request is counted with one origin.
LEMMA OriginsAddUp ==
  ASSUME NEW rs, Len(rs) \in Nat, DOMAIN rs = 1..Len(rs)
  PROVE  LET origins == summarize_origins(rs)
         IN  Cardinality(UNION {{o} \X (1..origins[o].requests) : o \in DOMAIN origins}) = Len(rs)
<1> DEFINE origins == summarize_origins(rs)
           of(o) == {i \in DOMAIN rs : OriginOf(rs[i]) = o}
           O == {OriginOf(rs[i]) : i \in DOMAIN rs}
           n(o) == Cardinality(of(o))
           Tally == UNION {{o} \X (1..n(o)) : o \in O}
           b == [o \in O |-> CHOOSE f : f \in Bijection(of(o), 1..n(o))]
           g == [i \in 1..Len(rs) |-> <<OriginOf(rs[i]), b[OriginOf(rs[i])][i]>>]
<1>1. DOMAIN origins = O /\ \A o \in O : origins[o].requests = n(o)
  BY DEF summarize_origins
<1>2. ASSUME NEW o \in O
      PROVE  b[o] \in Bijection(of(o), 1..n(o))
  <2>1. IsFiniteSet(1..Len(rs)) /\ of(o) \subseteq 1..Len(rs)
    BY FS_Interval
  <2>2. IsFiniteSet(of(o))
    BY <2>1, FS_Subset
  <2>3. ExistsBijection(1..n(o), of(o))
    BY <2>2, FS_CardinalityType
  <2>4. ExistsBijection(of(o), 1..n(o))
    BY <2>3, Fun_ExistsBijSymmetric
  <2> HIDE DEF of, n
  <2> QED
    BY <2>4 DEF ExistsBijection
<1> HIDE DEF b
<1>3. ASSUME NEW o \in O
      PROVE  /\ \A i \in of(o) : b[o][i] \in 1..n(o)
             /\ \A i, j \in of(o) : b[o][i] = b[o][j] => i = j
             /\ \A k \in 1..n(o) : \E i \in of(o) : b[o][i] = k
  <2> HIDE DEF of, n
  <2> QED
    BY <1>2, <1>3 DEF Bijection, Injection, Surjection, IsInjective
<1> HIDE DEF n
<1>4. \A i \in 1..Len(rs) : OriginOf(rs[i]) \in O /\ i \in of(OriginOf(rs[i]))
  OBVIOUS
<1>5. \A i \in 1..Len(rs) : g[i] \in Tally
  BY <1>3, <1>4, SMTT(30)
<1>6. ASSUME NEW i \in 1..Len(rs), NEW j \in 1..Len(rs), g[i] = g[j]
      PROVE  i = j
  BY <1>3, <1>4, <1>6, ZenonT(60)
<1>7. ASSUME NEW p \in Tally
      PROVE  \E i \in 1..Len(rs) : g[i] = p
  <2>1. PICK o \in O : p \in {o} \X (1..n(o))
    OBVIOUS
  <2>2. PICK k \in 1..n(o) : p = <<o, k>>
    BY <2>1
  <2>3. PICK i \in of(o) : b[o][i] = k
    BY <1>3, <2>2
  <2> QED
    BY <2>2, <2>3
<1>8. g \in Bijection(1..Len(rs), Tally)
  <2>1. g \in [1..Len(rs) -> Tally]
    BY <1>5
  <2> HIDE DEF g, Tally
  <2> QED
    BY <1>6, <1>7, <2>1 DEF Bijection, Injection, Surjection, IsInjective
<1>9. ExistsBijection(1..Len(rs), Tally)
  BY <1>8 DEF ExistsBijection
<1>10. Cardinality(Tally) = Len(rs)
  <2> DEFINE l == Len(rs)
  <2>1. l \in Nat /\ ExistsBijection(1..l, Tally)
    BY <1>9
  <2> HIDE DEF l, Tally
  <2>2. IsFiniteSet(1..l) /\ Cardinality(1..l) = l
    BY <2>1, FS_Interval
  <2>3. Cardinality(Tally) = l
    BY <2>1, <2>2, FS_Bijection
  <2> QED
    BY <2>3 DEF l
<1>11. UNION {{o} \X (1..origins[o].requests) : o \in DOMAIN origins} = Tally
  BY <1>1
<1> QED
  BY <1>10, <1>11

\* A leaf that parses is the first certificate described.
LEMMA LeafFirst ==
  ASSUME NEW chain \in Seq(Certificate), chain # <<>>, chain[1].parses
  PROVE  /\ parse_certificate_info(chain) # <<>>
         /\ parse_certificate_info(chain)[1] = chain[1]
<1> DEFINE parsed == {i \in DOMAIN chain : chain[i].parses}
           head == CHOOSE i \in parsed : Cardinality(parsed \cap 1..i) = 1
<1>1. DOMAIN chain = 1..Len(chain) /\ Len(chain) \in Nat /\ Len(chain) >= 1
  OBVIOUS
<1>2. IsFiniteSet(parsed) /\ 1 \in parsed
  <2>1. IsFiniteSet(1..Len(chain)) /\ parsed \subseteq 1..Len(chain)
    BY <1>1, FS_Interval
  <2>2. IsFiniteSet(parsed)
    BY <2>1, FS_Subset
  <2> QED
    BY <1>1, <2>2
<1>3. Cardinality(parsed) \in Nat /\ Cardinality(parsed) >= 1
  <2>1. Cardinality(parsed) \in Nat
    BY <1>2, FS_CardinalityType
  <2>2. Cardinality(parsed) # 0
    BY <1>2, FS_EmptySet
  <2> QED
    BY <2>1, <2>2
<1>4. Cardinality(parsed \cap 1..1) = 1
  <2>1. parsed \cap 1..1 = {1}
    BY <1>2
  <2> QED
    BY <2>1, FS_Singleton
<1>5. head \in parsed /\ Cardinality(parsed \cap 1..head) = 1
  BY <1>2, <1>4
<1>6. head = 1
  <2>1. head \in Nat /\ head >= 1
    BY <1>1, <1>5
  <2>2. 1 \in parsed \cap 1..head /\ head \in parsed \cap 1..head
    BY <1>2, <1>5, <2>1
  <2>3. IsFiniteSet(parsed \cap 1..head)
    BY <1>2, FS_Subset
  <2>4. \E x : parsed \cap 1..head = {x}
    BY <1>5, <2>3, FS_Singleton
  <2> QED
    BY <2>2, <2>4
<1>7. /\ DOMAIN parse_certificate_info(chain) = 1..Cardinality(parsed)
      /\ parse_certificate_info(chain)[1] = chain[head]
  BY <1>3 DEF parse_certificate_info
<1>8. parse_certificate_info(chain) # <<>>
  BY <1>3, <1>7
<1> QED
  BY <1>6, <1>7, <1>8

-----------------------------------------------------------------------------
(***************************************************************************)
(* The URL diagnostic.  UrlWay follows the status through the stages,      *)
(* UrlVersions the validation probes, UrlCounts the resources.             *)
(***************************************************************************)
UrlFields == {"at", "request", "status", "errors", "resources", "origins", "connections", "har",
              "probes", "validated", "alt_svc", "loaded", "feature"}
HttpModes == {"h1", "h2", "h3"}
Validation == [mode : HttpModes, ok : BOOLEAN]

UrlWay ==
  /\ url.loaded \in BOOLEAN
  /\ url.at \in {"plan", "launch", "navigate"} => ~url.loaded
  /\ url.at \in {"snapshot", "har"} => url.loaded
  /\ url.at \in {"plan", "launch", "navigate", "snapshot", "har"} => ~url.har
  /\ url.at \in {"loaded", "probes", "outputs"} => (url.status = "Failed" <=> ~url.loaded)
  /\ url.at = "outputs" => (url.status = "Completed" <=> url.loaded /\ url.errors = {})
UrlVersions ==
  /\ url.probes \in Seq(Validation) /\ url.validated \in Seq(HttpModes)
  /\ ToSet(url.validated) = {p.mode : p \in {q \in ToSet(url.probes) : q.ok}}
UrlCounts ==
  /\ url.har => url.resources # <<>>
  /\ Cardinality(UNION {{o} \X (1..url.origins[o].requests) : o \in DOMAIN url.origins})
       = Len(url.resources)
UrlInv == DOMAIN url = UrlFields /\ UrlWay /\ UrlVersions /\ UrlCounts

LEMMA UrlFollows == UrlInv => UrlRunHonest
BY DEF UrlInv, UrlWay, UrlVersions, UrlCounts, UrlRunHonest, UrlAt

\* A diagnostic that has not begun has nothing to say.
LEMMA UrlBegins == url \in UrlStart => UrlInv
<1> SUFFICES ASSUME url \in UrlStart PROVE UrlInv
  OBVIOUS
<1>1. /\ DOMAIN url = UrlFields /\ url.at = "plan" /\ url.loaded = FALSE /\ url.har = FALSE
      /\ url.probes = <<>> /\ url.validated = <<>> /\ url.resources = <<>> /\ url.origins = <<>>
  BY DEF UrlStart, UrlFields
<1>2. ToSet(url.validated) = {} /\ ToSet(url.probes) = {}
  BY <1>1 DEF ToSet
<1>3. UNION {{o} \X (1..url.origins[o].requests) : o \in DOMAIN url.origins} = {}
  BY <1>1
<1>4. UrlCounts
  BY <1>1, <1>3, FS_EmptySet DEF UrlCounts
<1>5. UrlVersions
  BY <1>1, <1>2 DEF UrlVersions
<1> QED
  BY <1>1, <1>4, <1>5 DEF UrlInv, UrlWay

\* What is set, and what stays.
LEMMA UrlSets ==
  ASSUME DOMAIN url = UrlFields, NEW fields, UrlSet(fields)
  PROVE  /\ DOMAIN url' = UrlFields
         /\ \A f \in UrlFields : url'[f] = IF f \in DOMAIN fields THEN fields[f] ELSE url[f]
BY DEF UrlSet

\* The page load, up to the export.
LEMMA UrlLoadInv ==
  ASSUME UrlInv, UrlLoadStep
  PROVE  UrlInv'
<1>1. DOMAIN url = UrlFields
  BY DEF UrlInv
<1>2. CASE /\ DOMAIN url' = UrlFields /\ UrlWay'
           /\ UNCHANGED <<url.probes, url.validated, url.har, url.resources, url.origins>>
  BY <1>2 DEF UrlInv, UrlVersions, UrlCounts
<1>3. CASE UrlRefused \/ LaunchFails \/ SnapshotFails
  <2>1. UrlSet([at |-> "error"])
    BY <1>3 DEF UrlRefused, LaunchFails, SnapshotFails
  <2>2. /\ DOMAIN url' = UrlFields /\ url'.at = "error" /\ url'.loaded = url.loaded
        /\ UNCHANGED <<url.probes, url.validated, url.har, url.resources, url.origins>>
    BY <1>1, <2>1, UrlSets DEF UrlFields
  <2> QED
    BY <1>2, <2>2 DEF UrlInv, UrlWay
<1>4. CASE plan
  <2>1. PICK able \in [pcap : BOOLEAN, browser : BOOLEAN] :
          UrlSet([at |-> "launch", errors |-> UrlPlan(url.request, url.feature, able),
                  status |-> "Running"])
    BY <1>4 DEF plan
  <2>2. /\ DOMAIN url' = UrlFields /\ url'.at = "launch" /\ url'.loaded = url.loaded
        /\ UNCHANGED <<url.probes, url.validated, url.har, url.resources, url.origins>>
    BY <1>1, <2>1, UrlSets DEF UrlFields
  <2>3. url.at = "plan"
    BY <1>4 DEF plan, UrlAt
  <2> QED
    BY <1>2, <2>2, <2>3 DEF UrlInv, UrlWay
<1>5. CASE NoBrowserFeature \/ NavigationFails \/ NavigationTimesOut
  <2>1. PICK reason : mark_failed(reason)
    BY <1>5 DEF NoBrowserFeature, NavigationFails, NavigationTimesOut
  <2>2. /\ DOMAIN url' = UrlFields /\ url'.at = "loaded" /\ url'.loaded = url.loaded
        /\ url'.status = "Failed"
        /\ UNCHANGED <<url.probes, url.validated, url.har, url.resources, url.origins>>
    BY <1>1, <2>1, UrlSets DEF UrlFields, mark_failed
  <2>3. url.at \in {"launch", "navigate"}
    BY <1>5 DEF NoBrowserFeature, NavigationFails, NavigationTimesOut, UrlAt
  <2> QED
    BY <1>2, <2>2, <2>3 DEF UrlInv, UrlWay
<1>6. CASE Launch
  <2>1. UrlSet([at |-> "navigate"]) /\ url.at = "launch"
    BY <1>6 DEF Launch, UrlAt
  <2>2. /\ DOMAIN url' = UrlFields /\ url'.at = "navigate" /\ url'.loaded = url.loaded
        /\ UNCHANGED <<url.probes, url.validated, url.har, url.resources, url.origins>>
    BY <1>1, <2>1, UrlSets DEF UrlFields
  <2> QED
    BY <1>2, <2>1, <2>2 DEF UrlInv, UrlWay
<1>7. CASE Navigate
  <2>1. UrlSet([at |-> "snapshot", loaded |-> TRUE]) /\ url.at = "navigate"
    BY <1>7 DEF Navigate, UrlAt
  <2>2. /\ DOMAIN url' = UrlFields /\ url'.at = "snapshot" /\ url'.loaded = TRUE
        /\ UNCHANGED <<url.probes, url.validated, url.har, url.resources, url.origins>>
    BY <1>1, <2>1, UrlSets DEF UrlFields
  <2> QED
    BY <1>2, <2>1, <2>2 DEF UrlInv, UrlWay
<1>8. CASE Snapshot
  <2>1. PICK resources \in Resources :
          UrlSet([at |-> "har", resources |-> resources,
                  origins |-> summarize_origins(resources),
                  connections |-> peak_origin_requests(summarize_origins(resources))])
    BY <1>8 DEF Snapshot
  <2>2. /\ DOMAIN url' = UrlFields /\ url'.at = "har" /\ url'.loaded = url.loaded
        /\ url'.resources = resources /\ url'.origins = summarize_origins(resources)
        /\ UNCHANGED <<url.probes, url.validated, url.har>>
    BY <1>1, <2>1, UrlSets DEF UrlFields
  <2>3. url.at = "snapshot"
    BY <1>8 DEF Snapshot, UrlAt
  <2>4. UrlWay' /\ UrlVersions'
    BY <2>2, <2>3 DEF UrlInv, UrlWay, UrlVersions
  <2>5. Len(resources) \in Nat /\ DOMAIN resources = 1..Len(resources)
    BY UrlAssumption
  <2>6. Cardinality(UNION {{o} \X (1..url'.origins[o].requests) : o \in DOMAIN url'.origins})
          = Len(url'.resources)
    BY <2>2, <2>5, OriginsAddUp
  <2>7. ~url'.har
    BY <2>2, <2>3 DEF UrlInv, UrlWay
  <2>8. UrlCounts'
    BY <2>6, <2>7 DEF UrlCounts
  <2> QED
    BY <2>2, <2>4, <2>8 DEF UrlInv
<1>9. CASE HarExport
  <2>1. PICK writable \in BOOLEAN :
          LET har == IF url.request.har THEN write_har_artifact(url.resources, writable) ELSE "none"
              errors == url.errors \cup ({har} \ {"none", "written"})
          IN  UrlSet([at |-> "loaded", errors |-> errors, status |-> mark_completed(errors),
                      har |-> har = "written"])
    BY <1>9 DEF HarExport
  <2> DEFINE har == IF url.request.har THEN write_har_artifact(url.resources, writable) ELSE "none"
             errors == url.errors \cup ({har} \ {"none", "written"})
  <2>2. /\ DOMAIN url' = UrlFields /\ url'.at = "loaded" /\ url'.loaded = url.loaded
        /\ url'.status = mark_completed(errors) /\ url'.har = (har = "written")
        /\ UNCHANGED <<url.probes, url.validated, url.resources, url.origins>>
    <3> HIDE DEF har, errors
    <3>1. UrlSet([at |-> "loaded", errors |-> errors, status |-> mark_completed(errors),
                  har |-> har = "written"])
      BY <2>1 DEF har, errors
    <3> QED
      BY <1>1, <3>1, UrlSets DEF UrlFields
  <2>3. har = "written" => url.resources # <<>>
    BY DEF write_har_artifact
  <2>4. url'.status # "Failed" /\ url.at = "har"
    BY <1>9, <2>2 DEF mark_completed, HarExport, UrlAt
  <2> HIDE DEF har, errors
  <2>5. url'.har => url.resources # <<>>
    BY <2>2, <2>3
  <2>6. UrlWay'
    BY <2>2, <2>4 DEF UrlInv, UrlWay
  <2>7. UrlVersions' /\ UrlCounts'
    BY <2>2, <2>5 DEF UrlInv, UrlVersions, UrlCounts
  <2> QED
    BY <2>2, <2>6, <2>7 DEF UrlInv
<1> QED
  BY <1>3, <1>4, <1>5, <1>6, <1>7, <1>8, <1>9 DEF UrlLoadStep

\* The errors of the capture, between the page load and the validation probes.
LEMMA AttachInv ==
  ASSUME UrlInv, NEW errors, AttachCapture(errors)
  PROVE  UrlInv'
<1>1. DOMAIN url = UrlFields /\ url.at = "loaded"
  BY DEF UrlInv, AttachCapture, UrlAt
<1>2. UrlSet([at |-> "probes", errors |-> url.errors \cup errors])
  BY DEF AttachCapture
<1>3. /\ DOMAIN url' = UrlFields /\ url'.at = "probes"
      /\ url'.loaded = url.loaded /\ url'.status = url.status
      /\ UNCHANGED <<url.probes, url.validated, url.har, url.resources, url.origins>>
  BY <1>1, <1>2, UrlSets DEF UrlFields
<1> QED
  BY <1>1, <1>3 DEF UrlInv, UrlWay, UrlVersions, UrlCounts

\* The probes are of HTTP versions.
LEMMA ModesAreVersions == ProtocolModes \in Seq(HttpModes)
<1>1. H3Probes \in Seq(HttpModes)
  BY UrlAssumption DEF H3Probes, HttpModes
<1>2. <<"h1">> \in Seq(HttpModes) /\ <<"h2">> \in Seq(HttpModes) /\ <<"h1", "h2">> \in Seq(HttpModes)
  BY DEF HttpModes
<1>3. <<"h1", "h2">> \o H3Probes \in Seq(HttpModes)
  BY <1>1, <1>2
<1> QED
  BY <1>1, <1>2, <1>3 DEF ProtocolModes

\* What a sequence holds after one more.
LEMMA OneMore ==
  ASSUME NEW S, NEW s \in Seq(S), NEW e \in S
  PROVE  Append(s, e) \in Seq(S) /\ ToSet(Append(s, e)) = ToSet(s) \cup {e}
<1>1. /\ Append(s, e) \in Seq(S) /\ Len(s) \in Nat
      /\ DOMAIN s = 1..Len(s) /\ DOMAIN Append(s, e) = 1..(Len(s) + 1)
      /\ Append(s, e)[Len(s) + 1] = e
      /\ \A i \in 1..Len(s) : Append(s, e)[i] = s[i]
  OBVIOUS
<1>2. 1..(Len(s) + 1) = (1..Len(s)) \cup {Len(s) + 1}
  BY <1>1
<1> QED
  BY <1>1, <1>2 DEF ToSet

\* A validation probe, and the status at the end.
LEMMA UrlProbeInv ==
  ASSUME UrlInv, UrlProbeStep
  PROVE  UrlInv'
<1>1. DOMAIN url = UrlFields /\ url.at = "probes"
  BY DEF UrlInv, UrlProbeStep, ValidationProbe, RecomputeStatus, UrlAt
<1>2. CASE ValidationProbe
  <2>1. PICK ok \in BOOLEAN, header \in {Unset, "h3"} :
          /\ Len(url.probes) < Len(ProtocolModes)
          /\ add_protocol_run(ProtocolModes[Len(url.probes) + 1], ok, header)
    BY <1>2 DEF ValidationProbe
  <2> DEFINE m == ProtocolModes[Len(url.probes) + 1]
             probe == [mode |-> m, ok |-> ok]
             valid == IF ok /\ ~Contains(url.validated, m) THEN Append(url.validated, m)
                      ELSE url.validated
  <2>2. m \in HttpModes
    <3>1. Len(url.probes) \in Nat /\ Len(url.probes) + 1 \in 1..Len(ProtocolModes)
      BY <2>1, ModesAreVersions DEF UrlInv, UrlVersions
    <3> QED
      BY <3>1, ModesAreVersions
  <2> HIDE DEF m
  <2>3. UrlSet([probes |-> Append(url.probes, probe),
                validated |-> valid,
                alt_svc |-> IF url.alt_svc = Unset THEN header ELSE url.alt_svc])
    BY <2>1 DEF add_protocol_run, protocol_probe_from_attempt, m
  <2>4. /\ DOMAIN url' = UrlFields
        /\ url'.probes = Append(url.probes, probe)
        /\ url'.validated = valid
        /\ UNCHANGED <<url.at, url.loaded, url.status, url.errors, url.har, url.resources, url.origins>>
    <3> HIDE DEF valid, probe
    <3> QED
      BY <1>1, <2>3, UrlSets DEF UrlFields
  <2>5. UrlWay' /\ UrlCounts'
    BY <2>4 DEF UrlInv, UrlWay, UrlCounts
  <2>6. /\ url.probes \in Seq(Validation) /\ url.validated \in Seq(HttpModes)
        /\ ToSet(url.validated) = {p.mode : p \in {q \in ToSet(url.probes) : q.ok}}
    BY DEF UrlInv, UrlVersions
  <2>7. probe \in Validation
    BY <2>1, <2>2 DEF Validation
  <2>8. /\ url'.probes \in Seq(Validation)
        /\ ToSet(url'.probes) = ToSet(url.probes) \cup {probe}
    <3> HIDE DEF probe
    <3> QED
      BY <2>4, <2>6, <2>7, OneMore
  <2>9. /\ url'.validated \in Seq(HttpModes)
        /\ ToSet(url'.validated) = ToSet(url.validated) \cup (IF ok THEN {m} ELSE {})
    <3>1. CASE ok /\ ~Contains(url.validated, m)
      BY <2>2, <2>4, <2>6, <3>1, OneMore
    <3>2. CASE ok /\ Contains(url.validated, m)
      <4>1. m \in ToSet(url.validated)
        BY <2>6, <3>2 DEF Contains, ToSet
      <4> QED
        BY <2>4, <2>6, <3>2, <4>1
    <3>3. CASE ~ok
      BY <2>4, <2>6, <3>3
    <3> QED
      BY <3>1, <3>2, <3>3
  <2>10. {q \in ToSet(url'.probes) : q.ok}
           = {q \in ToSet(url.probes) : q.ok} \cup (IF ok THEN {probe} ELSE {})
    BY <2>8
  <2>11. probe.mode = m
    OBVIOUS
  <2>12. ToSet(url'.validated) = {p.mode : p \in {q \in ToSet(url'.probes) : q.ok}}
    <3> HIDE DEF probe
    <3> QED
      BY <2>6, <2>9, <2>10, <2>11
  <2> QED
    BY <2>4, <2>5, <2>8, <2>9, <2>12 DEF UrlInv, UrlVersions
<1>3. CASE RecomputeStatus
  <2>1. UrlSet([at |-> "outputs",
                status |-> IF url.status = "Failed" THEN "Failed" ELSE mark_completed(url.errors)])
    BY <1>3 DEF RecomputeStatus
  <2>2. /\ DOMAIN url' = UrlFields /\ url'.at = "outputs"
        /\ url'.status = IF url.status = "Failed" THEN "Failed" ELSE mark_completed(url.errors)
        /\ UNCHANGED <<url.loaded, url.errors, url.probes, url.validated, url.har, url.resources,
                        url.origins>>
    BY <1>1, <2>1, UrlSets DEF UrlFields
  <2>3. UrlWay' /\ UrlVersions' /\ UrlCounts'
    BY <1>1, <2>2 DEF UrlInv, UrlWay, UrlVersions, UrlCounts, mark_completed
  <2> QED
    BY <2>2, <2>3 DEF UrlInv
<1> QED
  BY <1>2, <1>3 DEF UrlProbeStep

-----------------------------------------------------------------------------
(***************************************************************************)
(* The TLS profile.                                                        *)
(***************************************************************************)
TlsFields == {"at", "insecure", "sni_override", "override", "proxied", "server", "served", "snapshot", "ended",
              "capabilities", "resumption", "findings", "status"}

\* After the handshake it was verified, or was not meant to be; what is claimed
\* of the server is what it accepted.
TlsInv ==
  /\ DOMAIN tls = TlsFields /\ tls.served \in Seq(Certificate) /\ tls.server \in Server
  /\ tls.insecure \in BOOLEAN
  /\ tls.at \in {"capabilities", "resumption", "findings"} =>
       /\ tls.insecure \/ Accepts(tls.served, tls.sni_override)
       /\ tls.snapshot.chain = parse_certificate_info(tls.served)
  /\ DOMAIN tls.ended = CapabilityProbes
  /\ \A p \in {"tls1.2", "tls1.3"} : tls.ended[p] = "ok" => p \in tls.server.versions
  /\ \A p \in {"h2", "http/1.1"} : tls.ended[p] = "ok" => p \in tls.server.alpn
  /\ tls.capabilities.versions \subseteq tls.server.versions
  /\ tls.capabilities.alpn \subseteq tls.server.alpn
  /\ tls.resumption => tls.server.resumes
  /\ ProfileHonest

\* A profile that has not begun claims nothing.
LEMMA TlsBegins == tls \in TlsStart => TlsInv
<1> SUFFICES ASSUME tls \in TlsStart PROVE TlsInv
  OBVIOUS
<1>1. /\ DOMAIN tls = TlsFields /\ tls.at = "resolve" /\ tls.insecure \in BOOLEAN
      /\ tls.ended = Pending /\ tls.capabilities = NoCapabilities /\ tls.resumption = FALSE
      /\ tls.served \in Chains /\ tls.server \in Servers
  BY DEF TlsStart, TlsFields
<1>2. tls.served \in Seq(Certificate) /\ tls.server \in Server
  BY <1>1, TlsAssumption
<1>3. /\ DOMAIN tls.ended = CapabilityProbes
      /\ \A p \in CapabilityProbes : tls.ended[p] = "pending"
  BY <1>1 DEF Pending
<1>4. tls.capabilities.versions = {} /\ tls.capabilities.alpn = {}
  BY <1>1 DEF NoCapabilities
<1>5. ProfileHonest
  BY <1>1 DEF ProfileHonest, TlsAt
<1> QED
  BY <1>1, <1>2, <1>3, <1>4, <1>5 DEF TlsInv, CapabilityProbes

\* What is set, and what stays.
LEMMA TlsSets ==
  ASSUME DOMAIN tls = TlsFields, NEW fields, TlsSet(fields)
  PROVE  /\ DOMAIN tls' = TlsFields
         /\ \A f \in TlsFields : tls'[f] = IF f \in DOMAIN fields THEN fields[f] ELSE tls[f]
BY DEF TlsSet

\* What the findings make of the handshake.
LEMMA VerdictHonest ==
  ASSUME NEW served \in Seq(Certificate), NEW chain, chain = parse_certificate_info(served),
         tls.insecure \/ Accepts(served, tls.sni_override),
         NEW status,
         status = summarize_findings([errors |-> Errors(chain), warnings |-> Warnings(chain),
                                      notes |-> Notes(chain)])
  PROVE  /\ status = "ok" => /\ ~tls.insecure /\ Accepts(served, tls.sni_override)
                             /\ served[1].parses => Verifies(served)
         /\ served # <<>> /\ served[1].parses /\ ~Verifies(served) => status = "error"
<1>1. status = IF Errors(chain) # {} THEN "error" ELSE IF Warnings(chain) # {} THEN "warn" ELSE "ok"
  BY DEF summarize_findings
<1>2. tls.insecure => "INSECURE_MODE_ACTIVE" \in Warnings(chain)
  BY DEF Warnings
<1>3. ASSUME served # <<>>, served[1].parses, ~Verifies(served)
      PROVE  Errors(chain) # {}
  <2>1. chain # <<>> /\ chain[1] = served[1]
    BY <1>3, LeafFirst
  <2>2. ~chain[1].matches \/ chain[1].expired
    BY <1>3, <2>1 DEF Verifies
  <2>3. CASE ~chain[1].matches
    BY <2>1, <2>3 DEF Errors, HostnameMatches
  <2>4. CASE chain[1].expired
    BY <2>1, <2>4 DEF Errors
  <2> QED
    BY <2>2, <2>3, <2>4
<1>4. Accepts(served, tls.sni_override) => served # <<>>
  BY DEF Accepts
<1> QED
  BY <1>1, <1>2, <1>3, <1>4

\* A step of the profile.
LEMMA TlsStepInv ==
  ASSUME TlsInv, TlsStep
  PROVE  TlsInv'
<1>1. DOMAIN tls = TlsFields
  BY DEF TlsInv
<1>2. CASE ResolveFails \/ Resolve \/ HandshakeFails
  <2>1. PICK place \in {"error", "handshake"} : TlsSet([at |-> place])
    BY <1>2 DEF ResolveFails, Resolve, HandshakeFails
  <2>2. /\ DOMAIN tls' = TlsFields /\ tls'.at = place
        /\ UNCHANGED <<tls.insecure, tls.sni_override, tls.server, tls.served, tls.snapshot, tls.ended,
                       tls.capabilities, tls.resumption>>
    BY <1>1, <2>1, TlsSets DEF TlsFields
  <2> QED
    BY <2>2 DEF TlsInv, ProfileHonest, TlsAt
<1>3. CASE run_single_handshake
  <2>1. /\ tls.insecure \/ Accepts(tls.served, tls.sni_override)
        /\ TlsSet([at |-> "capabilities",
                   snapshot |-> [chain |-> parse_certificate_info(tls.served),
                                 version |-> Best(tls.server.versions)]])
    BY <1>3 DEF run_single_handshake
  <2>2. /\ DOMAIN tls' = TlsFields /\ tls'.at = "capabilities"
        /\ tls'.snapshot.chain = parse_certificate_info(tls.served)
        /\ UNCHANGED <<tls.insecure, tls.sni_override, tls.server, tls.served, tls.ended,
                       tls.capabilities, tls.resumption>>
    BY <1>1, <2>1, TlsSets DEF TlsFields
  <2> QED
    BY <2>1, <2>2 DEF TlsInv, ProfileHonest, TlsAt
<1>4. ASSUME NEW p \in CapabilityProbes, probe_tls_handshake(p)
      PROVE  TlsInv'
  <2>1. PICK outcome \in Answers(p) \cup {"none"} :
          TlsSet([ended |-> [tls.ended EXCEPT ![p] = outcome]])
    BY <1>4 DEF probe_tls_handshake
  <2>2. /\ DOMAIN tls' = TlsFields /\ tls.at = "capabilities"
        /\ tls'.ended = [tls.ended EXCEPT ![p] = outcome]
        /\ UNCHANGED <<tls.at, tls.insecure, tls.sni_override, tls.server, tls.served, tls.snapshot,
                       tls.capabilities, tls.resumption>>
    BY <1>1, <1>4, <2>1, TlsSets DEF TlsFields, probe_tls_handshake, TlsAt
  <2>3. /\ p \in {"tls1.2", "tls1.3"} /\ outcome = "ok" => p \in tls.server.versions
        /\ p \in {"h2", "http/1.1"} /\ outcome = "ok" => p \in tls.server.alpn
    BY <2>1 DEF Answers, CapabilityProbes
  <2>4. /\ DOMAIN tls.ended = CapabilityProbes /\ DOMAIN tls'.ended = CapabilityProbes
        /\ \A q \in CapabilityProbes : tls'.ended[q] = IF q = p THEN outcome ELSE tls.ended[q]
    BY <1>4, <2>2 DEF TlsInv
  <2>5. /\ \A q \in {"tls1.2", "tls1.3"} : tls'.ended[q] = "ok" => q \in tls.server.versions
        /\ \A q \in {"h2", "http/1.1"} : tls'.ended[q] = "ok" => q \in tls.server.alpn
    BY <2>3, <2>4 DEF TlsInv, CapabilityProbes
  <2>6. ProfileHonest'
    BY <2>2 DEF ProfileHonest, TlsAt
  <2> QED
    BY <2>2, <2>4, <2>5, <2>6 DEF TlsInv
<1>5. CASE JoinProbes \/ ProbesTimedOut
  <2>1. PICK known \in {NoCapabilities,
                        [known |-> TRUE, versions |-> Succeeded \cap {"tls1.2", "tls1.3"},
                         alpn |-> Succeeded \cap {"h2", "http/1.1"}]} :
          TlsSet([at |-> "resumption", ended |-> Pending, capabilities |-> known])
    BY <1>5 DEF JoinProbes, ProbesTimedOut
  <2>2. /\ DOMAIN tls' = TlsFields /\ tls'.at = "resumption" /\ tls.at = "capabilities"
        /\ tls'.ended = Pending /\ tls'.capabilities = known
        /\ UNCHANGED <<tls.insecure, tls.sni_override, tls.server, tls.served, tls.snapshot, tls.resumption>>
    BY <1>1, <1>5, <2>1, TlsSets DEF TlsFields, JoinProbes, ProbesTimedOut, TlsAt
  <2>3. known.versions \subseteq tls.server.versions /\ known.alpn \subseteq tls.server.alpn
    <3>1. CASE known = NoCapabilities
      BY <3>1 DEF NoCapabilities
    <3>2. CASE known = [known |-> TRUE, versions |-> Succeeded \cap {"tls1.2", "tls1.3"},
                        alpn |-> Succeeded \cap {"h2", "http/1.1"}]
      BY <3>2 DEF Succeeded, TlsInv
    <3> QED
      BY <2>1, <3>1, <3>2
  <2>4. /\ DOMAIN tls'.ended = CapabilityProbes
        /\ \A p \in CapabilityProbes : tls'.ended[p] = "pending"
    BY <2>2 DEF Pending
  <2>5. ProfileHonest'
    BY <2>2 DEF ProfileHonest, TlsAt
  <2> QED
    BY <2>2, <2>3, <2>4, <2>5 DEF TlsInv, CapabilityProbes
<1>6. CASE ResumptionFails \/ run_resumption_check
  <2>1. PICK resumed \in {FALSE, tls.server.resumes} :
          TlsSet([at |-> "findings", resumption |-> resumed])
    BY <1>6 DEF ResumptionFails, run_resumption_check
  <2>2. /\ DOMAIN tls' = TlsFields /\ tls'.at = "findings" /\ tls.at = "resumption"
        /\ tls'.resumption = resumed
        /\ UNCHANGED <<tls.insecure, tls.sni_override, tls.server, tls.served, tls.snapshot, tls.ended,
                       tls.capabilities>>
    BY <1>1, <1>6, <2>1, TlsSets DEF TlsFields, ResumptionFails, run_resumption_check, TlsAt
  <2>3. resumed => tls.server.resumes
    BY <2>1
  <2> QED
    BY <2>2, <2>3 DEF TlsInv, ProfileHonest, TlsAt
<1>7. CASE build_findings
  <2> DEFINE chain == tls.snapshot.chain
             found == [errors |-> Errors(chain), warnings |-> Warnings(chain),
                       notes |-> Notes(chain)]
  <2>1. /\ tls.at = "findings"
        /\ TlsSet([at |-> "outputs",
                   findings |-> found.errors \cup found.warnings \cup found.notes,
                   status |-> summarize_findings(found)])
    BY <1>7 DEF build_findings, TlsAt
  <2>2. /\ DOMAIN tls' = TlsFields /\ tls'.at = "outputs"
        /\ tls'.status = summarize_findings(found)
        /\ UNCHANGED <<tls.insecure, tls.sni_override, tls.server, tls.served, tls.snapshot, tls.ended,
                       tls.capabilities, tls.resumption>>
    <3> HIDE DEF found
    <3> QED
      BY <1>1, <2>1, TlsSets DEF TlsFields
  <2>3. /\ tls'.status = "ok" => /\ ~tls.insecure /\ Accepts(tls.served, tls.sni_override)
                                 /\ tls.served[1].parses => Verifies(tls.served)
        /\ tls.served # <<>> /\ tls.served[1].parses /\ ~Verifies(tls.served) =>
             tls'.status = "error"
    BY <2>1, <2>2, VerdictHonest DEF TlsInv
  <2>4. ProfileHonest'
    BY <2>2, <2>3 DEF TlsInv, ProfileHonest, TlsAt
  <2> QED
    BY <2>2, <2>4 DEF TlsInv
<1> QED
  BY <1>2, <1>3, <1>4, <1>5, <1>6, <1>7 DEF TlsStep

-----------------------------------------------------------------------------
(***************************************************************************)
(* The packet capture.                                                     *)
(***************************************************************************)
\* tshark runs between its spawn and its end, and a trace has been written by
\* a tshark or by none.
CaptureInv ==
  /\ DOMAIN capture = {"at", "summarise"} /\ pcap.trace \in FiniteTrace
  /\ tshark = "running" => capture.at \in {"capturing", "finalize", "interrupted"}
  /\ ConfidenceEarned

LEMMA CaptureFollows == CaptureInv => TsharkReaped /\ ConfidenceEarned
BY DEF CaptureInv, TsharkReaped

\* The session moves on.
LEMMA CaptureMoves ==
  ASSUME CaptureInv, NEW place, CaptureGo(place)
  PROVE  DOMAIN capture' = {"at", "summarise"} /\ capture'.at = place
BY DEF CaptureInv, CaptureGo

\* The steps of the tester up to the capture.
LEMMA StartCaptureInv ==
  ASSUME CaptureInv, StartCapture
  PROVE  CaptureInv' /\ capture.at \in {"start", "prereqs", "spawn"}
<1>1. CASE NoPlan \/ TsharkMissing \/ detect_tshark \/ \E ok \in BOOLEAN : check_capture_prereqs(ok)
  <2>1. PICK place : CaptureGo(place)
    BY <1>1 DEF NoPlan, TsharkMissing, detect_tshark, check_capture_prereqs
  <2>2. capture.at \in {"start", "prereqs"} /\ UNCHANGED <<tshark, pcap, summary>>
    BY <1>1 DEF NoPlan, TsharkMissing, detect_tshark, check_capture_prereqs, CaptureAt
  <2> QED
    BY <2>1, <2>2, CaptureMoves DEF CaptureInv, ConfidenceEarned
<1>2. ASSUME NEW ok \in BOOLEAN, SpawnCapture(ok)
      PROVE  CaptureInv' /\ capture.at = "spawn"
  <2>1. capture.at = "spawn" /\ UNCHANGED <<pcap, summary>>
    BY <1>2 DEF SpawnCapture, CaptureAt
  <2>2. CASE CaptureGo("capturing") /\ tshark' = "running"
    BY <2>1, <2>2, CaptureMoves DEF CaptureInv, ConfidenceEarned
  <2>3. CASE CaptureGo("off") /\ UNCHANGED tshark
    BY <2>1, <2>3, CaptureMoves DEF CaptureInv, ConfidenceEarned
  <2> QED
    BY <1>2, <2>1, <2>2, <2>3 DEF SpawnCapture
<1> QED
  BY <1>1, <1>2 DEF StartCapture

\* A summary is of a trace, and its confidence is earned.
LEMMA SummarizeInv ==
  ASSUME CaptureInv, Summarize
  PROVE  CaptureInv'
<1> DEFINE s == summarize(pcap.trace)
<1>1. /\ capture.at = "stopped" /\ CaptureGo("off") /\ UNCHANGED tshark /\ summary' = s
      /\ pcap' = pcap \/ pcap' = [exists |-> FALSE, trace |-> NoTrace]
  BY DEF Summarize, CaptureAt
<1>6. ConfidenceEarned'
  <2>1. pcap.trace \in FiniteTrace
    BY DEF CaptureInv
  <2>2. s.confidence = "high" =>
          /\ s.counts.frames > 0 /\ ~observed_mixed_transport(s.counts)
          /\ \E e \in s.counts.to : 2000 * e.packets >= 999 * s.counts.frames
    BY <2>1, HighIsEarned
  <2> HIDE DEF s
  <2> QED
    BY <1>1, <2>2 DEF ConfidenceEarned, observed_mixed_transport
<1>7. pcap'.trace \in FiniteTrace
  BY <1>1, TracesAreTraces DEF CaptureInv
<1> QED
  BY <1>1, <1>6, <1>7, CaptureMoves DEF CaptureInv

\* Finalising, and what tshark does of its own.
LEMMA FinishCaptureInv ==
  ASSUME CaptureInv, FinishCapture
  PROVE  CaptureInv' /\ capture.at \in {"finalize", "interrupted", "stopped"}
<1>1. CASE Interrupt
  <2>1. capture.at = "finalize" /\ CaptureGo("interrupted") /\ UNCHANGED <<tshark, pcap, summary>>
    BY <1>1 DEF Interrupt, CaptureAt
  <2> QED
    BY <2>1, CaptureMoves DEF CaptureInv, ConfidenceEarned
<1>2. CASE KillAndWait
  <2>1. /\ capture.at = "interrupted" /\ CaptureGo("stopped") /\ tshark' = "exited"
        /\ UNCHANGED summary
        /\ pcap' = pcap \/ pcap' = [exists |-> TRUE, trace |-> NoTrace]
    BY <1>2 DEF KillAndWait, CaptureAt
  <2>2. pcap'.trace \in FiniteTrace
    BY <2>1, TracesAreTraces DEF CaptureInv
  <2> QED
    BY <2>1, <2>2, CaptureMoves DEF CaptureInv, ConfidenceEarned
<1>3. CASE SummaryFails
  <2>1. capture.at = "stopped" /\ CaptureGo("off") /\ UNCHANGED <<tshark, pcap, summary>>
    BY <1>3 DEF SummaryFails, CaptureAt
  <2> QED
    BY <2>1, CaptureMoves DEF CaptureInv, ConfidenceEarned
<1>4. CASE Summarize
  BY <1>4, SummarizeInv DEF Summarize, CaptureAt
<1> QED
  BY <1>1, <1>2, <1>3, <1>4 DEF FinishCapture

LEMMA TsharkStepInv ==
  ASSUME CaptureInv, TsharkStep
  PROVE  CaptureInv' /\ UNCHANGED capture
<1>1. UNCHANGED <<capture, summary>> /\ tshark' = "exited"
  BY DEF TsharkStep, TsharkRefused, TsharkDies, TsharkFlushes, Exits
<1>2. pcap' = pcap \/ \E trace \in Traces : pcap' = [exists |-> TRUE, trace |-> trace]
  BY DEF TsharkStep, TsharkRefused, TsharkDies, TsharkFlushes, Exits
<1>3. pcap'.trace \in FiniteTrace
  BY <1>2, TracesAreTraces DEF CaptureInv
<1> QED
  BY <1>1, <1>3 DEF CaptureInv, ConfidenceEarned

\* The session dropped on an error of the tester.
LEMMA SessionDroppedInv ==
  ASSUME CaptureInv, SessionDropped
  PROVE  CaptureInv' /\ capture'.at = "off"
<1>1. CaptureGo("off") /\ tshark' # "running" /\ UNCHANGED summary
  BY DEF SessionDropped
<1>2. pcap' = pcap \/ \E trace \in {NoTrace} \cup Traces :
                        pcap' = [exists |-> TRUE, trace |-> trace]
  BY DEF SessionDropped
<1>3. pcap'.trace \in FiniteTrace
  BY <1>2, TracesAreTraces DEF CaptureInv
<1> QED
  BY <1>1, <1>3, CaptureMoves DEF CaptureInv, ConfidenceEarned

-----------------------------------------------------------------------------
(***************************************************************************)
(* The tester around them.  A TLS profile never starts a capture, and the  *)
(* capture is over before the validation probes of a URL diagnostic.       *)
(***************************************************************************)
PlaceInv ==
  /\ Kind = "tls" => capture.at \in {"start", "off"}
  /\ stage = "probes" => capture.at = "off"
DiagnosticsInv == CaptureInv /\ PlaceInv /\ UrlInv /\ TlsInv

\* Something to start from.
LEMMA Begins ==
  /\ AnyOf(CaptureStart) \in CaptureStart /\ AnyOf(PcapStart) \in PcapStart
  /\ AnyOf(UrlStart) \in UrlStart /\ AnyOf(TlsStart) \in TlsStart
<1>1. CaptureStart # {}
  <2>1. PICK w \in WriteSummary : TRUE
    BY CaptureAssumption
  <2>2. [at |-> "start", summarise |-> w] \in CaptureStart
    BY DEF CaptureStart
  <2> QED
    BY <2>2
<1>2. PcapStart # {}
  <2>1. [exists |-> FALSE, trace |-> NoTrace] \in PcapStart
    BY DEF PcapStart
  <2> QED
    BY <2>1
<1>3. UrlStart # {}
  <2>1. PICK r \in UrlRequests : TRUE
    BY UrlAssumption
  <2>2. [at |-> "plan", request |-> r, status |-> "Pending", errors |-> {},
         resources |-> <<>>, origins |-> <<>>, connections |-> 0, har |-> FALSE,
         probes |-> <<>>, validated |-> <<>>, alt_svc |-> Unset, loaded |-> FALSE,
         feature |-> FALSE] \in UrlStart
    BY DEF UrlStart
  <2> QED
    BY <2>2
<1>4. TlsStart # {}
  <2>1. PICK c \in Chains, s \in Servers : TRUE
    BY TlsAssumption
  <2>2. [at |-> "resolve", insecure |-> FALSE, sni_override |-> FALSE, override |-> "none", proxied |-> FALSE,
         server |-> s, served |-> c, snapshot |-> NoSnapshot, ended |-> Pending,
         capabilities |-> NoCapabilities, resumption |-> FALSE, findings |-> {},
         status |-> "none"] \in TlsStart
    BY DEF TlsStart
  <2> QED
    BY <2>2
<1> QED
  BY <1>1, <1>2, <1>3, <1>4 DEF AnyOf

LEMMA DiagnosticsInit == Init => DiagnosticsInv
<1> SUFFICES ASSUME Init PROVE DiagnosticsInv
  OBVIOUS
<1>1. /\ capture \in CaptureStart /\ pcap \in PcapStart /\ url \in UrlStart /\ tls \in TlsStart
      /\ tshark = "none" /\ summary = NoSummary /\ stage = "capture"
  BY Begins DEF Init
<1>2. DOMAIN capture = {"at", "summarise"} /\ capture.at = "start"
  BY <1>1 DEF CaptureStart
<1>3. pcap.trace \in FiniteTrace
  BY <1>1, TracesAreTraces DEF PcapStart
<1>4. CaptureInv
  BY <1>1, <1>2, <1>3 DEF CaptureInv, ConfidenceEarned
<1> QED
  BY <1>1, <1>2, <1>4, UrlBegins, TlsBegins DEF DiagnosticsInv, PlaceInv

\* From the artifacts on, nothing is left to say.
LEMMA LetGoInv ==
  ASSUME CaptureInv, LetGo, tshark # "running"
  PROVE  CaptureInv' /\ UrlInv' /\ TlsInv' /\ capture'.at = "off"
<1>1. /\ url' \in UrlStart /\ tls' \in TlsStart /\ pcap' \in PcapStart
      /\ capture' = [AnyOf(CaptureStart) EXCEPT !.at = "off"]
      /\ tshark' # "running" /\ summary' = NoSummary
  BY Begins DEF LetGo
<1>2. DOMAIN capture' = {"at", "summarise"} /\ capture'.at = "off"
  BY <1>1, Begins DEF CaptureStart
<1>3. pcap'.trace \in FiniteTrace
  BY <1>1, TracesAreTraces DEF PcapStart
<1>4. (url \in UrlStart => UrlInv)' /\ (tls \in TlsStart => TlsInv)'
  BY UrlBegins, TlsBegins, PTL
<1>5. UrlInv' /\ TlsInv'
  BY <1>1, <1>4
<1> QED
  BY <1>1, <1>2, <1>3, <1>5 DEF CaptureInv, ConfidenceEarned

\* A tester is of one kind.
LEMMA KindStays ==
  ASSUME WholeInv, [Next]_vars
  PROVE  Kind' = Kind
<1>1. CASE UNCHANGED session
  BY <1>1 DEF Kind, Job
<1>2. ASSUME NEW code, ExitCli(code) PROVE Kind' = Kind
  <2>1. DOMAIN session = Testers /\ DOMAIN session[Cli] = Fields
    BY CliAssumption DEF WholeInv, OutputInv, MigrationInv, SessionOk
  <2>2. session[Cli].job' = session[Cli].job
    BY <1>2, <2>1, CliAssumption DEF ExitCli, Fields
  <2> QED
    BY <2>2 DEF Kind, Job
<1>3. ASSUME NEW t \in Testers, Database(t) \/ DatabaseFault(t) PROVE Kind' = Kind
  <2>1. StoreStep(t) \/ StoreFault(t)
    BY <1>3 DEF Database, DatabaseFault
  <2>2. session[Cli].job' = session[Cli].job
    BY <2>1, JobsStay, CliAssumption DEF WholeInv, OutputInv
  <2> QED
    BY <2>2 DEF Kind, Job
<1>4. CASE CliStep
  <2>1. UNCHANGED session \/ \E code : ExitCli(code)
    BY <1>4 DEF CliStep, BeginWork, MeasureTarget, WorkFails, Abandon, WorkDone, Finalized,
       Validated, PrintJson, SaveJson, ArtifactsSaved, WriteReports, NoDatabase, storevars
  <2> QED
    BY <1>1, <1>2, <2>1
<1>5. CASE CaptureStep \/ UrlStep \/ ProfileStep \/ Tshark \/ Over \/ UNCHANGED vars
  <2>1. UNCHANGED session
    BY <1>5 DEF CaptureStep, UrlStep, ProfileStep, Tshark, Over, vars, Ours, storevars
  <2> QED
    BY <1>1, <2>1
<1> QED
  BY <1>3, <1>4, <1>5 DEF Next

\* One case per part of the tester.
LEMMA DiagnosticsNext == WholeInv /\ DiagnosticsInv /\ [Next]_vars => DiagnosticsInv'
<1> SUFFICES ASSUME WholeInv, DiagnosticsInv, [Next]_vars PROVE DiagnosticsInv'
  OBVIOUS
<1>1. Kind' = Kind
  BY KindStays
<1>2. CASE UNCHANGED <<capturevars, url, tls>> /\ (stage' = "probes" => stage = "probes")
  <2>1. UNCHANGED <<capture, tshark, pcap, summary, url, tls>>
    BY <1>2 DEF capturevars
  <2>2. CaptureInv' /\ UrlInv' /\ TlsInv'
    <3>1. CaptureInv'
      BY <2>1 DEF DiagnosticsInv, CaptureInv, ConfidenceEarned
    <3>2. UrlInv'
      BY <2>1 DEF DiagnosticsInv, UrlInv, UrlWay, UrlVersions, UrlCounts
    <3>3. TlsInv'
      BY <2>1 DEF DiagnosticsInv, TlsInv, ProfileHonest, TlsAt
    <3> QED
      BY <3>1, <3>2, <3>3
  <2> QED
    BY <1>1, <1>2, <2>1, <2>2 DEF DiagnosticsInv, PlaceInv
<1>3. CASE CaptureStep
  <2>1. UNCHANGED <<stage, url, tls>>
    BY <1>3 DEF CaptureStep, Ours, mainvars
  <2>2. \/ StartCapture /\ stage = "capture" /\ Kind # "tls"
        \/ FinishCapture /\ stage = "finalize"
    BY <1>3 DEF CaptureStep
  <2>3. CaptureInv' /\ Kind # "tls" /\ stage # "probes"
    BY <2>2, StartCaptureInv, FinishCaptureInv DEF DiagnosticsInv, PlaceInv
  <2>4. UrlInv' /\ TlsInv'
    BY <2>1 DEF DiagnosticsInv, UrlInv, UrlWay, UrlVersions, UrlCounts, TlsInv, ProfileHonest, TlsAt
  <2> QED
    BY <1>1, <2>1, <2>3, <2>4 DEF DiagnosticsInv, PlaceInv
<1>4. CASE Tshark
  <2>1. UNCHANGED <<stage, url, tls>> /\ TsharkStep
    BY <1>4 DEF Tshark, Ours, mainvars
  <2>2. CaptureInv' /\ UNCHANGED capture
    BY <2>1, TsharkStepInv DEF DiagnosticsInv
  <2>3. UrlInv' /\ TlsInv'
    BY <2>1 DEF DiagnosticsInv, UrlInv, UrlWay, UrlVersions, UrlCounts, TlsInv, ProfileHonest, TlsAt
  <2> QED
    BY <1>1, <2>1, <2>2, <2>3 DEF DiagnosticsInv, PlaceInv
<1>5. CASE UrlStep \/ ProfileStep
  <2>1. UNCHANGED <<stage, capture, tshark, pcap, summary>>
    BY <1>5 DEF UrlStep, ProfileStep, Ours, mainvars, capturevars
  <2>2. CaptureInv' /\ PlaceInv'
    BY <1>1, <2>1 DEF DiagnosticsInv, CaptureInv, ConfidenceEarned, PlaceInv
  <2>3. CASE UrlStep
    <3>1. UNCHANGED tls /\ (UrlLoadStep \/ UrlProbeStep)
      BY <2>3 DEF UrlStep
    <3>2. TlsInv'
      BY <3>1 DEF DiagnosticsInv, TlsInv, ProfileHonest, TlsAt
    <3> QED
      BY <2>2, <3>1, <3>2, UrlLoadInv, UrlProbeInv DEF DiagnosticsInv
  <2>4. CASE ProfileStep
    <3>1. UNCHANGED url /\ TlsStep
      BY <2>4 DEF ProfileStep
    <3>2. UrlInv'
      BY <3>1 DEF DiagnosticsInv, UrlInv, UrlWay, UrlVersions, UrlCounts
    <3> QED
      BY <2>2, <3>1, <3>2, TlsStepInv DEF DiagnosticsInv
  <2> QED
    BY <1>5, <2>3, <2>4
<1>6. CASE WorkFails
  <2>1. UNCHANGED <<url, tls>> /\ stage' = "over"
    BY <1>6 DEF WorkFails, Abandon, ExitCli
  <2>2. CASE UNCHANGED capturevars
    BY <1>2, <2>1, <2>2
  <2>3. CASE SessionDropped
    <3>1. CaptureInv' /\ capture'.at = "off"
      BY <2>3, SessionDroppedInv DEF DiagnosticsInv
    <3>2. UrlInv' /\ TlsInv'
      BY <2>1 DEF DiagnosticsInv, UrlInv, UrlWay, UrlVersions, UrlCounts, TlsInv, ProfileHonest,
         TlsAt
    <3> QED
      BY <2>1, <3>1, <3>2 DEF DiagnosticsInv, PlaceInv
  <2> QED
    BY <1>6, <2>2, <2>3 DEF WorkFails, Abandon
<1>7. CASE WorkDone
  <2>1. /\ UNCHANGED <<tshark, pcap, summary, url, tls>> /\ stage' = "finalize"
        /\ capture' = IF capture.at = "capturing" THEN [capture EXCEPT !.at = "finalize"]
                      ELSE capture
    BY <1>7 DEF WorkDone
  <2>2. /\ DOMAIN capture' = {"at", "summarise"}
        /\ capture'.at = IF capture.at = "capturing" THEN "finalize" ELSE capture.at
    BY <2>1 DEF DiagnosticsInv, CaptureInv
  <2>3. CaptureInv' /\ PlaceInv'
    BY <1>1, <2>1, <2>2 DEF DiagnosticsInv, CaptureInv, ConfidenceEarned, PlaceInv
  <2>4. UrlInv' /\ TlsInv'
    BY <2>1 DEF DiagnosticsInv, UrlInv, UrlWay, UrlVersions, UrlCounts, TlsInv, ProfileHonest, TlsAt
  <2> QED
    BY <2>3, <2>4 DEF DiagnosticsInv
<1>8. CASE Finalized
  <2>1. stage = "finalize" /\ (Kind = "tls" \/ capture.at = "off")
    BY <1>8 DEF Finalized
  <2>2. tshark # "running"
    BY <2>1 DEF DiagnosticsInv, PlaceInv, CaptureInv
  <2>3. CASE stage' = "artifacts" /\ LetGo
    BY <2>2, <2>3, LetGoInv DEF DiagnosticsInv, PlaceInv
  <2>4. CASE /\ Kind = "url" /\ stage' = "probes" /\ AttachCapture(CaptureErrors)
             /\ UNCHANGED <<capturevars, tls>>
    <3>1. UrlInv'
      BY <2>4, AttachInv DEF DiagnosticsInv
    <3>2. UNCHANGED <<capture, tshark, pcap, summary, tls>>
      BY <2>4 DEF capturevars
    <3>3. CaptureInv' /\ TlsInv'
      BY <3>2 DEF DiagnosticsInv, CaptureInv, ConfidenceEarned, TlsInv, ProfileHonest, TlsAt
    <3>4. capture'.at = "off"
      BY <2>1, <2>4, <3>2
    <3> QED
      BY <3>1, <3>3, <3>4 DEF DiagnosticsInv, PlaceInv
  <2> QED
    BY <1>8, <2>3, <2>4 DEF Finalized
<1>9. CASE Validated
  <2>1. stage = "probes" /\ stage' = "artifacts" /\ LetGo
    BY <1>9 DEF Validated
  <2>2. tshark # "running"
    BY <2>1 DEF DiagnosticsInv, PlaceInv, CaptureInv
  <2> QED
    BY <2>1, <2>2, LetGoInv DEF DiagnosticsInv, PlaceInv
<1>10. CASE BeginWork \/ MeasureTarget \/ PrintJson \/ SaveJson \/ ArtifactsSaved \/ WriteReports
            \/ NoDatabase
  <2>1. UNCHANGED <<capturevars, url, tls>>
    BY <1>10 DEF BeginWork, MeasureTarget, PrintJson, SaveJson, ArtifactsSaved, WriteReports,
       NoDatabase
  <2>2. stage' = "probes" => stage = "probes"
    BY <1>10 DEF BeginWork, MeasureTarget, PrintJson, SaveJson, ArtifactsSaved, WriteReports,
       NoDatabase, ExitCli
  <2> QED
    BY <1>2, <2>1, <2>2
<1>11. CASE Over \/ UNCHANGED vars \/ \E t \in Testers : Database(t) \/ DatabaseFault(t)
  <2>1. UNCHANGED <<capturevars, url, tls, stage>>
    BY <1>11 DEF Over, vars, Database, DatabaseFault, mainvars
  <2> QED
    BY <1>2, <2>1
<1> QED
  BY <1>3, <1>4, <1>5, <1>6, <1>7, <1>8, <1>9, <1>10, <1>11 DEF Next, CliStep

\* What the diagnostics of a tester report is what they saw, for any traces,
\* certificates, servers and page loads: tshark does not outlive its session, a
\* high confidence is earned, the URL run's status and versions are those of its
\* page load and probes, and a profile's verdict is about the server it talked to
\* (PacketCaptureSession's Drop and finalize, summarize, run_url_test_cli,
\* build_findings).
THEOREM DiagnosticsAreHonest == Spec => []DiagnosticsHonest
<1>1. DiagnosticsInv => DiagnosticsHonest
  BY CaptureFollows, UrlFollows DEF DiagnosticsInv, TlsInv, DiagnosticsHonest
<1>2. Init => WholeInv /\ DiagnosticsInv
  BY WholeInit, DiagnosticsInit
<1>3. WholeInv /\ DiagnosticsInv /\ [Next]_vars => (WholeInv /\ DiagnosticsInv)'
  BY WholeNext, DiagnosticsNext
<1> QED
  BY <1>1, <1>2, <1>3, PTL DEF Spec

-----------------------------------------------------------------------------
(***************************************************************************)
(* Numbers and sums.                                                       *)
(***************************************************************************)
LEMMA LeastNumber ==
  ASSUME NEW T \in SUBSET Nat, T # {}
  PROVE  \E x \in T : \A y \in T : x <= y
<1> DEFINE R == {p \in Nat \X Nat : p[1] < p[2]}
<1>1. IsWellFoundedOn(R, Nat)
  BY NatLessThanWellFounded DEF OpToRel
<1>2. \A x, y \in Nat : x < y => <<x, y>> \in R
  OBVIOUS
<1> HIDE DEF R
<1>3. PICK x \in T : \A y \in T : ~(<<y, x>> \in R)
  BY <1>1, WFMin
<1>4. ASSUME NEW y \in T PROVE x <= y
  <2>1. x \in Nat /\ y \in Nat /\ ~(y < x)
    BY <1>2, <1>3
  <2> QED BY <2>1
<1> QED BY <1>3, <1>4

LEMMA LeastOf ==
  ASSUME NEW T \in SUBSET Nat, T # {}
  PROVE  Min(T) \in T /\ \A y \in T : Min(T) <= y
<1>1. PICK x \in T : \A y \in T : x <= y
  BY LeastNumber
<1> QED BY <1>1 DEF Min

\* A part of a finite set.
LEMMA Part ==
  ASSUME NEW S, IsFiniteSet(S), NEW T, T \subseteq S
  PROVE  /\ IsFiniteSet(T) /\ Cardinality(T) \in Nat /\ Cardinality(S) \in Nat
         /\ Cardinality(T) <= Cardinality(S)
         /\ T # S => Cardinality(T) < Cardinality(S)
<1>1. IsFiniteSet(T) /\ Cardinality(T) <= Cardinality(S) /\ (Cardinality(S) = Cardinality(T) => S = T)
  BY FS_Subset
<1>2. Cardinality(T) \in Nat /\ Cardinality(S) \in Nat
  BY <1>1, FS_CardinalityType
<1> QED BY <1>1, <1>2

\* Of a finite set, the element with the fewest above it is the greatest.
LEMMA GreatestNumber ==
  ASSUME NEW T \in SUBSET Nat, T # {}, IsFiniteSet(T)
  PROVE  \E x \in T : \A y \in T : y <= x
<1> DEFINE above(x) == {y \in T : x < y}
           C == {Cardinality(above(x)) : x \in T}
<1>1. ASSUME NEW x \in T PROVE IsFiniteSet(above(x)) /\ Cardinality(above(x)) \in Nat
  <2>1. above(x) \in SUBSET T
    OBVIOUS
  <2> QED BY <2>1, FS_Subset, FS_CardinalityType
<1>2. C \in SUBSET Nat /\ C # {}
  BY <1>1
<1>3. PICK c \in C : \A d \in C : c <= d
  BY <1>2, LeastNumber
<1>4. PICK x \in T : c = Cardinality(above(x))
  BY <1>3
<1>5. ASSUME NEW y \in T, x < y PROVE FALSE
  <2>1. above(y) \in SUBSET above(x) /\ y \in above(x) /\ y \notin above(y)
    <3>1. x \in Nat /\ y \in Nat /\ x < y
      BY <1>5
    <3>2. \A z \in T : z \in Nat
      OBVIOUS
    <3>3. \A z \in T : y < z => x < z
      BY <3>1, <3>2
    <3>4. ~(y < y)
      BY <3>1
    <3> QED BY <3>1, <3>3, <3>4
  <2>2. /\ Cardinality(above(y)) < Cardinality(above(x))
        /\ Cardinality(above(y)) \in Nat /\ Cardinality(above(x)) \in Nat
    <3> HIDE DEF above
    <3>1. above(y) \subseteq above(x) /\ above(y) # above(x) /\ IsFiniteSet(above(x))
      BY <1>1, <2>1
    <3> QED BY <3>1, Part
  <2>3. Cardinality(above(x)) <= Cardinality(above(y))
    BY <1>3, <1>4
  <2> QED BY <2>2, <2>3
<1> QED BY <1>5

\* The units of the numbers g[s], which Sum counts.
Units(g) == UNION {{s} \X (1..g[s]) : s \in DOMAIN g}

LEMMA ImageFinite ==
  ASSUME NEW S, IsFiniteSet(S), NEW f, DOMAIN f = S, f = [s \in S |-> f[s]]
  PROVE  IsFiniteSet({f[s] : s \in S})
<1>1. f \in Surjection(S, {f[s] : s \in S})
  BY Fun_IsSurj
<1> QED BY <1>1, FS_Surjection

LEMMA UnitsFinite ==
  ASSUME NEW S, IsFiniteSet(S), NEW g \in [S -> Nat]
  PROVE  IsFiniteSet(Units(g)) /\ Sum(g) = Cardinality(Units(g)) /\ Sum(g) \in Nat
<1> DEFINE f == [s \in S |-> {s} \X (1..g[s])]
<1>1. \A s \in S : IsFiniteSet(f[s])
  <2>1. ASSUME NEW s \in S PROVE IsFiniteSet({s} \X (1..g[s]))
    <3>1. PICK one : one = {s}
      OBVIOUS
    <3>2. PICK more : more = 1..g[s]
      OBVIOUS
    <3>3. IsFiniteSet(one) /\ IsFiniteSet(more)
      <4>1. g[s] \in Nat
        OBVIOUS
      <4>2. IsFiniteSet(1..g[s])
        BY <4>1, FS_Interval
      <4> QED BY <3>1, <3>2, <4>2, FS_Singleton
    <3>4. IsFiniteSet(one \X more)
      BY <3>3, FS_Product
    <3> QED BY <3>1, <3>2, <3>4
  <2> QED BY <2>1
<1>2. IsFiniteSet({f[s] : s \in S})
  <2>1. DOMAIN f = S /\ f = [s \in S |-> f[s]]
    OBVIOUS
  <2> HIDE DEF f
  <2> QED BY <2>1, ImageFinite
<1>3. IsFiniteSet(UNION {f[s] : s \in S})
  <2> HIDE DEF f
  <2>1. PICK all : all = {f[s] : s \in S}
    OBVIOUS
  <2>2. \A T \in all : IsFiniteSet(T)
    BY <1>1, <2>1
  <2>3. IsFiniteSet(all)
    BY <1>2, <2>1
  <2>4. IsFiniteSet(UNION all)
    BY <2>3, <2>2, FS_UNION
  <2> QED BY <2>1, <2>4
<1>4. Units(g) = UNION {f[s] : s \in S}
  BY DEF Units
<1>5. Sum(g) = Cardinality(Units(g))
  BY DEF Sum, Units
<1> QED BY <1>3, <1>4, <1>5, FS_CardinalityType

\* The set all falls into the disjoint sets U[s] of g[s] elements.
Splits(S, U, g, all) ==
  /\ DOMAIN U = S /\ \A s \in S : IsFiniteSet(U[s])
  /\ \A s, t \in S : s # t => U[s] \cap U[t] = {}
  /\ g \in [S -> Nat] /\ \A s \in S : g[s] = Cardinality(U[s])
  /\ all = UNION {U[s] : s \in S}

\* Then it has as many elements as the numbers add up to.
LEMMA CountUnits ==
  ASSUME NEW S, IsFiniteSet(S), NEW U, NEW g, NEW all, Splits(S, U, g, all)
  PROVE  IsFiniteSet(all) /\ Cardinality(all) = Sum(g)
<1>1. /\ DOMAIN U = S /\ \A s \in S : IsFiniteSet(U[s])
      /\ \A s, t \in S : s # t => U[s] \cap U[t] = {}
      /\ g \in [S -> Nat] /\ \A s \in S : g[s] = Cardinality(U[s])
      /\ all = UNION {U[s] : s \in S}
  BY DEF Splits
<1> DEFINE B == [s \in S |-> CHOOSE b : b \in Bijection(1..g[s], U[s])]
           F == [p \in Units(g) |-> B[p[1]][p[2]]]
<1>2. ASSUME NEW s \in S PROVE B[s] \in Bijection(1..g[s], U[s])
  <2>1. ExistsBijection(1..g[s], U[s])
    BY <1>1, FS_CardinalityType
  <2>2. \E b : b \in Bijection(1..g[s], U[s])
    BY <2>1 DEF ExistsBijection
  <2> QED BY <2>2
<1>3. ASSUME NEW s \in S
      PROVE  /\ \A k \in 1..g[s] : B[s][k] \in U[s]
             /\ \A k, m \in 1..g[s] : B[s][k] = B[s][m] => k = m
             /\ \A x \in U[s] : \E k \in 1..g[s] : B[s][k] = x
  <2> HIDE DEF B
  <2>1. PICK T : T = U[s]
    OBVIOUS
  <2>2. PICK M : M = 1..g[s]
    OBVIOUS
  <2>3. PICK b : b = B[s]
    OBVIOUS
  <2>4. b \in Bijection(M, T)
    BY <1>2, <2>1, <2>2, <2>3
  <2>5. /\ b \in [M -> T] /\ \A k, m \in M : b[k] = b[m] => k = m
        /\ \A x \in T : \E k \in M : b[k] = x
    BY <2>4, Fun_BijectionProperties
  <2> QED BY <2>1, <2>2, <2>3, <2>5
<1> HIDE DEF B
<1>4. ASSUME NEW p \in Units(g) PROVE p[1] \in S /\ p[2] \in 1..g[p[1]] /\ p = <<p[1], p[2]>>
  BY <1>1 DEF Units
<1>5. \A s \in S : \A k \in 1..g[s] : <<s, k>> \in Units(g)
  BY <1>1 DEF Units
<1>6. F \in [Units(g) -> all]
  <2>1. ASSUME NEW p \in Units(g) PROVE B[p[1]][p[2]] \in all
    BY <1>1, <1>3, <1>4
  <2> QED BY <2>1
<1>7. ASSUME NEW p \in Units(g), NEW q \in Units(g), F[p] = F[q] PROVE p = q
  <2>1. B[p[1]][p[2]] = B[q[1]][q[2]]
    BY <1>7
  <2>2. B[p[1]][p[2]] \in U[p[1]] /\ B[q[1]][q[2]] \in U[q[1]]
    BY <1>1, <1>3, <1>4
  <2>3. p[1] = q[1]
    BY <1>1, <1>4, <2>1, <2>2
  <2>4. p[2] = q[2]
    BY <1>3, <1>4, <2>1, <2>3
  <2> QED BY <1>4, <2>3, <2>4
<1>8. ASSUME NEW x \in all PROVE \E p \in Units(g) : F[p] = x
  <2>1. PICK s \in S : x \in U[s]
    BY <1>1
  <2>2. PICK k \in 1..g[s] : B[s][k] = x
    BY <1>3, <2>1
  <2>3. <<s, k>> \in Units(g)
    BY <1>5
  <2>4. F[<<s, k>>] = x
    BY <2>2, <2>3
  <2> QED BY <2>3, <2>4
<1> HIDE DEF F
<1>9. F \in Bijection(Units(g), all)
  BY <1>6, <1>7, <1>8, Fun_IsBij
<1>10. ExistsBijection(Units(g), all)
  BY <1>9 DEF ExistsBijection
<1>11. IsFiniteSet(all) /\ Cardinality(all) = Cardinality(Units(g))
  BY <1>1, <1>10, UnitsFinite, FS_Bijection
<1> QED BY <1>1, <1>11, UnitsFinite

-----------------------------------------------------------------------------
(***************************************************************************)
(* Order.                                                                  *)
(***************************************************************************)
\* The first place at which the values up to v leave out none of the first k.
LEMMA RankExists ==
  ASSUME NEW D, IsFiniteSet(D), NEW values \in [D -> Nat], NEW k \in 1..Cardinality(D)
  PROVE  \E v \in Range(values) : Below(values, v) < k /\ k <= UpTo(values, v)
<1> DEFINE below(v) == {i \in D : values[i] < v}
           upto(v) == {i \in D : values[i] <= v}
           T == {v \in Range(values) : k <= Cardinality(upto(v))}
<1>1. /\ Range(values) \in SUBSET Nat /\ Range(values) = {values[i] : i \in D}
      /\ IsFiniteSet(Range(values))
  <2>1. Range(values) = {values[i] : i \in D}
    BY DEF Range
  <2> QED BY <2>1, ImageFinite
<1>2. Cardinality(D) \in Nat /\ k \in Nat /\ k >= 1 /\ k <= Cardinality(D)
  BY FS_CardinalityType
<1>3. D # {}
  BY <1>2, FS_EmptySet
<1>4. PICK top \in Range(values) : \A v \in Range(values) : v <= top
  BY <1>1, <1>3, GreatestNumber, FS_Subset
<1>5. upto(top) = D
  BY <1>1, <1>4
<1>6. T \in SUBSET Nat /\ top \in T
  BY <1>1, <1>2, <1>4, <1>5
<1>7. PICK v \in T : \A w \in T : v <= w
  BY <1>6, LeastNumber
<1>8. Below(values, v) = Cardinality(below(v)) /\ UpTo(values, v) = Cardinality(upto(v))
  BY DEF Below, UpTo
<1>9. ASSUME ~(Cardinality(below(v)) < k) PROVE FALSE
  <2> DEFINE W == {values[i] : i \in below(v)}
  <2>1. IsFiniteSet(below(v)) /\ Cardinality(below(v)) \in Nat
    BY Part
  <2>2. below(v) # {}
    BY <1>2, <1>9, <2>1, FS_EmptySet
  <2>3. W \in SUBSET Range(values) /\ W # {}
    BY <1>1, <2>2
  <2>4. IsFiniteSet(W) /\ W \in SUBSET Nat
    BY <1>1, <2>3, FS_Subset
  <2>5. PICK w \in W : \A x \in W : x <= w
    BY <2>3, <2>4, GreatestNumber
  <2>6. w < v
    BY <2>5
  <2>7. upto(w) = below(v)
    <3>1. \A i \in D : values[i] \in Nat
      OBVIOUS
    <3>2. v \in Nat /\ w \in Nat
      BY <1>6, <2>4
    <3>3. \A i \in D : values[i] < v => values[i] <= w
      BY <2>5
    <3>4. \A i \in D : values[i] <= w => values[i] < v
      BY <2>6, <3>1, <3>2
    <3> QED BY <3>3, <3>4
  <2>8. k <= Cardinality(upto(w))
    BY <1>2, <1>9, <2>1, <2>7
  <2>9. w \in T
    BY <2>3, <2>5, <2>8
  <2>10. v <= w /\ v \in Nat /\ w \in Nat
    BY <1>6, <1>7, <2>9
  <2> QED BY <2>6, <2>10
<1>10. v \in Range(values) /\ k <= Cardinality(upto(v))
  BY <1>7
<1> QED BY <1>8, <1>9, <1>10

\* Sorted has every value's place, in ascending order.
LEMMA SortedAscends ==
  ASSUME NEW D, IsFiniteSet(D), NEW values \in [D -> Nat]
  PROVE  /\ Cardinality(D) \in Nat
         /\ Sorted(values) \in [1..Cardinality(D) -> Nat]
         /\ \A j, k \in 1..Cardinality(D) : j <= k => Sorted(values)[j] <= Sorted(values)[k]
<1> DEFINE n == Cardinality(D)
           s == Sorted(values)
           at(k) == CHOOSE v \in Range(values) : Below(values, v) < k /\ k <= UpTo(values, v)
<1>1. n \in Nat
  BY FS_CardinalityType
<1>2. s = [k \in 1..n |-> at(k)]
  BY DEF Sorted
<1>3. ASSUME NEW k \in 1..n
      PROVE  at(k) \in Range(values) /\ Below(values, at(k)) < k /\ k <= UpTo(values, at(k))
  <2>1. \E v \in Range(values) : Below(values, v) < k /\ k <= UpTo(values, v)
    BY RankExists
  <2> QED BY <2>1
<1>4. Range(values) \in SUBSET Nat
  BY DEF Range
<1> HIDE DEF at
<1>5. s \in [1..n -> Nat]
  BY <1>2, <1>3, <1>4
<1>6. ASSUME NEW j \in 1..n, NEW k \in 1..n, j <= k, ~(s[j] <= s[k]) PROVE FALSE
  <2>1. s[j] = at(j) /\ s[k] = at(k) /\ s[j] \in Nat /\ s[k] \in Nat
    BY <1>2, <1>5
  <2>2. {i \in D : values[i] <= s[k]} \subseteq {i \in D : values[i] < s[j]}
    <3>1. \A i \in D : values[i] \in Nat
      OBVIOUS
    <3> QED BY <1>6, <2>1, <3>1
  <2>3. IsFiniteSet({i \in D : values[i] < s[j]})
    BY FS_Subset
  <2>4. /\ UpTo(values, s[k]) <= Below(values, s[j])
        /\ UpTo(values, s[k]) \in Nat /\ Below(values, s[j]) \in Nat
    BY <2>2, <2>3, Part DEF UpTo, Below
  <2>5. Below(values, s[j]) < j /\ k <= UpTo(values, s[k])
    BY <1>3, <2>1
  <2> QED BY <1>6, <2>4, <2>5
<1> QED BY <1>1, <1>5, <1>6

LEMMA Times ==
  ASSUME NEW d \in Nat, NEW a \in Nat, NEW b \in Nat, a <= b
  PROVE  d * a <= d * b /\ d * a \in Nat
<1>1. PICK c \in Nat : b = a + c
  <2>1. b - a \in Nat /\ b = a + (b - a)
    OBVIOUS
  <2> QED BY <2>1
<1>2. d * b = d * a + d * c
  BY <1>1
<1>3. d * c \in Nat /\ d * a \in Nat
  OBVIOUS
<1> QED BY <1>2, <1>3

\* Where the percentile p of n values lies: frac thousandths past the one at lo.
Rank(n, p) == p * (n - 1)
Lo(n, p) == Rank(n, p) \div 1000 + 1
Frac(n, p) == Rank(n, p) % 1000

LEMMA PlaceOf ==
  ASSUME NEW n \in Nat, n >= 1, NEW p \in Nat, p <= 1000,
         NEW lo, lo = Lo(n, p), NEW frac, frac = Frac(n, p)
  PROVE  /\ Rank(n, p) \in Nat /\ Rank(n, p) = 1000 * (lo - 1) + frac
         /\ frac \in Nat /\ frac < 1000 /\ lo \in 1..n
         /\ frac # 0 => lo < n
<1>1. Rank(n, p) \in Nat /\ Rank(n, p) <= 1000 * (n - 1)
  <2>1. (n - 1) * p <= (n - 1) * 1000 /\ (n - 1) * p \in Nat
    <3>1. n - 1 \in Nat
      OBVIOUS
    <3> QED BY <3>1, Times
  <2>2. p * (n - 1) = (n - 1) * p
    OBVIOUS
  <2> QED BY <2>1, <2>2 DEF Rank
<1>2. PICK r \in Nat : r = Rank(n, p)
  BY <1>1
<1>3. r = 1000 * (r \div 1000) + (r % 1000) /\ r % 1000 \in 0..999 /\ r \div 1000 \in Nat
  OBVIOUS
<1>4. r <= 1000 * (n - 1)
  BY <1>1, <1>2
<1>5. lo = r \div 1000 + 1 /\ frac = r % 1000
  BY <1>2 DEF Lo, Frac
<1>6. r = 1000 * (lo - 1) + frac /\ frac \in Nat /\ frac < 1000 /\ lo \in Nat /\ lo >= 1
  BY <1>3, <1>5
<1>7. lo \in 1..n /\ (frac # 0 => lo < n)
  BY <1>4, <1>6
<1> QED BY <1>1, <1>2, <1>6, <1>7

\* The ranks of two percentiles are in the percentiles' order.
LEMMA RanksAscend ==
  ASSUME NEW n \in Nat, n >= 1, NEW p \in Nat, p <= 1000, NEW q \in Nat, q <= 1000, p <= q,
         NEW a, a = Lo(n, p), NEW f, f = Frac(n, p), NEW b, b = Lo(n, q), NEW g, g = Frac(n, q)
  PROVE  a < b \/ (a = b /\ f <= g)
<1>1. Rank(n, p) <= Rank(n, q)
  <2>1. n - 1 \in Nat /\ p \in Nat /\ q \in Nat
    OBVIOUS
  <2>2. (n - 1) * p <= (n - 1) * q
    BY <2>1, Times
  <2>3. p * (n - 1) = (n - 1) * p /\ q * (n - 1) = (n - 1) * q
    OBVIOUS
  <2> QED BY <2>2, <2>3 DEF Rank
<1>2. Rank(n, p) = 1000 * (a - 1) + f /\ f \in Nat /\ f < 1000 /\ a \in 1..n
  BY PlaceOf
<1>3. Rank(n, q) = 1000 * (b - 1) + g /\ g \in Nat /\ g < 1000 /\ b \in 1..n
  BY PlaceOf
<1>4. 1000 * (a - 1) + f <= 1000 * (b - 1) + g
  BY <1>1, <1>2, <1>3
<1> QED BY <1>2, <1>3, <1>4

\* Values in ascending order.
Ascending(s) == s \in Seq(Nat) /\ \A j, k \in 1..Len(s) : j <= k => s[j] <= s[k]

\* The percentile p is x, which lies between the value u at its place and w, which
\* is no greater than any later value.
Placed(s, p, lo, f, u, w, c, x) ==
  /\ lo \in 1..Len(s) /\ f \in Nat /\ u \in Nat /\ w \in Nat /\ c \in Nat /\ x \in Nat
  /\ lo = Lo(Len(s), p) /\ f = Frac(Len(s), p) /\ x = percentile_from_sorted(s, p)
  /\ x = 1000 * u + c /\ c = (w - u) * f /\ c <= 1000 * (w - u) /\ u <= w
  /\ u = s[lo] /\ (f # 0 => lo < Len(s) /\ w = s[lo + 1]) /\ (f = 0 => w = u)
  /\ \A k \in 1..Len(s), v \in Nat : lo < k /\ v = s[k] => w <= v

LEMMA Interpolated ==
  ASSUME NEW s, Ascending(s), Len(s) >= 1, NEW p \in Nat, p <= 1000
  PROVE  \E lo, f, u, w, c, x : Placed(s, p, lo, f, u, w, c, x)
<1>1. s \in Seq(Nat) /\ Len(s) \in Nat /\ Len(s) # 0 /\ \A k \in 1..Len(s) : s[k] \in Nat
  BY DEF Ascending
<1>2. PICK lo : lo = Lo(Len(s), p)
  OBVIOUS
<1>3. PICK f : f = Frac(Len(s), p)
  OBVIOUS
<1>4. lo \in 1..Len(s) /\ f \in Nat /\ f < 1000 /\ (f # 0 => lo < Len(s))
  BY <1>1, <1>2, <1>3, PlaceOf
<1>5. PICK u \in Nat : u = s[lo]
  BY <1>1, <1>4
<1>6. PICK x : x = percentile_from_sorted(s, p)
  OBVIOUS
<1>7. CASE f = 0
  <2>1. x = 1000 * s[lo]
    BY <1>1, <1>2, <1>3, <1>6, <1>7 DEF percentile_from_sorted, Lo, Frac, Rank
  <2>2. x = 1000 * u
    BY <1>5, <2>1
  <2>3. \A k \in 1..Len(s), v \in Nat : lo < k /\ v = s[k] => u <= v
    BY <1>1, <1>4, <1>5 DEF Ascending
  <2>4. x \in Nat /\ x = 1000 * u + 0 /\ 0 = (u - u) * f /\ 0 <= 1000 * (u - u) /\ u <= u
    BY <1>7, <2>2
  <2>5. Placed(s, p, lo, f, u, u, 0, x)
    BY <1>2, <1>3, <1>4, <1>5, <1>6, <1>7, <2>3, <2>4 DEF Placed
  <2> QED BY <2>5
<1>8. CASE f # 0
  <2>1. lo \in Nat /\ lo < Len(s) /\ lo + 1 \in 1..Len(s)
    BY <1>1, <1>4, <1>8
  <2>2. PICK w \in Nat : w = s[lo + 1]
    BY <1>1, <2>1
  <2>3. u <= w
    BY <1>1, <1>4, <1>5, <2>1, <2>2 DEF Ascending
  <2>4. PICK d \in Nat : d = w - u
    BY <2>3
  <2>5. d * f \in Nat /\ d * f <= d * 1000 /\ d * 1000 = 1000 * d
    BY <1>4, Times
  <2>6. PICK c \in Nat : c = d * f
    BY <2>5
  <2>7. c = (w - u) * f /\ c <= 1000 * (w - u)
    BY <2>4, <2>5, <2>6
  <2>8. x = 1000 * u + (w - u) * f
    BY <1>1, <1>2, <1>3, <1>5, <1>6, <1>8, <2>2 DEF percentile_from_sorted, Lo, Frac, Rank
  <2>9. x = 1000 * u + c /\ x \in Nat
    BY <2>7, <2>8
  <2>10. ASSUME NEW k \in 1..Len(s), NEW v \in Nat, lo < k, v = s[k] PROVE w <= v
    <3>1. lo + 1 <= k
      BY <1>1, <2>1, <2>10
    <3> QED BY <2>1, <2>2, <2>10, <3>1 DEF Ascending
  <2>11. Placed(s, p, lo, f, u, w, c, x)
    BY <1>2, <1>3, <1>4, <1>5, <1>6, <1>8, <2>1, <2>2, <2>3, <2>7, <2>9, <2>10 DEF Placed
  <2> QED BY <2>11
<1> QED BY <1>7, <1>8

\* Percentiles do not cross.
LEMMA PercentilesAscend ==
  ASSUME NEW s, Ascending(s), NEW p \in Nat, p <= 1000, NEW q \in Nat, q <= 1000, p <= q
  PROVE  \E x, y \in Nat : /\ x = percentile_from_sorted(s, p)
                           /\ y = percentile_from_sorted(s, q) /\ x <= y
<1>1. Len(s) \in Nat
  BY DEF Ascending
<1>2. CASE Len(s) = 0
  <2>1. percentile_from_sorted(s, p) = 0 /\ percentile_from_sorted(s, q) = 0
    BY <1>2 DEF percentile_from_sorted
  <2> QED BY <2>1
<1>3. CASE Len(s) # 0
  <2>1. Len(s) >= 1
    BY <1>1, <1>3
  <2>2. PICK a, f, u, w, c, x : Placed(s, p, a, f, u, w, c, x)
    BY <2>1, Interpolated
  <2>3. PICK b, g, r, z, e, y : Placed(s, q, b, g, r, z, e, y)
    BY <2>1, Interpolated
  <2>4. /\ a \in 1..Len(s) /\ f \in Nat /\ u \in Nat /\ w \in Nat /\ c \in Nat /\ x \in Nat
        /\ b \in 1..Len(s) /\ g \in Nat /\ r \in Nat /\ z \in Nat /\ e \in Nat /\ y \in Nat
        /\ u <= w /\ r <= z
    BY <2>2, <2>3 DEF Placed
  <2>5. a < b \/ (a = b /\ f <= g)
    <3>1. a = Lo(Len(s), p) /\ f = Frac(Len(s), p) /\ b = Lo(Len(s), q) /\ g = Frac(Len(s), q)
      BY <2>2, <2>3 DEF Placed
    <3> QED BY <1>1, <2>1, <3>1, RanksAscend
  <2>6. x = 1000 * u + c /\ c <= 1000 * (w - u)
    BY <2>2 DEF Placed
  <2>7. y = 1000 * r + e
    BY <2>3 DEF Placed
  <2>8. u = s[a] /\ r = s[b]
    BY <2>2, <2>3 DEF Placed
  <2>9. x <= y
    <3>1. CASE a < b
      <4>1. w <= r
        BY <2>2, <2>4, <2>8, <3>1 DEF Placed
      <4> QED BY <2>4, <2>6, <2>7, <4>1
    <3>2. CASE a = b /\ f = 0
      <4>1. w = u
        BY <2>2, <3>2 DEF Placed
      <4>2. u = r
        BY <2>8, <3>2
      <4> QED BY <2>4, <2>6, <2>7, <4>1, <4>2
    <3>3. CASE a = b /\ f # 0 /\ f <= g
      <4>1. g # 0
        BY <2>4, <3>3
      <4>2. w = s[a + 1] /\ z = s[b + 1]
        <5>1. w = s[a + 1]
          BY <2>2, <3>3 DEF Placed
        <5>2. z = s[b + 1]
          BY <2>3, <4>1 DEF Placed
        <5> QED BY <5>1, <5>2
      <4>3. w = z /\ u = r
        BY <2>8, <3>3, <4>2
      <4>4. c = (w - u) * f /\ e = (z - r) * g
        BY <2>2, <2>3 DEF Placed
      <4>5. PICK d \in Nat : d = w - u
        BY <2>4
      <4>6. d * f <= d * g
        BY <2>4, <3>3, Times
      <4>7. c = d * f /\ e = d * g
        BY <4>3, <4>4, <4>5
      <4>8. c <= e
        BY <4>6, <4>7
      <4> QED BY <2>4, <2>6, <2>7, <4>3, <4>8
    <3> QED BY <2>4, <2>5, <3>1, <3>2, <3>3
  <2>10. x = percentile_from_sorted(s, p) /\ y = percentile_from_sorted(s, q)
    BY <2>2, <2>3 DEF Placed
  <2> QED BY <2>4, <2>9, <2>10
<1> QED BY <1>2, <1>3

\* v lies outside Tukey's fences about the quartiles x and y.
Outside(x, y, v) == \/ 2000 * v < 2 * x - 3 * (y - x)
                    \/ 2000 * v > 2 * y + 3 * (y - x)

\* Some value lies within the fences.
LEMMA FencesHold ==
  ASSUME NEW s, Ascending(s), Len(s) >= 1,
         NEW x, x = percentile_from_sorted(s, 250), NEW y, y = percentile_from_sorted(s, 750)
  PROVE  \E k \in 1..Len(s) : ~Outside(x, y, s[k])
<1>1. PICK n \in Nat : n = Len(s) /\ n >= 1
  BY DEF Ascending
<1>2. PICK a, f, u, w, c, x0 : Placed(s, 250, a, f, u, w, c, x0)
  BY Interpolated
<1>3. PICK b, g, r, z, e, y0 : Placed(s, 750, b, g, r, z, e, y0)
  BY Interpolated
<1>4. /\ a \in 1..n /\ f \in Nat /\ u \in Nat /\ w \in Nat /\ c \in Nat /\ x \in Nat
      /\ b \in 1..n /\ g \in Nat /\ r \in Nat /\ z \in Nat /\ e \in Nat /\ y \in Nat
      /\ u <= w /\ r <= z
  BY <1>1, <1>2, <1>3 DEF Placed
<1>5. x = 1000 * u + c /\ c = (w - u) * f /\ c <= 1000 * (w - u)
  BY <1>2 DEF Placed
<1>6. y = 1000 * r + e /\ e = (z - r) * g
  BY <1>3 DEF Placed
<1>7. u = s[a] /\ r = s[b]
  BY <1>2, <1>3 DEF Placed
<1>8. 250 * (n - 1) = 1000 * (a - 1) + f /\ f < 1000
  <2>1. a = Lo(n, 250) /\ f = Frac(n, 250)
    BY <1>1, <1>2 DEF Placed
  <2> QED BY <1>1, <2>1, PlaceOf DEF Rank
<1>9. 750 * (n - 1) = 1000 * (b - 1) + g /\ g < 1000
  <2>1. b = Lo(n, 750) /\ g = Frac(n, 750)
    BY <1>1, <1>3 DEF Placed
  <2> QED BY <1>1, <2>1, PlaceOf DEF Rank
<1>10. a < b \/ (a = b /\ f = 0) \/ (n = 2 /\ a = 1 /\ b = 1 /\ f = 250 /\ g = 750)
  BY <1>1, <1>4, <1>8, <1>9
<1>11. CASE a < b \/ (a = b /\ f = 0)
  <2>1. w <= r
    <3>1. CASE a < b
      <4>1. \A k \in 1..Len(s), v \in Nat : a < k /\ v = s[k] => w <= v
        BY <1>2 DEF Placed
      <4>2. \A k \in 1..n, v \in Nat : a < k /\ v = s[k] => w <= v
        BY <1>1, <4>1
      <4> QED BY <1>4, <1>7, <3>1, <4>2
    <3>2. CASE a = b /\ f = 0
      <4>1. w = u
        BY <1>2, <3>2 DEF Placed
      <4> QED BY <1>4, <1>7, <3>2, <4>1
    <3> QED BY <1>11, <3>1, <3>2
  <2>2. PICK k \in 1..n : s[k] = w
    <3>1. CASE f = 0
      BY <1>2, <1>4, <1>7, <3>1 DEF Placed
    <3>2. CASE f # 0
      <4>1. a < n /\ w = s[a + 1]
        BY <1>1, <1>2, <3>2 DEF Placed
      <4>2. a + 1 \in 1..n
        BY <1>1, <1>4, <4>1
      <4> QED BY <4>1, <4>2
    <3> QED BY <3>1, <3>2
  <2>3. x <= 1000 * w /\ 1000 * w <= y
    BY <1>4, <1>5, <1>6, <2>1
  <2>4. ~Outside(x, y, w)
    BY <1>4, <2>3 DEF Outside
  <2> QED BY <1>1, <2>2, <2>4
<1>12. CASE n = 2 /\ a = 1 /\ b = 1 /\ f = 250 /\ g = 750
  <2>1. w = s[a + 1]
    BY <1>2, <1>12 DEF Placed
  <2>2. z = s[b + 1]
    BY <1>3, <1>12 DEF Placed
  <2>3. w = z /\ u = r
    BY <1>7, <1>12, <2>1, <2>2
  <2>4. PICK d \in Nat : d = w - u
    BY <1>4
  <2>5. x = 1000 * u + 250 * d /\ y = 1000 * u + 750 * d
    <3>1. c = d * 250 /\ e = d * 750
      BY <1>5, <1>6, <1>12, <2>3, <2>4
    <3> QED BY <1>4, <1>5, <1>6, <2>3, <3>1
  <2>6. ~Outside(x, y, u)
    BY <1>4, <2>5 DEF Outside
  <2> QED BY <1>1, <1>4, <1>7, <2>6
<1> QED BY <1>10, <1>11, <1>12

LEMMA OutliersAreFew ==
  ASSUME NEW s, Ascending(s)
  PROVE  /\ outliers(s) \in Nat /\ Len(s) \in Nat
         /\ Len(s) = 0 => outliers(s) = 0
         /\ Len(s) # 0 => outliers(s) < Len(s)
<1>1. s \in Seq(Nat) /\ Len(s) \in Nat /\ DOMAIN s = 1..Len(s)
  BY DEF Ascending
<1>2. PICK x : x = percentile_from_sorted(s, 250)
  OBVIOUS
<1>3. PICK y : y = percentile_from_sorted(s, 750)
  OBVIOUS
<1>4. PICK out : out = {i \in DOMAIN s : Outside(x, y, s[i])}
  OBVIOUS
<1>5. outliers(s) = Cardinality(out)
  BY <1>2, <1>3, <1>4 DEF outliers, Outside
<1>6. IsFiniteSet(1..Len(s)) /\ Cardinality(1..Len(s)) = Len(s)
  <2>1. PICK n : n = Len(s)
    OBVIOUS
  <2>2. n \in Nat
    BY <1>1, <2>1
  <2>3. IsFiniteSet(1..n) /\ Cardinality(1..n) = n
    BY <2>2, FS_Interval
  <2> QED BY <2>1, <2>3
<1>7. out \subseteq 1..Len(s)
  BY <1>1, <1>4
<1>8. CASE Len(s) = 0
  <2>1. out = {}
    BY <1>7, <1>8
  <2> QED BY <1>1, <1>5, <1>8, <2>1, FS_EmptySet
<1>9. CASE Len(s) # 0
  <2>1. \E k \in 1..Len(s) : ~Outside(x, y, s[k])
    BY <1>1, <1>2, <1>3, <1>9, FencesHold
  <2>2. out # 1..Len(s)
    BY <1>4, <2>1
  <2> QED BY <1>1, <1>5, <1>6, <1>7, <1>9, <2>2, Part
<1> QED BY <1>8, <1>9

-----------------------------------------------------------------------------
(***************************************************************************)
(* Summaries.                                                              *)
(***************************************************************************)
\* Attempts come in a list, and what is measured is a natural number.
Measured(attempts) ==
  /\ attempts \in Seq(Range(attempts))
  /\ \A i \in DOMAIN attempts :
       /\ primary_metric_value(attempts[i]) \in Nat \cup {Unknown}
       /\ attempt_bytes_transferred(attempts[i]) \in Nat

LEMMA BenchmarksMeasured ==
  ASSUME NEW b \in Benchmarks
  PROVE  Measured(b.attempts)
<1>1. /\ b.attempts \in Seq(Range(b.attempts))
      /\ \A i \in DOMAIN b.attempts : \A q \in DOMAIN b.attempts[i].parts :
           /\ b.attempts[i].parts[q].value \in Nat \cup {Unknown}
           /\ b.attempts[i].parts[q].bytes \in Nat
  BY BenchmarksAssumption
<1>2. ASSUME NEW i \in DOMAIN b.attempts
      PROVE  primary_metric_value(b.attempts[i]) \in Nat \cup {Unknown}
  BY <1>1 DEF primary_metric_value
<1>3. ASSUME NEW i \in DOMAIN b.attempts
      PROVE  attempt_bytes_transferred(b.attempts[i]) \in Nat
  BY <1>1 DEF attempt_bytes_transferred
<1> QED BY <1>1, <1>2, <1>3 DEF Measured

LEMMA AttemptsFinite ==
  ASSUME NEW attempts, Measured(attempts)
  PROVE  IsFiniteSet(DOMAIN attempts)
<1>1. PICK n : n = Len(attempts)
  OBVIOUS
<1>2. n \in Nat /\ DOMAIN attempts = 1..n
  BY <1>1 DEF Measured
<1>3. IsFiniteSet(1..n)
  BY <1>2, FS_Interval
<1> QED BY <1>2, <1>3

\* The attempts a summary's values are those of.
Sampled(attempts, these) ==
  {i \in these : attempts[i].ok /\ primary_metric_value(attempts[i]) # Unknown}
SucceededAmong(attempts, these) == {i \in these : attempts[i].ok}
Bytes(attempts, these) == [i \in these |-> attempt_bytes_transferred(attempts[i])]

\* s is the summary of the attempts numbered in these.
Counted(s, id, attempts, these) ==
  /\ s.id = id
  /\ IsFiniteSet(these) /\ IsFiniteSet(Sampled(attempts, these))
  /\ s.sample_count = Cardinality(these) /\ s.sample_count \in Nat
  /\ s.included = Cardinality(Sampled(attempts, these)) /\ s.included \in Nat
  /\ s.success_count = Cardinality(SucceededAmong(attempts, these)) /\ s.success_count \in Nat
  /\ s.failure_count = s.sample_count - s.success_count /\ s.failure_count \in Nat
  /\ s.failure_count = 0 => \A i \in these : attempts[i].ok
  /\ s.bytes = Sum(Bytes(attempts, these))
  /\ Ascending(s.values) /\ Len(s.values) = s.included
  /\ s.percentiles = [i \in DOMAIN Percentiles |->
                        percentile_from_sorted(s.values, Percentiles[i])]
  /\ s.outlier_count = outliers(s.values)

LEMMA SummaryCounts ==
  ASSUME NEW attempts, Measured(attempts), NEW these \in SUBSET DOMAIN attempts, NEW id,
         NEW s, s = benchmark_summary_from_attempts(id, attempts, these)
  PROVE  Counted(s, id, attempts, these)
<1> DEFINE kept == Sampled(attempts, these)
           ok == SucceededAmong(attempts, these)
           value == [i \in kept |-> primary_metric_value(attempts[i])]
<1>1. IsFiniteSet(these)
  BY AttemptsFinite, FS_Subset
<1>2. kept \subseteq these /\ ok \subseteq these
  BY DEF Sampled, SucceededAmong
<1>3. /\ IsFiniteSet(kept) /\ Cardinality(kept) \in Nat /\ Cardinality(these) \in Nat
      /\ Cardinality(ok) \in Nat /\ Cardinality(ok) <= Cardinality(these)
      /\ ok # these => Cardinality(ok) < Cardinality(these)
  BY <1>1, <1>2, Part
<1>4. value \in [kept -> Nat]
  <2>1. ASSUME NEW i \in kept PROVE primary_metric_value(attempts[i]) \in Nat
    BY DEF Measured, Sampled
  <2> QED BY <2>1
<1>5. PICK values : values = Sorted(value)
  OBVIOUS
<1>6. PICK m : m = Cardinality(kept)
  OBVIOUS
<1>7. m \in Nat
  BY <1>3, <1>6
<1>8. /\ values \in [1..m -> Nat]
      /\ \A j, k \in 1..m : j <= k => values[j] <= values[k]
  <2> HIDE DEF kept, value
  <2> QED BY <1>3, <1>4, <1>5, <1>6, SortedAscends
<1>9. values \in Seq(Nat) /\ Len(values) = m
  BY <1>7, <1>8
<1>10. Ascending(values)
  BY <1>8, <1>9 DEF Ascending
<1>11. PICK n : n = Cardinality(these)
  OBVIOUS
<1>12. PICK g : g = Cardinality(ok)
  OBVIOUS
<1>13. s = [id |-> id, sample_count |-> n, included |-> Len(values), excluded |-> n - Len(values),
            success_count |-> g, failure_count |-> n - g,
            bytes |-> Sum(Bytes(attempts, these)), values |-> values,
            percentiles |-> [i \in DOMAIN Percentiles |-> percentile_from_sorted(values, Percentiles[i])],
            outlier_count |-> outliers(values)]
  BY <1>5, <1>11, <1>12 DEF benchmark_summary_from_attempts, Sampled, SucceededAmong, Bytes
<1>14. n \in Nat /\ g \in Nat /\ n - g \in Nat /\ (n - g = 0 => \A i \in these : attempts[i].ok)
  <2>1. n \in Nat /\ g \in Nat /\ g <= n /\ (ok # these => g < n)
    BY <1>3, <1>11, <1>12
  <2>2. n - g = 0 => ok = these
    BY <2>1
  <2>3. ok = these => \A i \in these : attempts[i].ok
    BY DEF SucceededAmong
  <2> QED BY <2>1, <2>2, <2>3
<1>15. /\ s.id = id /\ s.sample_count = n /\ s.included = m /\ s.success_count = g
       /\ s.failure_count = n - g /\ s.bytes = Sum(Bytes(attempts, these)) /\ s.values = values
       /\ s.percentiles = [i \in DOMAIN Percentiles |-> percentile_from_sorted(values, Percentiles[i])]
       /\ s.outlier_count = outliers(values)
  BY <1>9, <1>13
<1> HIDE DEF kept, ok, value
<1>16. /\ s.sample_count = Cardinality(these) /\ s.sample_count \in Nat
       /\ s.included = Cardinality(kept) /\ s.included \in Nat
       /\ s.success_count = Cardinality(ok) /\ s.success_count \in Nat
       /\ s.failure_count = s.sample_count - s.success_count /\ s.failure_count \in Nat
       /\ s.failure_count = 0 => \A i \in these : attempts[i].ok
  BY <1>6, <1>7, <1>11, <1>12, <1>14, <1>15
<1>17. Ascending(s.values) /\ Len(s.values) = s.included
  BY <1>9, <1>10, <1>15
<1> QED BY <1>1, <1>3, <1>15, <1>16, <1>17 DEF kept, ok, Counted

\* What a summary says agrees with itself.
LEMMA SummaryAgrees ==
  ASSUME NEW attempts, Measured(attempts), NEW these \in SUBSET DOMAIN attempts, NEW id,
         NEW s, s = benchmark_summary_from_attempts(id, attempts, these)
  PROVE  /\ s.sample_count = s.success_count + s.failure_count
         /\ \A i \in 1..(Len(Percentiles) - 1) : s.percentiles[i] <= s.percentiles[i + 1]
         /\ s.outlier_count < Max({s.included, 1})
<1>1. Counted(s, id, attempts, these)
  BY SummaryCounts
<1>2. /\ s.sample_count \in Nat /\ s.success_count \in Nat
      /\ s.failure_count = s.sample_count - s.success_count
  BY <1>1 DEF Counted
<1>3. /\ s.included \in Nat /\ Ascending(s.values) /\ Len(s.values) = s.included
      /\ s.percentiles = [i \in DOMAIN Percentiles |->
                            percentile_from_sorted(s.values, Percentiles[i])]
      /\ s.outlier_count = outliers(s.values)
  BY <1>1 DEF Counted
<1>4. s.sample_count = s.success_count + s.failure_count
  BY <1>2
<1>5. Len(Percentiles) = 7 /\ DOMAIN Percentiles = 1..7
  BY DEF Percentiles
<1>6. ASSUME NEW i \in 1..6 PROVE s.percentiles[i] <= s.percentiles[i + 1]
  <2>1. i \in 1..7 /\ i + 1 \in 1..7
    OBVIOUS
  <2>2. PICK p \in Nat : p = Percentiles[i]
    BY DEF Percentiles
  <2>3. PICK q \in Nat : q = Percentiles[i + 1]
    BY DEF Percentiles
  <2>4. p <= q /\ p <= 1000 /\ q <= 1000
    BY <2>2, <2>3 DEF Percentiles
  <2>5. PICK x \in Nat, y \in Nat : /\ x = percentile_from_sorted(s.values, p)
                                    /\ y = percentile_from_sorted(s.values, q) /\ x <= y
    BY <1>3, <2>4, PercentilesAscend
  <2>6. /\ s.percentiles[i] = percentile_from_sorted(s.values, p)
        /\ s.percentiles[i + 1] = percentile_from_sorted(s.values, q)
    BY <1>3, <1>5, <2>1, <2>2, <2>3
  <2> QED BY <2>5, <2>6
<1>7. s.outlier_count < Max({s.included, 1})
  <2>1. PICK m \in Nat : m = s.included
    BY <1>3
  <2>2. Max({m, 1}) = IF m > 1 THEN m ELSE 1
    BY DEF Max
  <2>3. /\ s.outlier_count \in Nat /\ (m = 0 => s.outlier_count = 0)
        /\ (m # 0 => s.outlier_count < m)
    BY <1>3, <2>1, OutliersAreFew
  <2> QED BY <2>1, <2>2, <2>3
<1> QED BY <1>4, <1>5, <1>6, <1>7

-----------------------------------------------------------------------------
(***************************************************************************)
(* The cases of an artifact.                                               *)
(***************************************************************************)
\* The measured attempts of a case.
Cell(run, id) == {i \in primary_attempts(run) : benchmark_case_id(run.attempts[i]) = id}
Summaries(run) == {case_summary(run, c) : c \in benchmark_cases(run)}

\* Every case has one summary, and every measured attempt has a case.
LEMMA SummariesSplit ==
  ASSUME NEW run \in Benchmarks
  PROVE  /\ IsFiniteSet(Summaries(run))
         /\ \A s \in Summaries(run) :
              s = benchmark_summary_from_attempts(s.id, run.attempts, Cell(run, s.id))
         /\ \A s \in Summaries(run) : Counted(s, s.id, run.attempts, Cell(run, s.id))
         /\ \A s, t \in Summaries(run) : s.id = t.id => s = t
         /\ \A i \in primary_attempts(run) : \E s \in Summaries(run) :
              s.id = benchmark_case_id(run.attempts[i]) /\ i \in Cell(run, s.id)
<1> DEFINE D == DOMAIN run.attempts
           case(i) == benchmark_case_for_attempt(run.attempts[i])
           of(id) == benchmark_summary_from_attempts(id, run.attempts, Cell(run, id))
<1>1. Measured(run.attempts)
  BY BenchmarksMeasured
<1>2. IsFiniteSet(D)
  BY <1>1, AttemptsFinite
<1>3. \A c : case_summary(run, c) = of(c.id)
  BY DEF case_summary, Cell
<1>4. \A id : Cell(run, id) \in SUBSET D
  BY DEF Cell, primary_attempts
<1>5. ASSUME NEW id PROVE Counted(of(id), id, run.attempts, Cell(run, id)) /\ of(id).id = id
  <2>1. PICK these : these = Cell(run, id)
    OBVIOUS
  <2>2. these \in SUBSET DOMAIN run.attempts
    BY <1>4, <2>1
  <2>3. PICK s : s = benchmark_summary_from_attempts(id, run.attempts, these)
    OBVIOUS
  <2>4. Counted(s, id, run.attempts, these)
    BY <1>1, <2>2, <2>3, SummaryCounts
  <2>5. s.id = id
    BY <2>4 DEF Counted
  <2> QED BY <2>1, <2>3, <2>4, <2>5
<1>6. \A i : case(i).id = benchmark_case_id(run.attempts[i])
  BY DEF benchmark_case_for_attempt
<1>7. Summaries(run) = {of(case(i).id) : i \in D}
  BY <1>3 DEF Summaries, benchmark_cases
<1> HIDE DEF of, case
<1>8. IsFiniteSet(Summaries(run))
  <2>1. PICK f : f = [i \in D |-> of(case(i).id)]
    OBVIOUS
  <2>2. DOMAIN f = D /\ f = [i \in D |-> f[i]] /\ Summaries(run) = {f[i] : i \in D}
    BY <1>7, <2>1
  <2> QED BY <1>2, <2>2, ImageFinite
<1>9. ASSUME NEW s \in Summaries(run) PROVE s = of(s.id)
  BY <1>5, <1>7
<1>10. \A s, t \in Summaries(run) : s.id = t.id => s = t
  BY <1>9
<1>11. ASSUME NEW s \in Summaries(run) PROVE Counted(s, s.id, run.attempts, Cell(run, s.id))
  <2>1. Counted(of(s.id), s.id, run.attempts, Cell(run, s.id))
    BY <1>5
  <2> QED BY <1>9, <2>1
<1>12. ASSUME NEW i \in primary_attempts(run)
       PROVE  \E s \in Summaries(run) :
                s.id = benchmark_case_id(run.attempts[i]) /\ i \in Cell(run, s.id)
  <2>1. i \in D
    BY DEF primary_attempts
  <2>2. of(case(i).id) \in Summaries(run)
    BY <1>7, <2>1
  <2>3. of(case(i).id).id = benchmark_case_id(run.attempts[i])
    BY <1>5, <1>6
  <2>4. i \in Cell(run, benchmark_case_id(run.attempts[i]))
    BY DEF Cell
  <2> QED BY <2>2, <2>3, <2>4
<1> QED BY <1>8, <1>9, <1>10, <1>11, <1>12 DEF of

\* The cases add up to all that was measured.
LEMMA CasesAddUp ==
  ASSUME NEW run \in Benchmarks, NEW whole,
         Counted(whole, "aggregate", run.attempts, primary_attempts(run))
  PROVE  /\ Sum([s \in Summaries(run) |-> s.sample_count]) = whole.sample_count
         /\ Sum([s \in Summaries(run) |-> s.included]) = whole.included
         /\ Sum([s \in Summaries(run) |-> s.bytes]) = whole.bytes
<1> DEFINE S == Summaries(run)
           at == run.attempts
           all == primary_attempts(run)
<1>1. /\ IsFiniteSet(S) /\ \A s, t \in S : s.id = t.id => s = t
      /\ \A i \in all : \E s \in S : i \in Cell(run, s.id)
  BY SummariesSplit
<1>2. \A s \in S : Counted(s, s.id, at, Cell(run, s.id))
  BY SummariesSplit
<1>3. /\ \A id : Cell(run, id) \subseteq all
      /\ \A s, t \in S : s # t => Cell(run, s.id) \cap Cell(run, t.id) = {}
  BY <1>1 DEF Cell
<1>4. Measured(at)
  BY BenchmarksMeasured
<1> HIDE DEF S, at, all
<1>5. Sum([s \in S |-> s.sample_count]) = whole.sample_count
  <2>1. PICK U : U = [s \in S |-> Cell(run, s.id)]
    OBVIOUS
  <2>2. PICK g : g = [s \in S |-> s.sample_count]
    OBVIOUS
  <2>3. \A s \in S : /\ IsFiniteSet(Cell(run, s.id)) /\ s.sample_count \in Nat
                     /\ s.sample_count = Cardinality(Cell(run, s.id))
    BY <1>2 DEF Counted
  <2>4. /\ DOMAIN U = S /\ \A s \in S : IsFiniteSet(U[s])
        /\ \A s, t \in S : s # t => U[s] \cap U[t] = {}
        /\ g \in [S -> Nat] /\ \A s \in S : g[s] = Cardinality(U[s])
    BY <1>3, <2>1, <2>2, <2>3
  <2>5. UNION {U[s] : s \in S} = all
    BY <1>1, <1>3, <2>1
  <2>6. Cardinality(all) = Sum(g)
    <3>1. Splits(S, U, g, all)
      BY <2>4, <2>5 DEF Splits
    <3> QED BY <1>1, <3>1, CountUnits
  <2>7. whole.sample_count = Cardinality(all)
    BY DEF Counted, all
  <2> QED BY <2>2, <2>6, <2>7
<1>6. Sum([s \in S |-> s.included]) = whole.included
  <2>1. PICK U : U = [s \in S |-> Sampled(at, Cell(run, s.id))]
    OBVIOUS
  <2>2. PICK g : g = [s \in S |-> s.included]
    OBVIOUS
  <2>3. \A s \in S : /\ IsFiniteSet(Sampled(at, Cell(run, s.id))) /\ s.included \in Nat
                     /\ s.included = Cardinality(Sampled(at, Cell(run, s.id)))
    BY <1>2 DEF Counted
  <2>4. \A s, t \in S : s # t => Sampled(at, Cell(run, s.id)) \cap Sampled(at, Cell(run, t.id)) = {}
    BY <1>3 DEF Sampled
  <2>5. /\ DOMAIN U = S /\ \A s \in S : IsFiniteSet(U[s])
        /\ \A s, t \in S : s # t => U[s] \cap U[t] = {}
        /\ g \in [S -> Nat] /\ \A s \in S : g[s] = Cardinality(U[s])
    BY <2>1, <2>2, <2>3, <2>4
  <2>6. UNION {U[s] : s \in S} = Sampled(at, all)
    BY <1>1, <1>3, <2>1 DEF Sampled
  <2>7. Cardinality(Sampled(at, all)) = Sum(g)
    <3>1. Splits(S, U, g, Sampled(at, all))
      BY <2>5, <2>6 DEF Splits
    <3> QED BY <1>1, <3>1, CountUnits
  <2>8. whole.included = Cardinality(Sampled(at, all))
    BY DEF Counted, all, at
  <2> QED BY <2>2, <2>7, <2>8
<1>7. Sum([s \in S |-> s.bytes]) = whole.bytes
  <2>1. PICK U : U = [s \in S |-> Units(Bytes(at, Cell(run, s.id)))]
    OBVIOUS
  <2>2. PICK g : g = [s \in S |-> s.bytes]
    OBVIOUS
  <2>3. ASSUME NEW these \in SUBSET DOMAIN at
        PROVE  /\ IsFiniteSet(these)
               /\ IsFiniteSet(Units(Bytes(at, these))) /\ Sum(Bytes(at, these)) \in Nat
               /\ Sum(Bytes(at, these)) = Cardinality(Units(Bytes(at, these)))
               /\ \A q \in Units(Bytes(at, these)) : q[1] \in these
               /\ Units(Bytes(at, these))
                    = UNION {{i} \X (1..attempt_bytes_transferred(at[i])) : i \in these}
    <3>1. IsFiniteSet(these)
      BY <1>4, AttemptsFinite, FS_Subset
    <3>2. Bytes(at, these) \in [these -> Nat]
      BY <1>4 DEF Bytes, Measured
    <3>3. Units(Bytes(at, these))
            = UNION {{i} \X (1..attempt_bytes_transferred(at[i])) : i \in these}
      BY DEF Units, Bytes
    <3>4. PICK B : B = Bytes(at, these)
      OBVIOUS
    <3>5. IsFiniteSet(Units(B)) /\ Sum(B) = Cardinality(Units(B)) /\ Sum(B) \in Nat
      BY <3>1, <3>2, <3>4, UnitsFinite
    <3>6. \A q \in Units(Bytes(at, these)) : q[1] \in these
      BY <3>3
    <3> QED BY <3>1, <3>3, <3>4, <3>5, <3>6
  <2>4. all \in SUBSET DOMAIN at /\ \A s \in S : Cell(run, s.id) \in SUBSET DOMAIN at
    BY <1>3 DEF primary_attempts, all, at
  <2>5. \A s \in S : s.bytes = Sum(Bytes(at, Cell(run, s.id)))
    BY <1>2 DEF Counted
  <2>6. \A s, t \in S : s # t => U[s] \cap U[t] = {}
    <3>1. \A s \in S : \A q \in U[s] : q[1] \in Cell(run, s.id)
      BY <2>1, <2>3, <2>4
    <3> QED BY <1>3, <3>1
  <2>7. /\ DOMAIN U = S /\ \A s \in S : IsFiniteSet(U[s])
        /\ g \in [S -> Nat] /\ \A s \in S : g[s] = Cardinality(U[s])
    BY <2>1, <2>2, <2>3, <2>4, <2>5
  <2>8. UNION {U[s] : s \in S} = Units(Bytes(at, all))
    <3>1. \A s \in S : U[s] = UNION {{i} \X (1..attempt_bytes_transferred(at[i])) : i \in Cell(run, s.id)}
      BY <2>1, <2>3, <2>4
    <3>2. Units(Bytes(at, all)) = UNION {{i} \X (1..attempt_bytes_transferred(at[i])) : i \in all}
      BY <2>3, <2>4
    <3> QED BY <1>1, <1>3, <3>1, <3>2
  <2>9. Cardinality(Units(Bytes(at, all))) = Sum(g)
    <3>1. Splits(S, U, g, Units(Bytes(at, all)))
      BY <2>6, <2>7, <2>8 DEF Splits
    <3> QED BY <1>1, <3>1, CountUnits
  <2>10. whole.bytes = Cardinality(Units(Bytes(at, all)))
    <3>1. whole.bytes = Sum(Bytes(at, all))
      BY DEF Counted, all, at
    <3> QED BY <2>3, <2>4, <3>1
  <2> QED BY <2>2, <2>9, <2>10
<1> QED BY <1>5, <1>6, <1>7 DEF S

\* The sections of an artifact.
Sections(a, run, wide, modal) ==
  /\ a.run = run /\ a.cases = benchmark_cases(run) /\ a.summaries = Summaries(run)
  /\ a.summary = benchmark_summary_from_attempts("aggregate", run.attempts, primary_attempts(run))
  /\ a.metric[2] = aggregate_metric_unit(benchmark_cases(run))
  /\ a.samples = [i \in DOMAIN run.attempts |->
                    [case |-> benchmark_case_id(run.attempts[i]),
                     status |-> benchmark_sample_for_attempt(run.attempts[i], run.phase)]]
  /\ a.launch = benchmark_launch_from_records(run)
  /\ a.quality = benchmark_data_quality(run, a.summaries, a.summary, wide, modal)

LEMMA ArtifactSections ==
  ASSUME NEW run, NEW wide, NEW modal, NEW a, a = to_benchmark_artifact(run, wide, modal)
  PROVE  \E w, m : Sections(a, run, w, m)
<1>1. PICK S : S = Summaries(run)
  OBVIOUS
<1>2. PICK cases : cases = benchmark_cases(run)
  OBVIOUS
<1>3. PICK whole : whole = benchmark_summary_from_attempts("aggregate", run.attempts, primary_attempts(run))
  OBVIOUS
<1>4. PICK candidates : candidates = {s.id : s \in {x \in S : MayBeWide(x)}}
  OBVIOUS
<1>5. PICK samples : samples = [i \in DOMAIN run.attempts |->
                    [case |-> benchmark_case_id(run.attempts[i]),
                     status |-> benchmark_sample_for_attempt(run.attempts[i], run.phase)]]
  OBVIOUS
<1>6. a = [run |-> run, cases |-> cases, summaries |-> S, summary |-> whole,
           metric |-> <<aggregate_metric_name(cases), aggregate_metric_unit(cases)>>,
           samples |-> samples, launch |-> benchmark_launch_from_records(run),
           quality |-> benchmark_data_quality(run, S, whole,
                         wide \cap candidates, modal \cap candidates)]
  BY <1>1, <1>2, <1>3, <1>4, <1>5 DEF to_benchmark_artifact, Summaries
<1>7. /\ a.run = run /\ a.cases = cases /\ a.summaries = S /\ a.summary = whole
      /\ a.metric[2] = aggregate_metric_unit(cases) /\ a.samples = samples
      /\ a.launch = benchmark_launch_from_records(run)
      /\ a.quality = benchmark_data_quality(run, S, whole,
                       wide \cap candidates, modal \cap candidates)
  BY <1>6
<1> QED BY <1>1, <1>2, <1>3, <1>5, <1>7 DEF Sections

\* A summary is over exactly the samples listed as included.
LEMMA IncludedAreListed ==
  ASSUME NEW run \in Benchmarks, NEW s \in Summaries(run), NEW samples,
         samples = [i \in DOMAIN run.attempts |->
                      [case |-> benchmark_case_id(run.attempts[i]),
                       status |-> benchmark_sample_for_attempt(run.attempts[i], run.phase)]]
  PROVE  s.included = Cardinality({i \in DOMAIN samples :
           samples[i].case = s.id /\ samples[i].status \in {"included", "included_after_retry"}})
<1>1. Counted(s, s.id, run.attempts, Cell(run, s.id))
  BY SummariesSplit
<1>2. s.included = Cardinality(Sampled(run.attempts, Cell(run, s.id)))
  BY <1>1 DEF Counted
<1>3. ASSUME NEW i \in DOMAIN run.attempts
      PROVE  benchmark_sample_for_attempt(run.attempts[i], run.phase)
               \in {"included", "included_after_retry"}
             <=> /\ run.attempts[i].phase = run.phase /\ run.attempts[i].ok
                 /\ primary_metric_value(run.attempts[i]) # Unknown
  BY DEF benchmark_sample_for_attempt
<1>4. {i \in DOMAIN samples :
         samples[i].case = s.id /\ samples[i].status \in {"included", "included_after_retry"}}
      = {i \in DOMAIN run.attempts :
           /\ benchmark_case_id(run.attempts[i]) = s.id /\ run.attempts[i].phase = run.phase
           /\ run.attempts[i].ok /\ primary_metric_value(run.attempts[i]) # Unknown}
  BY <1>3
<1>5. Sampled(run.attempts, Cell(run, s.id))
      = {i \in DOMAIN run.attempts :
           /\ benchmark_case_id(run.attempts[i]) = s.id /\ run.attempts[i].phase = run.phase
           /\ run.attempts[i].ok /\ primary_metric_value(run.attempts[i]) # Unknown}
  BY DEF Sampled, Cell, primary_attempts
<1> QED BY <1>2, <1>4, <1>5

\* An aggregate has a unit of its own only if all cases share it.
LEMMA UnitIsShared ==
  ASSUME NEW run \in Benchmarks, aggregate_metric_unit(benchmark_cases(run)) # "mixed",
         NEW c \in benchmark_cases(run)
  PROVE  c.unit = aggregate_metric_unit(benchmark_cases(run))
<1> DEFINE units == {x.unit : x \in benchmark_cases(run)}
<1>1. benchmark_cases(run) # {} /\ c.unit \in units
  OBVIOUS
<1>2. IsFiniteSet(units)
  <2>1. PICK D : D = DOMAIN run.attempts
    OBVIOUS
  <2>2. PICK f : f = [i \in D |-> benchmark_case_for_attempt(run.attempts[i]).unit]
    OBVIOUS
  <2>3. units = {f[i] : i \in D}
    BY <2>1, <2>2 DEF benchmark_cases
  <2>4. DOMAIN f = D /\ f = [i \in D |-> f[i]]
    BY <2>2
  <2>5. IsFiniteSet(D)
    BY <2>1, BenchmarksMeasured, AttemptsFinite
  <2>6. IsFiniteSet({f[i] : i \in D})
    BY <2>4, <2>5, ImageFinite
  <2> QED BY <2>3, <2>6
<1>3. aggregate_metric_unit(benchmark_cases(run)) = aggregate_metric(units, "mixed")
  BY <1>1 DEF aggregate_metric_unit
<1>4. Cardinality(units) = 1 /\ aggregate_metric(units, "mixed") = CHOOSE v \in units : TRUE
  BY <1>3 DEF aggregate_metric
<1> HIDE DEF units
<1>5. PICK x : units = {x}
  BY <1>2, <1>4, FS_Singleton
<1>6. (CHOOSE v \in units : TRUE) \in units
  BY <1>1
<1> QED BY <1>1, <1>3, <1>4, <1>5, <1>6

LEMMA ArtifactReconciles ==
  ASSUME NEW run \in Benchmarks, NEW wide, NEW modal, NEW a,
         Sections(a, run, wide, modal)
  PROVE  Reconciles(a)
<1>1. /\ a.cases = benchmark_cases(run) /\ a.summaries = Summaries(run)
      /\ a.summary = benchmark_summary_from_attempts("aggregate", run.attempts, primary_attempts(run))
      /\ a.metric[2] = aggregate_metric_unit(benchmark_cases(run))
      /\ a.launch = benchmark_launch_from_records(run)
  BY DEF Sections
<1>2. Measured(run.attempts)
  BY BenchmarksMeasured
<1>3. primary_attempts(run) \in SUBSET DOMAIN run.attempts
  BY DEF primary_attempts
<1>4. Counted(a.summary, "aggregate", run.attempts, primary_attempts(run))
  BY <1>1, <1>2, <1>3, SummaryCounts
<1>5. ASSUME NEW s \in a.summaries
      PROVE  /\ s.included = Cardinality({i \in DOMAIN a.samples :
                  a.samples[i].case = s.id /\ a.samples[i].status \in {"included", "included_after_retry"}})
             /\ s.sample_count = s.success_count + s.failure_count
             /\ \A i \in 1..(Len(Percentiles) - 1) : s.percentiles[i] <= s.percentiles[i + 1]
             /\ s.outlier_count < Max({s.included, 1})
  <2>1. s \in Summaries(run)
    BY <1>1
  <2>2. s = benchmark_summary_from_attempts(s.id, run.attempts, Cell(run, s.id))
    BY <2>1, SummariesSplit
  <2>3. Cell(run, s.id) \in SUBSET DOMAIN run.attempts
    BY DEF Cell, primary_attempts
  <2>4. /\ s.sample_count = s.success_count + s.failure_count
        /\ \A i \in 1..(Len(Percentiles) - 1) : s.percentiles[i] <= s.percentiles[i + 1]
        /\ s.outlier_count < Max({s.included, 1})
    BY <1>2, <2>2, <2>3, SummaryAgrees
  <2>5. s.included = Cardinality({i \in DOMAIN a.samples :
          a.samples[i].case = s.id /\ a.samples[i].status \in {"included", "included_after_retry"}})
    BY <2>1, IncludedAreListed DEF Sections
  <2> QED BY <2>4, <2>5
<1>6. /\ Total(a.summaries, LAMBDA s : s.sample_count) = a.summary.sample_count
      /\ Total(a.summaries, LAMBDA s : s.included) = a.summary.included
      /\ Total(a.summaries, LAMBDA s : s.bytes) = a.summary.bytes
  <2>1. /\ Sum([s \in Summaries(run) |-> s.sample_count]) = a.summary.sample_count
        /\ Sum([s \in Summaries(run) |-> s.included]) = a.summary.included
        /\ Sum([s \in Summaries(run) |-> s.bytes]) = a.summary.bytes
    BY <1>4, CasesAddUp
  <2> QED BY <1>1, <2>1 DEF Total
<1>7. /\ a.launch.primary_sample_count = a.summary.sample_count
      /\ a.launch.failure_count = a.summary.failure_count
  <2>1. /\ a.launch.primary_sample_count = Cardinality(primary_attempts(run))
        /\ a.launch.failure_count = Cardinality(primary_attempts(run))
             - Cardinality(SucceededAmong(run.attempts, primary_attempts(run)))
    BY <1>1 DEF benchmark_launch_from_records, SucceededAmong
  <2> QED BY <1>4, <2>1 DEF Counted
<1>8. a.metric[2] # "mixed" => \A c \in a.cases : c.unit = a.metric[2]
  BY <1>1, UnitIsShared
<1> QED BY <1>5, <1>6, <1>7, <1>8 DEF Reconciles

\* Values that vary by more than 15 percent vary by more than 10.
LEMMA VariesLess ==
  ASSUME NEW s, Ascending(s), cv_exceeds(s, 15)
  PROVE  cv_exceeds(s, 10)
<1>1. PICK n \in Nat : n = Len(s)
  BY DEF Ascending
<1>2. IsFiniteSet(DOMAIN s) /\ s \in [DOMAIN s -> Nat]
  <2>1. DOMAIN s = 1..n /\ \A i \in 1..n : s[i] \in Nat
    BY <1>1 DEF Ascending
  <2>2. IsFiniteSet(1..n)
    BY FS_Interval
  <2>3. s \in [1..n -> Nat]
    BY <1>1 DEF Ascending
  <2> QED BY <2>1, <2>2, <2>3
<1>3. PICK D : D = DOMAIN s
  OBVIOUS
<1>4. PICK sum \in Nat : sum = Sum(s)
  <2>1. Sum(s) \in Nat
    BY <1>2, <1>3, UnitsFinite
  <2> QED BY <2>1
<1>5. PICK squares \in Nat : squares = Sum([i \in DOMAIN s |-> s[i] * s[i]])
  <2>1. PICK g : g = [i \in D |-> s[i] * s[i]]
    OBVIOUS
  <2>2. ASSUME NEW i \in D PROVE s[i] * s[i] \in Nat
    <3>1. PICK v \in Nat : v = s[i]
      BY <1>2, <1>3
    <3>2. v * v \in Nat
      OBVIOUS
    <3> QED BY <3>1, <3>2
  <2>3. g \in [D -> Nat]
    BY <2>1, <2>2
  <2>4. Sum(g) \in Nat
    BY <1>2, <1>3, <2>3, UnitsFinite
  <2> QED BY <1>3, <2>1, <2>4
<1>6. /\ n > 1 /\ sum # 0
      /\ 10000 * n * (n * squares - sum * sum) > 15 * 15 * (n - 1) * sum * sum
  BY <1>1, <1>4, <1>5 DEF cv_exceeds
<1>7. 15 * 15 * (n - 1) * sum * sum >= 10 * 10 * (n - 1) * sum * sum
  <2>1. PICK m \in Nat : m = n - 1
    BY <1>6
  <2>2. PICK x \in Nat : x = m * sum * sum
    OBVIOUS
  <2>3. 15 * 15 * m * sum * sum = 225 * x /\ 10 * 10 * m * sum * sum = 100 * x
    BY <2>2
  <2> QED BY <2>1, <2>3
<1>8. 10000 * n * (n * squares - sum * sum) > 10 * 10 * (n - 1) * sum * sum
  <2>1. PICK y \in Int : y = 10000 * n * (n * squares - sum * sum)
    OBVIOUS
  <2>2. PICK x \in Int : x = 15 * 15 * (n - 1) * sum * sum
    OBVIOUS
  <2>3. PICK z \in Int : z = 10 * 10 * (n - 1) * sum * sum
    OBVIOUS
  <2>4. y > x /\ x >= z
    BY <1>6, <1>7, <2>1, <2>2, <2>3
  <2>5. y > z
    BY <2>4
  <2> QED BY <2>1, <2>3, <2>5
<1> QED BY <1>1, <1>4, <1>5, <1>6, <1>8 DEF cv_exceeds

LEMMA ArtifactEarned ==
  ASSUME NEW run \in Benchmarks, NEW wide, NEW modal, NEW a,
         Sections(a, run, wide, modal)
  PROVE  Earned(a)
<1> SUFFICES ASSUME a.quality.publication_ready
             PROVE  /\ \A i \in primary_attempts(run) :
                         /\ run.attempts[i].ok
                         /\ Cardinality({j \in primary_attempts(run) :
                              /\ benchmark_case_id(run.attempts[j]) = benchmark_case_id(run.attempts[i])
                              /\ primary_metric_value(run.attempts[j]) # Unknown}) >= Adequate
                    /\ a.quality.noise # "high" /\ contention(run) = {}
                    /\ a.quality.tier \in {"excellent", "good", "fair"}
  <2>1. a.run = run
    BY DEF Sections
  <2> QED BY <2>1 DEF Earned
<1>1. /\ a.summaries = Summaries(run)
      /\ a.summary = benchmark_summary_from_attempts("aggregate", run.attempts, primary_attempts(run))
      /\ a.quality = benchmark_data_quality(run, a.summaries, a.summary, wide, modal)
  BY DEF Sections
<1>2. Measured(run.attempts) /\ primary_attempts(run) \in SUBSET DOMAIN run.attempts
  BY BenchmarksMeasured DEF primary_attempts
<1>3. Counted(a.summary, "aggregate", run.attempts, primary_attempts(run))
  BY <1>1, <1>2, SummaryCounts
<1>4. PICK cases : cases = judged(a.summaries, a.summary)
  OBVIOUS
<1>5. cases # {} /\ Summaries(run) \subseteq cases
  BY <1>1, <1>4 DEF judged
<1>6. \A s \in cases : s.included \in Nat /\ s.failure_count \in Nat /\ Ascending(s.values)
  <2>1. \A s \in Summaries(run) : Counted(s, s.id, run.attempts, Cell(run, s.id))
    BY SummariesSplit
  <2>2. \A s \in cases : s \in Summaries(run) \/ s = a.summary
    BY <1>1, <1>4 DEF judged
  <2> QED BY <1>3, <2>1, <2>2 DEF Counted
<1>7. PICK sufficiency : sufficiency = sufficiency_of(Min({s.included : s \in cases}))
  OBVIOUS
<1>8. PICK blockers : blockers =
        (IF noise_level(run) = "high" THEN {"noise"} ELSE {}) \cup contention(run)
        \cup (UNION {case_blockers(s, wide, modal) : s \in cases})
        \cup (IF sufficiency # "adequate" THEN {"sufficiency"} ELSE {})
  OBVIOUS
<1>9. a.quality = [noise |-> noise_level(run), sufficiency |-> sufficiency,
                   tier |-> quality_tier_for_cv(cases), blockers |-> blockers,
                   publication_ready |-> blockers = {}]
  BY <1>1, <1>4, <1>7, <1>8 DEF benchmark_data_quality
<1>10. blockers = {} /\ a.quality.noise = noise_level(run) /\ a.quality.tier = quality_tier_for_cv(cases)
  <2>1. PICK ready \in BOOLEAN : ready = (blockers = {})
    OBVIOUS
  <2>2. a.quality = [noise |-> noise_level(run), sufficiency |-> sufficiency,
                     tier |-> quality_tier_for_cv(cases), blockers |-> blockers,
                     publication_ready |-> ready]
    BY <1>9, <2>1
  <2>3. a.quality.publication_ready = ready
    BY <2>2
  <2>4. a.quality.noise = noise_level(run) /\ a.quality.tier = quality_tier_for_cv(cases)
    BY <1>9
  <2> QED BY <2>1, <2>3, <2>4
<1>11. /\ noise_level(run) # "high" /\ contention(run) = {} /\ sufficiency = "adequate"
       /\ \A s \in cases : case_blockers(s, wide, modal) = {}
  <2>1. (IF noise_level(run) = "high" THEN {"noise"} ELSE {}) = {}
    BY <1>8, <1>10
  <2>2. contention(run) = {}
    BY <1>8, <1>10
  <2>3. sufficiency = "adequate"
    BY <1>8, <1>10
  <2>4. ASSUME NEW s \in cases PROVE case_blockers(s, wide, modal) = {}
    <3>1. case_blockers(s, wide, modal) \subseteq blockers
      BY <1>8
    <3> QED BY <1>10, <3>1
  <2> QED BY <2>1, <2>2, <2>3, <2>4
<1>12. \A s \in cases : s.failure_count = 0 /\ ~cv_exceeds(s.values, 10)
  BY <1>6, <1>11 DEF case_blockers
<1>13. a.quality.tier \in {"excellent", "good", "fair"}
  <2>1. \A s \in cases : ~cv_exceeds(s.values, 15)
    BY <1>6, <1>12, VariesLess
  <2> QED BY <1>10, <2>1 DEF quality_tier_for_cv
<1>14. \A s \in cases : s.included >= Adequate
  <2>1. PICK counts : counts = {s.included : s \in cases}
    OBVIOUS
  <2>2. counts \in SUBSET Nat /\ counts # {}
    BY <1>5, <1>6, <2>1
  <2>3. Min(counts) \in Nat /\ \A m \in counts : Min(counts) <= m
    BY <2>2, LeastOf
  <2>4. PICK least \in Nat : least = Min(counts)
    BY <2>3
  <2>5. least >= Adequate
    BY <1>7, <1>11, <2>1, <2>4 DEF sufficiency_of
  <2>6. \A m \in counts : m \in Nat /\ least <= m
    BY <2>2, <2>3, <2>4
  <2> QED BY <2>1, <2>5, <2>6, ArtifactAssumption
<1>15. ASSUME NEW i \in primary_attempts(run)
       PROVE  /\ run.attempts[i].ok
              /\ Cardinality({j \in primary_attempts(run) :
                   /\ benchmark_case_id(run.attempts[j]) = benchmark_case_id(run.attempts[i])
                   /\ primary_metric_value(run.attempts[j]) # Unknown}) >= Adequate
  <2>1. PICK s \in Summaries(run) : s.id = benchmark_case_id(run.attempts[i]) /\ i \in Cell(run, s.id)
    BY SummariesSplit
  <2>2. Counted(s, s.id, run.attempts, Cell(run, s.id))
    BY SummariesSplit
  <2>3. s \in cases /\ s.failure_count = 0 /\ s.included >= Adequate /\ s.included \in Nat
    BY <1>5, <1>6, <1>12, <1>14
  <2>4. run.attempts[i].ok
    BY <2>1, <2>2, <2>3 DEF Counted
  <2>5. PICK like : like = {j \in primary_attempts(run) :
                   /\ benchmark_case_id(run.attempts[j]) = benchmark_case_id(run.attempts[i])
                   /\ primary_metric_value(run.attempts[j]) # Unknown}
    OBVIOUS
  <2>6. Sampled(run.attempts, Cell(run, s.id)) \subseteq like
    BY <2>1, <2>5 DEF Sampled, Cell
  <2>7. IsFiniteSet(like)
    <3>1. IsFiniteSet(primary_attempts(run))
      BY <1>3 DEF Counted
    <3>2. like \subseteq primary_attempts(run)
      BY <2>5
    <3> QED BY <3>1, <3>2, Part
  <2>8. Cardinality(like) >= Adequate
    <3>1. s.included = Cardinality(Sampled(run.attempts, Cell(run, s.id)))
      BY <2>2 DEF Counted
    <3>2. PICK kept : kept = Sampled(run.attempts, Cell(run, s.id))
      OBVIOUS
    <3>3. Cardinality(kept) <= Cardinality(like) /\ Cardinality(like) \in Nat /\ Cardinality(kept) \in Nat
      BY <2>6, <2>7, <3>2, Part
    <3> QED BY <2>3, <3>1, <3>2, <3>3, ArtifactAssumption
  <2> QED BY <2>4, <2>5, <2>8
<1> QED BY <1>10, <1>11, <1>13, <1>15

\* Only PrintJson makes an artifact, out of one of the benchmarks.
LEMMA ArtifactNext ==
  ASSUME [Next]_vars, artifact' # artifact
  PROVE  \E b \in Benchmarks : \E wide, modal : artifact' = to_benchmark_artifact(b, wide, modal)
<1>1. CASE PrintJson
  <2>1. CASE Job(Cli).records[1].benchmark
    <3>1. PICK b \in Benchmarks :
            LET ids == {benchmark_case_id(b.attempts[i]) : i \in DOMAIN b.attempts}
            IN  \E wide, modal \in SUBSET ids :
                  artifact' = to_benchmark_artifact(b, wide, modal)
      BY <1>1, <2>1 DEF PrintJson, ExitCli
    <3> QED BY <3>1
  <2>2. CASE ~Job(Cli).records[1].benchmark
    BY <1>1, <2>2 DEF PrintJson
  <2> QED BY <2>1, <2>2
<1>2. ASSUME CliStep, ~PrintJson PROVE artifact' = artifact
  <2>1. CASE WorkFails
    BY <2>1 DEF WorkFails, Abandon
  <2>2. CASE Finalized \/ Validated
    BY <2>2 DEF Finalized, Validated
  <2> QED BY <1>2, <2>1, <2>2
        DEF CliStep, BeginWork, MeasureTarget, WorkDone, SaveJson, ArtifactsSaved, WriteReports,
            NoDatabase
<1>3. CASE CaptureStep \/ UrlStep \/ ProfileStep \/ Tshark
  BY <1>3 DEF CaptureStep, UrlStep, ProfileStep, Tshark, Ours, mainvars
<1>4. CASE Over \/ UNCHANGED vars \/ \E t \in Testers : Database(t) \/ DatabaseFault(t)
  BY <1>4 DEF Over, vars, Database, DatabaseFault, mainvars
<1> QED BY <1>1, <1>2, <1>3, <1>4 DEF Next

\* For any benchmarks, thresholds and sample minimums, a printed artifact adds up
\* - each case's summary is over exactly the samples listed as included, the cases
\* partition the whole, percentiles never cross, some value is no outlier - and it
\* is called publication ready only if every measured attempt succeeded and has
\* enough siblings (to_benchmark_artifact, benchmark_summary_from_attempts,
\* percentile_from_sorted, benchmark_data_quality).
THEOREM ArtifactsAreHonest == Spec => []ArtifactHonest
<1>1. Init => ArtifactHonest
  BY DEF Init, ArtifactHonest
<1>2. ASSUME NEW b \in Benchmarks, NEW wide, NEW modal, NEW a,
             a = to_benchmark_artifact(b, wide, modal)
      PROVE  Reconciles(a) /\ Earned(a)
  <2>1. PICK w, m : Sections(a, b, w, m)
    BY <1>2, ArtifactSections
  <2> QED BY <2>1, ArtifactReconciles, ArtifactEarned
<1>3. ArtifactHonest /\ [Next]_vars => ArtifactHonest'
  <2> SUFFICES ASSUME ArtifactHonest, [Next]_vars
               PROVE  ArtifactHonest'
    OBVIOUS
  <2>1. CASE artifact' = artifact
    BY <2>1 DEF ArtifactHonest
  <2>2. CASE artifact' # artifact
    <3>1. PICK b \in Benchmarks : \E wide, modal : artifact' = to_benchmark_artifact(b, wide, modal)
      BY <2>2, ArtifactNext
    <3>2. PICK wide, modal : artifact' = to_benchmark_artifact(b, wide, modal)
      BY <3>1
    <3>3. Reconciles(artifact') /\ Earned(artifact')
      BY <1>2, <3>2
    <3> QED BY <3>3 DEF ArtifactHonest
  <2> QED BY <2>1, <2>2
<1> QED BY <1>1, <1>3, PTL DEF Spec

=============================================================================
