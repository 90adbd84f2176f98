-------------------------- MODULE BulkProbesProofs ----------------------------
(***************************************************************************)
(* What a page load, a browser load and the probes under load report, for  *)
(* pages of any size, any number of connections and loads, any ramp and    *)
(* any length of the measure window.                                       *)
(***************************************************************************)
EXTENDS BulkProbes, FiniteSetTheorems, TLAPS

-----------------------------------------------------------------------------
(***************************************************************************)
(* The probes under load.                                                  *)
(***************************************************************************)
Counter == [bytes : Nat, fresh : Nat]
Ramping == {"initial", "run", "adding", "stop", "aggregate"}

\* The types of the counters and of what the controller keeps.
LoadTypes ==
  /\ conns \in Seq(BOOLEAN) /\ counters \in Seq(Counter)
  /\ snaps \in Seq(Seq(Nat)) /\ measure \in {None} \cup 0..Mad /\ satAt \in Nat
  /\ load \in [started : Nat, completed : Nat, failed : Nat, active : BOOLEAN, moved : Nat]
  /\ pc \in Ramping \cup {"resolve", "loaded", "done"}
  /\ dir \in {"download", "upload"}

\* The stages of one mode, in their order: the attempt is made at the end, by
\* the upload stage unless the download stage failed.
StageOrder ==
  /\ pc \in Ramping => mode # "rpm"
  /\ pc \in {"resolve", "loaded"} => mode = "rpm"
  /\ attempt # NoAttempt => pc = "done" /\ attempt.kind = mode
  /\ down = "reported" <=> dir = "upload"
  /\ attempt # NoAttempt /\ mode # "rpm" => (attempt.success <=> down = "reported")

\* The load of a stage is gone where the stage ends.
LoadGone ==
  /\ orphans = 0
  /\ pc = "aggregate" => \A i \in DOMAIN conns : ~conns[i]
  /\ pc \notin Ramping => conns = <<>>
  /\ pc # "loaded" => ~load.active

\* Once the measure window is open it is as long as the ticks since the
\* saturation, nothing joins any more, and every tick has seen every counter.
WindowInv ==
  /\ satAt = 0 => measure = None
  /\ satAt # 0 => pc \in {"run", "stop", "aggregate"}
  /\ measure = 0 => pc \in {"stop", "aggregate"}
  /\ measure # None =>
       /\ mode = "mthroughput"
       /\ satAt >= Mad /\ Len(snaps) = satAt + (Mad - measure)
       /\ \A i \in satAt..Len(snaps) : Len(snaps[i]) = Len(counters)

LoadInv == LoadTypes /\ StageOrder /\ LoadGone /\ WindowInv /\ LatenciesOfLoad

\* A stage whose tasks have all ended has no live one.
LEMMA NoneLive ==
  ASSUME NEW cs, \A i \in DOMAIN cs : ~cs[i]
  PROVE  Live(cs) = 0
<1>1. {i \in DOMAIN cs : cs[i]} = {}
  OBVIOUS
<1> QED BY <1>1, FS_EmptySet DEF Live

\* A snapshot has one entry per counter.
LEMMA SnapshotRow ==
  ASSUME NEW cs \in Seq(Counter)
  PROVE  /\ [c \in DOMAIN cs |-> cs[c].bytes] \in Seq(Nat)
         /\ Len([c \in DOMAIN cs |-> cs[c].bytes]) = Len(cs)
         /\ [c \in DOMAIN cs |-> [cs[c] EXCEPT !.fresh = 0]] \in Seq(Counter)
         /\ Len([c \in DOMAIN cs |-> [cs[c] EXCEPT !.fresh = 0]]) = Len(cs)
<1>1. DOMAIN cs = 1..Len(cs) /\ Len(cs) \in Nat
  OBVIOUS
<1>2. \A c \in DOMAIN cs : cs[c] \in Counter
  OBVIOUS
<1>3. \A c \in DOMAIN cs : cs[c].bytes \in Nat /\ [cs[c] EXCEPT !.fresh = 0] \in Counter
  BY <1>2 DEF Counter
<1>4. [c \in DOMAIN cs |-> cs[c].bytes] \in [1..Len(cs) -> Nat]
  BY <1>1, <1>3
<1>5. [c \in DOMAIN cs |-> [cs[c] EXCEPT !.fresh = 0]] \in [1..Len(cs) -> Counter]
  BY <1>1, <1>3
<1> QED BY <1>1, <1>4, <1>5

\* A counter that moves leaves the number of counters alone.
LEMMA CounterMoves ==
  ASSUME NEW cs \in Seq(Counter), NEW k
  PROVE  LET moved == [cs EXCEPT ![k] = [bytes |-> @.bytes + 1, fresh |-> @.fresh + 1]]
         IN  moved \in Seq(Counter) /\ Len(moved) = Len(cs)
<1> DEFINE moved == [cs EXCEPT ![k] = [bytes |-> @.bytes + 1, fresh |-> @.fresh + 1]]
<1>1. DOMAIN cs = 1..Len(cs) /\ Len(cs) \in Nat
  OBVIOUS
<1>2. \A c \in DOMAIN cs : cs[c] \in Counter
  OBVIOUS
<1>3. \A c \in DOMAIN cs : moved[c] \in Counter
  BY <1>2 DEF Counter
<1>4. moved \in [1..Len(cs) -> Counter]
  BY <1>1, <1>3
<1> QED BY <1>1, <1>4

LEMMA LoadInit0 == Init => LoadInv
<1> SUFFICES ASSUME Init PROVE LoadInv
  OBVIOUS
<1> USE LoadAssumption DEF Init, LoadInit, StageInit, NoLoad, NoAttempt, None
<1>1. LoadTypes
  BY DEF LoadTypes, Ramping, LoadModes
<1>2. StageOrder
  BY DEF StageOrder, Ramping, LoadModes
<1>3. LoadGone
  BY DEF LoadGone, Ramping, LoadModes
<1>4. WindowInv
  BY DEF WindowInv
<1>5. LatenciesOfLoad
  BY DEF LatenciesOfLoad
<1> QED BY <1>1, <1>2, <1>3, <1>4, <1>5 DEF LoadInv

\* Nothing but the load probes touches what LoadInv is about.
LEMMA LoadFrame == LoadInv /\ UNCHANGED <<mode, loadVars>> => LoadInv'
BY DEF LoadInv, LoadTypes, StageOrder, LoadGone, WindowInv, LatenciesOfLoad, loadVars, stage, probing,
       rpmvars, None, NoAttempt

\* A connection is added: before the saturation only.
LEMMA Spawns ==
  ASSUME LoadTypes, Spawned
  PROVE  conns' \in Seq(BOOLEAN) /\ counters' \in Seq(Counter)
<1>1. [bytes |-> 0, fresh |-> 0] \in Counter
  BY DEF Counter
<1> QED BY <1>1 DEF LoadTypes, Spawned

LEMMA InitialStep == LoadInv /\ InitialConnects => LoadInv'
<1> SUFFICES ASSUME LoadInv, InitialConnects PROVE LoadInv'
  OBVIOUS
<1>1. LoadTypes'
  BY Spawns DEF LoadInv, LoadTypes, InitialConnects, rpmvars, Ramping
<1>2. StageOrder' /\ LatenciesOfLoad'
  BY DEF LoadInv, StageOrder, LatenciesOfLoad, InitialConnects, rpmvars, probing, Ramping, NoAttempt
<1>3. LoadGone'
  BY DEF LoadInv, LoadGone, InitialConnects, rpmvars, Ramping
<1>4. WindowInv'
  BY DEF LoadInv, WindowInv, InitialConnects, None
<1> QED BY <1>1, <1>2, <1>3, <1>4 DEF LoadInv

\* A stage that leaves no task behind hands over to the next.
LEMMA StageEnds ==
  ASSUME LoadInv, pc \in {"initial", "aggregate"}, NEW cs, \A i \in DOMAIN cs : ~cs[i],
         NEW outcome \in {"failed", "reported"}, NextStage(outcome, cs)
  PROVE  LoadInv'
<1>1. Live(cs) = 0
  BY NoneLive
<1>2. mode # "rpm" /\ mode' = mode /\ load' = load /\ ~load.active
  BY DEF LoadInv, StageOrder, LoadGone, Ramping, NextStage, rpmvars
<1>3. LoadTypes'
  BY <1>2, LoadAssumption DEF LoadInv, LoadTypes, NextStage, rpmvars, Ramping, None
<1>4. StageOrder'
  BY <1>2 DEF LoadInv, LoadTypes, StageOrder, NextStage, LoadFailed, NoAttempt, Ramping
<1>5. LoadGone'
  BY <1>1, <1>2 DEF LoadInv, LoadGone, NextStage, Ramping
<1>6. WindowInv'
  BY DEF NextStage, WindowInv, None
<1>7. LatenciesOfLoad'
  BY <1>2, <1>4 DEF StageOrder, NextStage, LatenciesOfLoad, NoAttempt
<1> QED BY <1>3, <1>4, <1>5, <1>6, <1>7 DEF LoadInv

\* An interval's sample: one more snapshot, of all counters.
LEMMA SampleTypes ==
  ASSUME LoadInv, Sample
  PROVE  /\ counters' \in Seq(Counter) /\ Len(counters') = Len(counters)
         /\ snaps' \in Seq(Seq(Nat)) /\ Len(snaps') = Len(snaps) + 1
         /\ Len(snaps'[Len(snaps')]) = Len(counters)
         /\ \A i \in 1..Len(snaps) : snaps'[i] = snaps[i]
         /\ Len(snaps) \in Nat
<1> DEFINE row == [c \in DOMAIN counters |-> counters[c].bytes]
<1>1. counters \in Seq(Counter) /\ snaps \in Seq(Seq(Nat))
  BY DEF LoadInv, LoadTypes
<1>2. snaps' = Append(snaps, row)
  BY DEF Sample
<1>3. counters' = [c \in DOMAIN counters |-> [counters[c] EXCEPT !.fresh = 0]]
  BY DEF Sample
<1>4. row \in Seq(Nat) /\ Len(row) = Len(counters)
  BY <1>1, SnapshotRow
<1>5. counters' \in Seq(Counter) /\ Len(counters') = Len(counters)
  BY <1>1, <1>3, SnapshotRow
<1> HIDE DEF row
<1> QED BY <1>1, <1>2, <1>4, <1>5

\* What an interval keeps of the rest.
LEMMA SampleKeeps ==
  ASSUME LoadInv, Sample, pc' \in {"run", "stop", "adding"}
  PROVE  StageOrder' /\ LoadGone' /\ LatenciesOfLoad'
<1>1. StageOrder' /\ LatenciesOfLoad'
  BY DEF LoadInv, StageOrder, LatenciesOfLoad, Sample, rpmvars, probing, Ramping, NoAttempt
<1>2. LoadGone'
  BY DEF LoadInv, LoadGone, Sample, rpmvars, Ramping
<1> QED BY <1>1, <1>2

LEMMA SaturateStep == LoadInv /\ Saturate => LoadInv'
<1> SUFFICES ASSUME LoadInv, Saturate PROVE LoadInv'
  OBVIOUS
<1> USE LoadAssumption
<1>1. Sample /\ pc' \in {"run", "stop"} /\ satAt = 0 /\ satAt' = Len(snaps') /\ Len(snaps') >= Mad
  BY DEF Saturate, AfterTick, saturated
<1>2. measure' \in {None} \cup 0..Mad /\ satAt' \in Nat
  BY <1>1, SampleTypes DEF Saturate
<1>5. measure' # None => measure' = Mad /\ mode' = "mthroughput"
  BY DEF Saturate, Sample
<1>3. LoadTypes'
  BY <1>1, <1>2, SampleTypes DEF LoadInv, LoadTypes, Sample, rpmvars, Ramping, None
<1>4. WindowInv'
  <2>1. Len(snaps') = satAt' + (Mad - Mad) /\ satAt' # 0 /\ Mad # 0 /\ None # 0
    BY <1>1, <1>2 DEF None
  <2>2. \A i \in satAt'..Len(snaps') : i = Len(snaps')
    BY <1>1, <1>2
  <2> QED BY <1>1, <1>5, <2>1, <2>2, SampleTypes DEF WindowInv
<1> QED BY <1>1, <1>3, <1>4, SampleKeeps DEF LoadInv

LEMMA RampStep == LoadInv /\ RampTick => LoadInv'
<1> SUFFICES ASSUME LoadInv, RampTick PROVE LoadInv'
  OBVIOUS
<1>1. Sample /\ pc' \in {"run", "stop", "adding"} /\ satAt = 0 /\ satAt' = 0 /\ measure' = measure
  BY DEF RampTick, AfterTick
<1>2. LoadTypes'
  BY <1>1, SampleTypes DEF LoadInv, LoadTypes, Sample, rpmvars, Ramping
<1>3. WindowInv'
  BY <1>1 DEF LoadInv, WindowInv, None
<1> QED BY <1>1, <1>2, <1>3, SampleKeeps DEF LoadInv

LEMMA AddStep ==
  ASSUME LoadInv, NEW ok \in BOOLEAN, NEW late \in 0..1, AddConnection(ok, late)
  PROVE  LoadInv'
<1>1. satAt' = 0 /\ measure' = None /\ pc' \in {"run", "stop", "adding"}
  BY DEF LoadInv, WindowInv, AddConnection, AfterTick
<1>2. LoadTypes'
  BY <1>1, Spawns DEF LoadInv, LoadTypes, AddConnection, rpmvars, Ramping
<1>3. StageOrder' /\ LatenciesOfLoad'
  BY <1>1 DEF LoadInv, StageOrder, LatenciesOfLoad, AddConnection, rpmvars, probing, Ramping, NoAttempt
<1>4. LoadGone'
  BY <1>1 DEF LoadInv, LoadGone, AddConnection, rpmvars, Ramping
<1>5. WindowInv'
  BY <1>1 DEF WindowInv, None
<1> QED BY <1>2, <1>3, <1>4, <1>5 DEF LoadInv

LEMMA MeasureStep == LoadInv /\ MeasureTick => LoadInv'
<1> SUFFICES ASSUME LoadInv, MeasureTick PROVE LoadInv'
  OBVIOUS
<1> USE LoadAssumption
<1>1. Sample /\ pc = "run" /\ pc' \in {"run", "stop"} /\ satAt' = satAt /\ measure # None
  BY DEF MeasureTick, AfterTick, Sample
<1>2. measure \in 1..Mad /\ measure' \in 0..Mad /\ mode' = "mthroughput" /\ measure' = measure - 1
      /\ (measure' = 0 => pc' = "stop")
  <2>1. measure \in 0..Mad /\ measure # 0
    BY <1>1 DEF LoadInv, LoadTypes, WindowInv
  <2>2. mode' = "mthroughput"
    BY DEF MeasureTick, Sample
  <2> QED BY <2>1, <2>2 DEF MeasureTick
<1>3. LoadTypes'
  BY <1>1, <1>2, SampleTypes DEF LoadInv, LoadTypes, Sample, rpmvars, Ramping, None
<1>4. satAt >= Mad /\ satAt # 0 /\ Len(snaps) = satAt + (Mad - measure)
  BY <1>1 DEF LoadInv, LoadTypes, WindowInv
<1>5. ASSUME NEW i \in satAt'..Len(snaps') PROVE Len(snaps'[i]) = Len(counters')
  <2>1. i = Len(snaps') \/ i \in satAt..Len(snaps)
    BY <1>1, <1>4, SampleTypes DEF LoadInv, LoadTypes
  <2>2. CASE i = Len(snaps')
    BY <2>2, <1>1, SampleTypes
  <2>3. CASE i \in satAt..Len(snaps)
    <3>1. Len(snaps[i]) = Len(counters) /\ i \in 1..Len(snaps)
      BY <2>3, <1>1, <1>4 DEF LoadInv, LoadTypes, WindowInv
    <3> QED BY <3>1, <1>1, SampleTypes
  <2> QED BY <2>1, <2>2, <2>3
<1>6. WindowInv'
  <2>1. Len(snaps') = satAt' + (Mad - measure') /\ satAt' # 0 /\ satAt' >= Mad
    BY <1>1, <1>2, <1>4, SampleTypes DEF LoadInv, LoadTypes
  <2> QED BY <1>1, <1>2, <1>5, <2>1 DEF WindowInv
<1> QED BY <1>1, <1>3, <1>6, SampleKeeps DEF LoadInv

LEMMA ResponsiveStep == LoadInv /\ ResponsivenessTick => LoadInv'
<1> SUFFICES ASSUME LoadInv, ResponsivenessTick PROVE LoadInv'
  OBVIOUS
<1>1. Sample /\ pc' \in {"run", "stop"} /\ satAt # 0 /\ satAt' = satAt /\ measure' = measure
  BY DEF ResponsivenessTick, AfterTick
<1>2. measure = None
  BY DEF LoadInv, WindowInv, ResponsivenessTick
<1>3. LoadTypes'
  BY <1>1, SampleTypes DEF LoadInv, LoadTypes, Sample, rpmvars, Ramping
<1>4. WindowInv'
  BY <1>1, <1>2 DEF WindowInv, None
<1> QED BY <1>1, <1>3, <1>4, SampleKeeps DEF LoadInv

LEMMA StopStep == LoadInv /\ StopLoad => LoadInv'
<1> SUFFICES ASSUME LoadInv, StopLoad PROVE LoadInv'
  OBVIOUS
<1>1. conns' = [i \in DOMAIN conns |-> FALSE] /\ pc = "stop" /\ pc' = "aggregate"
  BY DEF StopLoad, stop_and_reap
<1>2. conns' \in Seq(BOOLEAN)
  <2>1. conns \in Seq(BOOLEAN)
    BY DEF LoadInv, LoadTypes
  <2>2. conns' \in [1..Len(conns) -> BOOLEAN]
    BY <1>1, <2>1
  <2> QED BY <2>1, <2>2
<1>3. LoadTypes'
  BY <1>2 DEF LoadInv, LoadTypes, StopLoad, rpmvars, Ramping
<1>4. StageOrder' /\ LatenciesOfLoad'
  BY <1>1 DEF LoadInv, StageOrder, LatenciesOfLoad, StopLoad, rpmvars, probing, Ramping, NoAttempt
<1>5. LoadGone'
  BY <1>1 DEF LoadInv, LoadGone, StopLoad, rpmvars, Ramping
<1>6. WindowInv'
  BY <1>1 DEF LoadInv, WindowInv, StopLoad, None
<1> QED BY <1>3, <1>4, <1>5, <1>6 DEF LoadInv

\* rpm: the load and its echoes; conns, counters and window are not used.
LEMMA RpmStep ==
  ASSUME LoadInv,
         \/ UnloadedTrain \/ UnloadedFails \/ LoadedFails \/ LoadedDone \/ StartDownload \/ DownloadMoves
         \/ \E outcome \in {"echoed", "lost"} : PacedEcho(outcome)
         \/ \E ok \in BOOLEAN : DownloadEnds(ok)
  PROVE  LoadInv'
<1> USE DEF Unloaded, stage, probing, rpmvars
<1> DEFINE Saturating == [started : Nat, completed : Nat, failed : Nat, active : BOOLEAN, moved : Nat]
<1>1. pc \in {"resolve", "loaded"} /\ mode = "rpm" /\ pc' \in {"loaded", "done"} /\ attempt = NoAttempt
  BY DEF LoadInv, StageOrder, UnloadedTrain, UnloadedFails, LoadedFails, LoadedDone, StartDownload, DownloadMoves,
         PacedEcho, DownloadEnds
<1>2. UNCHANGED <<mode, dir, stage, probing, orphans, down>>
  BY DEF UnloadedTrain, UnloadedFails, LoadedFails, LoadedDone, StartDownload, DownloadMoves, PacedEcho, DownloadEnds
<1>3. load' \in Saturating /\ (pc' # "loaded" => ~load'.active)
  <2>1. load \in Saturating /\ (pc # "loaded" => ~load.active)
    BY DEF LoadInv, LoadTypes, LoadGone
  <2>7. load.started + 1 \in Nat /\ load.completed + 1 \in Nat /\ load.failed + 1 \in Nat
    BY <2>1
  <2>2. CASE UnloadedTrain \/ UnloadedFails \/ \E outcome \in {"echoed", "lost"} : PacedEcho(outcome)
    BY <2>1, <2>2 DEF UnloadedTrain, UnloadedFails, PacedEcho
  <2>3. CASE LoadedFails \/ LoadedDone
    BY <2>1, <2>3 DEF LoadedFails, LoadedDone
  <2>4. CASE StartDownload
    <3>1. load' = [load EXCEPT !.started = load.started + 1, !.active = TRUE] /\ pc' = "loaded"
      BY <2>4 DEF StartDownload
    <3> QED BY <2>1, <2>7, <3>1
  <2>5. CASE DownloadMoves
    <3>1. load' = [load EXCEPT !.moved = 1] /\ pc' = "loaded"
      BY <2>5 DEF DownloadMoves
    <3> QED BY <2>1, <3>1
  <2>6. CASE \E ok \in BOOLEAN : DownloadEnds(ok)
    <3>1. \/ load' = [load EXCEPT !.completed = load.completed + 1, !.active = FALSE]
          \/ load' = [load EXCEPT !.failed = load.failed + 1, !.active = FALSE]
      BY <2>6 DEF DownloadEnds
    <3>2. pc' = "loaded"
      BY <2>6 DEF DownloadEnds
    <3> QED BY <2>1, <2>7, <3>1, <3>2
  <2> QED BY <2>2, <2>3, <2>4, <2>5, <2>6
<1>4. attempt' # NoAttempt => pc' = "done" /\ attempt'.kind = "rpm"
  BY <1>1 DEF UnloadedTrain, UnloadedFails, LoadedFails, LoadedDone, StartDownload, DownloadMoves, PacedEcho,
         DownloadEnds, LoadFailed, NoAttempt
<1>6. LoadTypes'
  BY <1>1, <1>2, <1>3 DEF LoadInv, LoadTypes, Ramping
<1>7. StageOrder'
  BY <1>1, <1>2, <1>4 DEF LoadInv, StageOrder, Ramping
<1>8. LoadGone'
  BY <1>1, <1>2, <1>3 DEF LoadInv, LoadGone, Ramping
<1>9. WindowInv'
  BY <1>1, <1>2 DEF LoadInv, WindowInv, None
<1>10. LatenciesOfLoad'
  BY <1>1, <1>2, <1>4 DEF LoadInv, LatenciesOfLoad
<1> QED BY <1>6, <1>7, <1>8, <1>9, <1>10 DEF LoadInv

\* A byte moves on a load connection.
LEMMA TransferStep ==
  ASSUME LoadInv, NEW i, Transfer(i)
  PROVE  LoadInv'
<1> USE DEF probing, rpmvars
<1>1. counters' \in Seq(Counter) /\ Len(counters') = Len(counters)
  BY CounterMoves DEF LoadInv, LoadTypes, Transfer
<1>2. LoadTypes'
  BY <1>1 DEF LoadInv, LoadTypes, Transfer
<1>3. StageOrder' /\ LatenciesOfLoad'
  BY DEF LoadInv, StageOrder, LatenciesOfLoad, Transfer, NoAttempt
<1>4. LoadGone'
  BY DEF LoadInv, LoadGone, Transfer
<1>5. WindowInv'
  BY <1>1 DEF LoadInv, WindowInv, Transfer, None
<1> QED BY <1>2, <1>3, <1>4, <1>5 DEF LoadInv

\* The latency probes: a sample is kept by the stage that sent its probe.
LEMMA ProbeStep == LoadInv /\ LatencyProbes => LoadInv'
<1> SUFFICES ASSUME LoadInv, LatencyProbes PROVE LoadInv'
  OBVIOUS
<1> USE DEF stage, rpmvars
<1>1. UNCHANGED <<mode, dir, pc, stage, orphans, down, rpmvars, attempt>>
  BY DEF LatencyProbes, StartProbe, FinishProbe
<1>2. \A s \in samples' : s.dir = dir
  <2>1. CASE StartProbe
    BY <2>1 DEF LoadInv, LatenciesOfLoad, StartProbe
  <2>2. ASSUME NEW p \in flying, NEW ok \in BOOLEAN, FinishProbe(p, ok)
        PROVE  \A s \in samples' : s.dir = dir
    BY <2>2 DEF LoadInv, LatenciesOfLoad, FinishProbe, KeepSample
  <2> QED BY <2>1, <2>2 DEF LatencyProbes
<1>3. LoadTypes' /\ LoadGone' /\ StageOrder'
  BY <1>1 DEF LoadInv, LoadTypes, LoadGone, StageOrder, NoAttempt, None
<1>4. WindowInv'
  BY <1>1 DEF LoadInv, WindowInv, None
<1>5. LatenciesOfLoad'
  BY <1>1, <1>2 DEF LoadInv, LatenciesOfLoad, NoAttempt
<1> QED BY <1>3, <1>4, <1>5 DEF LoadInv

LEMMA LoadStep == LoadInv /\ [Next]_vars => LoadInv'
<1> SUFFICES ASSUME LoadInv, [Next]_vars PROVE LoadInv'
  OBVIOUS
<1>1. CASE Controller
  <2>1. CASE InitialFails
    <3>1. \A i \in DOMAIN stop_and_reap(conns) : ~stop_and_reap(conns)[i]
      BY DEF stop_and_reap
    <3> QED BY <2>1, <3>1, StageEnds DEF InitialFails
  <2>2. CASE DirectionDone
    <3>1. pc = "aggregate" /\ \A i \in DOMAIN conns : ~conns[i]
      BY <2>2 DEF DirectionDone, LoadInv, LoadGone
    <3>2. CASE Bytes = 0
      BY <2>2, <3>1, <3>2, StageEnds DEF DirectionDone
    <3>3. CASE Bytes # 0
      BY <2>2, <3>1, <3>3, StageEnds DEF DirectionDone
    <3> QED BY <3>2, <3>3
  <2> QED BY <1>1, <2>1, <2>2, InitialStep, SaturateStep, RampStep, MeasureStep, ResponsiveStep,
             StopStep, AddStep, RpmStep DEF Controller
<1>2. CASE LoadTasks
  BY <1>2, TransferStep, RpmStep DEF LoadTasks
<1>3. CASE LatencyProbes
  BY <1>3, ProbeStep
<1>4. CASE UNCHANGED <<mode, loadVars>>
  BY <1>4, LoadFrame
<1>5. Controller \/ LoadTasks \/ LatencyProbes \/ UNCHANGED <<mode, loadVars>>
  BY DEF Next, vars, PageTasks, Working
<1> QED BY <1>1, <1>2, <1>3, <1>4, <1>5

\* A completed measure window begins with the saturation.
LEMMA WindowIsFrozen == LoadInv => WindowFrozen
<1> SUFFICES ASSUME LoadInv, NEW s \in Reported, s.complete PROVE s.frozen /\ s.joined
  BY DEF WindowFrozen
<1> USE LoadAssumption
<1>5. DirectionResult.complete = (measure = 0)
  BY Zenon DEF DirectionResult
<1>1. s = DirectionResult /\ measure = 0
  BY <1>5 DEF Reported
<1>2. satAt >= Mad /\ satAt \in Nat /\ Len(snaps) = satAt + Mad
      /\ \A i \in satAt..Len(snaps) : Len(snaps[i]) = Len(counters)
  BY <1>1 DEF LoadInv, LoadTypes, WindowInv, None
<1>3. WindowTicks = Mad /\ WindowStart = satAt
  BY <1>2 DEF WindowTicks, WindowStart
<1>4. Len(snaps[WindowStart]) = Len(counters) /\ satAt # 0 /\ WindowStart >= satAt
  BY <1>2, <1>3
<1> QED BY <1>1, <1>4 DEF DirectionResult

\* The latencies of responsiveness are of the stage they are reported under, the
\* measure window of mthroughput has the connections of the saturation all
\* through it, and no load task of the three probes outlives its stage
\* (load_gen.rs, rpm.rs), for any ramp, window and number of probes.
THEOREM FiguresAreOfLoad == Spec => []LoadHonest
<1>1. LoadInv => LoadHonest
  <2> SUFFICES ASSUME LoadInv PROVE LoadHonest
    OBVIOUS
  <2>1. pc = "done" => Live(conns) = 0
    BY NoneLive DEF LoadInv, LoadGone, Ramping
  <2>2. LoadStopped
    BY <2>1 DEF LoadStopped, LoadInv, LoadGone
  <2> QED BY <2>2, WindowIsFrozen DEF LoadHonest, LoadInv
<1> QED BY <1>1, LoadInit0, LoadStep, PTL DEF Spec

-----------------------------------------------------------------------------
(***************************************************************************)
(* The synthetic page loads.                                               *)
(***************************************************************************)
JoinedHops == {"manifest", "manifest body", "assets"}
Hops == {"idle", "connect", "tls", "http", "error"} \cup JoinedHops
Fetching == [at : {"queued", "sent", "head", "done", "lost"}, ok : BOOLEAN, drained : BOOLEAN]
Errors == {"none", "config", "dns", "tls", "tcp", "http", "timeout"}
Claim ==
  [success : BOOLEAN, error : Errors, pageload : BOOLEAN, fetched : Int, failed : Int,
   claimed : Nat, reused : BOOLEAN, opened : Nat, got : [once : BOOLEAN, ok : BOOLEAN, whole : Nat]]

\* The connections of a load that were established.
Joined(f) == {c \in Conns : f[c] \in JoinedHops}

PageTypes ==
  /\ page.n \in Nat /\ page.reuse \in BOOLEAN
  /\ at \in [Conns -> Hops] /\ (mode \in PageModes \/ at = Idle)
  /\ asset \in [Assets -> Fetching] /\ asked \in [Assets -> Nat]
  /\ opened \in Nat /\ warm \in BOOLEAN /\ shared \in BOOLEAN
  /\ loads \in Seq(Claim)

\* An asset is asked for once on its way to an answer, one that came in whole is
\* over, and one a cold HTTP/3 load took came in whole.
AssetOk ==
  \A a \in Assets :
    /\ asset[a].at = "queued" => asked[a] = 0
    /\ asset[a].at \in {"sent", "head", "done"} => asked[a] = 1
    /\ asset[a].drained => asset[a].at = "done"
    /\ mode = "pageload3" /\ ~page.reuse /\ asset[a].at = "done" => asset[a].drained

\* What a load counts as opened stands, a warm load opens nothing, and the
\* connection it runs over was opened by an earlier load of the run.
ConnOk ==
  /\ \A c \in Conns : at[c] # "idle" => c \in Used
  /\ Multiplexed => \A c \in Conns : at[c] # "error"
  /\ opened = IF warm THEN 0 ELSE Cardinality(Joined(at))
  /\ warm => shared /\ 0 \in Joined(at)
  /\ shared => Multiplexed /\ page.reuse /\ \E j \in DOMAIN loads : loads[j].opened = 1

PageInv == PageTypes /\ AssetOk /\ ConnOk /\ PageHonest /\ ReuseHonest

\* The connections a load may use are connections, 0 among them.
LEMMA UsedConns ==
  ASSUME page.n \in Nat
  PROVE  /\ 0 \in Conns /\ 0 \in Used /\ IsFiniteSet(Used) /\ IsFiniteSet(Conns)
         /\ Used \subseteq Conns
         /\ Multiplexed => Used = {0} /\ Cardinality(Used) = 1
         /\ Cardinality(Used) \in Nat
<1> USE PageAssumption
<1>1. 0 \in Conns /\ 0 \in Used /\ Used \subseteq Conns
  BY DEF Conns, Used
<1>2. IsFiniteSet(Conns)
  BY FS_Interval DEF Conns
<1>3. IsFiniteSet(Used)
  BY <1>1, <1>2, FS_Subset
<1>4. Multiplexed => Used = {0} /\ Cardinality(Used) = 1
  BY FS_Singleton DEF Used
<1> QED BY <1>1, <1>2, <1>3, <1>4, FS_CardinalityType

\* A page of n assets has n assets.
LEMMA AssetCount ==
  ASSUME page.n \in Nat
  PROVE  IsFiniteSet(Assets) /\ Cardinality(Assets) = page.n
<1>1. 0 \in Int /\ page.n - 1 \in Int
  OBVIOUS
<1>2. IsFiniteSet(0..(page.n - 1))
      /\ Cardinality(0..(page.n - 1)) = IF 0 > page.n - 1 THEN 0 ELSE page.n - 1 - 0 + 1
  BY <1>1, FS_Interval
<1> QED BY <1>2 DEF Assets

LEMMA JoinedType ==
  ASSUME page.n \in Nat, NEW f
  PROVE  IsFiniteSet(Joined(f)) /\ Cardinality(Joined(f)) \in Nat
BY UsedConns, FS_Subset, FS_CardinalityType DEF Joined

\* No connection of an idle load stands.
LEMMA IdleJoined == Joined(Idle) = {} /\ Cardinality(Joined(Idle)) = 0
<1>1. Joined(Idle) = {}
  BY DEF Joined, Idle, JoinedHops
<1> QED BY <1>1, FS_EmptySet

LEMMA HopMoves ==
  ASSUME page.n \in Nat, NEW f \in [Conns -> Hops], NEW c \in Conns, NEW v \in Hops
  PROVE  /\ (f[c] \in JoinedHops <=> v \in JoinedHops) => Joined([f EXCEPT ![c] = v]) = Joined(f)
         /\ f[c] \notin JoinedHops /\ v \in JoinedHops =>
              Cardinality(Joined([f EXCEPT ![c] = v])) = Cardinality(Joined(f)) + 1
<1>1. (f[c] \in JoinedHops <=> v \in JoinedHops) => Joined([f EXCEPT ![c] = v]) = Joined(f)
  BY DEF Joined
<1>2. ASSUME f[c] \notin JoinedHops, v \in JoinedHops
      PROVE  Cardinality(Joined([f EXCEPT ![c] = v])) = Cardinality(Joined(f)) + 1
  <2>1. Joined([f EXCEPT ![c] = v]) = Joined(f) \cup {c} /\ c \notin Joined(f)
    BY <1>2 DEF Joined
  <2> QED BY <2>1, JoinedType, FS_AddElement
<1> QED BY <1>1, <1>2

LEMMA PageInit0 == Init => PageInv
<1> SUFFICES ASSUME Init PROVE PageInv
  OBVIOUS
<1> USE PageAssumption DEF Init, PageInit
<1>1. page.n \in Nat /\ page.reuse \in BOOLEAN
  <2>1. CASE mode \in PageModes
    <3>1. page \in [n : PageSizes, https : BOOLEAN, reuse : BOOLEAN]
      BY <2>1
    <3> QED BY <3>1
  <2>2. CASE mode \notin PageModes
    <3>1. page = [n |-> 0, https |-> TRUE, reuse |-> FALSE]
      BY <2>2
    <3> QED BY <3>1
  <2> QED BY <2>1, <2>2
<1>2. at = Idle /\ warm = FALSE /\ shared = FALSE /\ opened = 0 /\ loads = <<>>
  OBVIOUS
<1>3. Idle \in [Conns -> Hops] /\ \A c \in Conns : Idle[c] = "idle"
  BY DEF Idle, Hops
<1>4. asset \in [Assets -> Fetching] /\ asked \in [Assets -> Nat]
      /\ \A a \in Assets : asset[a].at = "queued" /\ ~asset[a].drained /\ asked[a] = 0
  BY DEF Unfetched, Fetching
<1>5. <<>> \in Seq(Claim) /\ DOMAIN loads = {}
  BY <1>2
<1>6. PageTypes
  <2>1. at \in [Conns -> Hops] /\ warm \in BOOLEAN /\ shared \in BOOLEAN
    BY <1>2, <1>3, Zenon
  <2>3. opened \in Nat
    BY <1>2
  <2>2. loads \in Seq(Claim)
    BY <1>2, <1>5
  <2> QED BY <1>1, <1>2, <1>4, <2>1, <2>2, <2>3, Zenon DEF PageTypes
<1>7. AssetOk
  BY <1>4 DEF AssetOk
<1>8. ConnOk
  BY <1>2, <1>3, IdleJoined DEF ConnOk
<1>9. PageHonest /\ ReuseHonest
  BY <1>5 DEF PageHonest, ReuseHonest, Claims
<1> QED BY <1>6, <1>7, <1>8, <1>9 DEF PageInv

\* Nothing but the page loads touches what PageInv is about.
LEMMA PageFrame ==
  ASSUME PageInv, UNCHANGED <<mode, page, shared, warm, at, asset, asked, opened, loads>>
  PROVE  PageInv'
<1>1. Assets' = Assets /\ Used' = Used /\ Multiplexed' = Multiplexed /\ Claims' = Claims
  BY DEF Assets, Used, Multiplexed, Claims
<1>2. PageTypes'
  BY <1>1 DEF PageInv, PageTypes
<1>3. AssetOk'
  BY <1>1 DEF PageInv, AssetOk
<1>4. ConnOk'
  BY <1>1 DEF PageInv, ConnOk
<1>5. PageHonest' /\ ReuseHonest'
  BY <1>1 DEF PageInv, PageHonest, ReuseHonest
<1> QED BY <1>2, <1>3, <1>4, <1>5 DEF PageInv

\* What PageHonest says of one attempt.
HonestClaim(r) ==
  /\ r.success => r.got.once /\ r.got.ok
  /\ r.pageload =>
       /\ r.fetched + r.failed = page.n
       /\ r.got.whole <= r.fetched
       /\ mode = "pageload3" /\ ~page.reuse => r.got.whole = r.fetched
  /\ page.n > 0 => (r.success <=> r.error = "none")
  /\ r.error = "none" => r.success

\* What ReuseHonest says of an attempt made with the connections as they are.
HonestReuse(r) ==
  r.pageload =>
    /\ r.reused => r.opened = 0 /\ r.claimed = 0 /\ shared
    /\ ~r.reused =>
         /\ r.opened <= r.claimed /\ r.opened > 0
         /\ Multiplexed => r.opened = r.claimed

LEMMA ReturnStep ==
  ASSUME PageInv, mode' = mode, mode \in PageModes,
         NEW r \in Claim, Return(r), r.opened = opened, HonestClaim(r), HonestReuse(r)
  PROVE  PageInv'
<1> USE DEF Return
<1>1. page' = page /\ Assets' = Assets /\ Used' = Used /\ Multiplexed' = Multiplexed
  BY DEF Assets, Used, Multiplexed
<1>2. at' = Idle /\ warm' = FALSE /\ opened' = 0 /\ loads' = Append(loads, r)
  OBVIOUS
<1>3. Idle \in [Conns -> Hops] /\ \A c \in Conns : Idle[c] = "idle"
  BY DEF Idle, Hops
<1>4. asset' \in [Assets -> Fetching] /\ asked' \in [Assets -> Nat]
      /\ \A a \in Assets : asset'[a].at = "queued" /\ ~asset'[a].drained /\ asked'[a] = 0
  BY DEF Unfetched, Fetching
<1>5. loads \in Seq(Claim) /\ loads' \in Seq(Claim) /\ Len(loads) \in Nat
      /\ DOMAIN loads = 1..Len(loads) /\ DOMAIN loads' = 1..(Len(loads) + 1)
      /\ loads'[Len(loads) + 1] = r /\ \A i \in DOMAIN loads : loads'[i] = loads[i]
  BY <1>2 DEF PageInv, PageTypes
<1>6. shared' \in BOOLEAN /\ (shared' => shared \/ (page.reuse /\ Multiplexed /\ opened = 1))
  BY DEF PageInv, PageTypes
<1>7. PageTypes'
  <2>1. at' \in [Conns -> Hops] /\ warm' \in BOOLEAN
    BY <1>2, <1>3, Zenon
  <2>4. opened' \in Nat
    BY <1>2
  <2>2. page'.n \in Nat /\ page'.reuse \in BOOLEAN
    BY <1>1 DEF PageInv, PageTypes
  <2>3. asset' \in [Assets' -> Fetching] /\ asked' \in [Assets' -> Nat] /\ (mode' \in PageModes \/ at' = Idle)
    BY <1>1, <1>4
  <2> QED BY <1>5, <1>6, <2>1, <2>2, <2>3, <2>4, Zenon DEF PageTypes
<1>8. AssetOk'
  BY <1>1, <1>4 DEF AssetOk
<1>9. shared' => Multiplexed /\ page.reuse /\ \E j \in DOMAIN loads' : loads'[j].opened = 1
  <2>1. CASE shared
    <3>1. PICK j \in DOMAIN loads : loads[j].opened = 1
      BY <2>1 DEF PageInv, ConnOk
    <3>2. j \in DOMAIN loads' /\ loads'[j] = loads[j]
      BY <1>5
    <3> QED BY <2>1, <3>1, <3>2 DEF PageInv, ConnOk
  <2>2. CASE ~shared /\ shared'
    <3>1. Len(loads) + 1 \in DOMAIN loads'
      BY <1>5
    <3> QED BY <1>5, <1>6, <2>2, <3>1
  <2> QED BY <2>1, <2>2
<1>10. ConnOk'
  BY <1>1, <1>2, <1>3, <1>9, IdleJoined DEF ConnOk
<1>11. PageHonest'
  <2>1. \A i \in DOMAIN loads' : HonestClaim(loads'[i])
    <3> SUFFICES ASSUME NEW i \in DOMAIN loads' PROVE HonestClaim(loads'[i])
      OBVIOUS
    <3>1. CASE i \in DOMAIN loads
      <4>1. loads'[i] = loads[i] /\ loads[i] \in Claims
        BY <1>5, <3>1 DEF Claims
      <4> QED BY <4>1 DEF PageInv, PageHonest, HonestClaim
    <3>2. CASE i \notin DOMAIN loads
      BY <1>5, <3>2
    <3> QED BY <3>1, <3>2
  <2> QED BY <1>1, <2>1 DEF PageHonest, Claims, HonestClaim
<1>12. ReuseHonest'
  <2> SUFFICES ASSUME NEW i \in DOMAIN loads', loads'[i].pageload
               PROVE  /\ loads'[i].reused =>
                           /\ loads'[i].opened = 0 /\ loads'[i].claimed = 0
                           /\ \E j \in 1..(i - 1) : loads'[j].opened = 1
                      /\ ~loads'[i].reused =>
                           /\ loads'[i].opened <= loads'[i].claimed /\ loads'[i].opened > 0
                           /\ Multiplexed => loads'[i].opened = loads'[i].claimed
    BY <1>1 DEF ReuseHonest
  <2>1. CASE i \in DOMAIN loads
    <3>1. loads'[i] = loads[i] /\ \A j \in 1..(i - 1) : loads'[j] = loads[j]
      BY <1>5, <2>1
    <3> QED BY <2>1, <3>1 DEF PageInv, ReuseHonest
  <2>2. CASE i \notin DOMAIN loads
    <3>1. i = Len(loads) + 1 /\ loads'[i] = r
      BY <1>5, <2>2
    <3>2. shared => \E j \in 1..(i - 1) : loads'[j].opened = 1
      <4> SUFFICES ASSUME shared PROVE \E j \in 1..(i - 1) : loads'[j].opened = 1
        OBVIOUS
      <4>1. PICK j \in DOMAIN loads : loads[j].opened = 1
        BY DEF PageInv, ConnOk
      <4>2. j \in 1..(i - 1) /\ loads'[j] = loads[j]
        BY <1>5, <3>1
      <4> QED BY <4>1, <4>2
    <3> QED BY <3>1, <3>2 DEF HonestReuse
  <2> QED BY <2>1, <2>2
<1> QED BY <1>7, <1>8, <1>10, <1>11, <1>12 DEF PageInv

LEMMA GotType ==
  ASSUME PageInv
  PROVE  Got \in [once : BOOLEAN, ok : BOOLEAN, whole : Nat]
<1>1. {a \in Assets : asset[a].ok /\ asset[a].drained} \subseteq Assets
  OBVIOUS
<1>2. Cardinality({a \in Assets : asset[a].ok /\ asset[a].drained}) \in Nat
  BY <1>1, AssetCount, FS_Subset, FS_CardinalityType DEF PageInv, PageTypes
<1> QED BY <1>2 DEF Got

\* A load that fails claims nothing.
LEMMA FailedStep ==
  ASSUME PageInv, mode' = mode, mode \in PageModes,
         NEW category \in Errors \ {"none"}, Return(Failed(category))
  PROVE  PageInv'
<1> DEFINE r == Failed(category)
<1>1. r.success = FALSE /\ r.error = category /\ r.pageload = FALSE /\ r.opened = opened
  BY DEF Failed
<1>2. opened \in Nat /\ category \in Errors
  BY DEF PageInv, PageTypes
<1>3. r \in Claim
  BY <1>2, GotType DEF Failed, Claim
<1>4. HonestClaim(r) /\ HonestReuse(r)
  BY <1>1 DEF HonestClaim, HonestReuse
<1> QED BY <1>1, <1>3, <1>4, ReturnStep

\* A load that completed counts what it fetched.
LEMMA LoadedClaim ==
  ASSUME PageInv
  PROVE  /\ Loaded \in Claim /\ Loaded.opened = opened
         /\ HonestClaim(Loaded)
<1> DEFINE F == {a \in Assets : Fetched(a)}
           D == {a \in Assets : asset[a].ok /\ asset[a].drained}
           fetched == Cardinality(F)
<1>1. page.n \in Nat /\ warm \in BOOLEAN /\ opened \in Nat
  BY DEF PageInv, PageTypes
<1>2. IsFiniteSet(Assets) /\ Cardinality(Assets) = page.n
  BY <1>1, AssetCount
<1>3. fetched \in Nat /\ fetched <= page.n /\ (fetched = page.n => F = Assets)
  <2>1. F \subseteq Assets
    OBVIOUS
  <2>2. IsFiniteSet(F) /\ Cardinality(F) <= Cardinality(Assets)
        /\ (Cardinality(F) = Cardinality(Assets) => F = Assets)
    BY <1>2, <2>1, FS_Subset
  <2> QED BY <1>2, <2>2, FS_CardinalityType
<1>4. /\ Loaded.success = ((Multiplexed \/ page.n > 0) /\ fetched = page.n)
      /\ Loaded.error = page_load_error(fetched) /\ Loaded.pageload = TRUE
      /\ Loaded.fetched = fetched /\ Loaded.failed = page.n - fetched
      /\ Loaded.opened = opened /\ Loaded.got = Got
  BY Zenon DEF Loaded
<1>5. Loaded.opened = opened
  BY <1>4
<1>6. Loaded \in Claim
  <2>1. (IF warm THEN 0 ELSE Cardinality(Used)) \in Nat
    BY <1>1, UsedConns
  <2>2. page_load_error(fetched) \in Errors /\ page.n - fetched \in Int /\ fetched \in Int
    BY <1>1, <1>3 DEF page_load_error, Errors
  <2>3. Multiplexed \in BOOLEAN /\ (page.n > 0) \in BOOLEAN
    BY <1>1 DEF Multiplexed
  <2> QED BY <1>1, <2>1, <2>2, <2>3, GotType DEF Loaded, Claim
<1>7. ASSUME fetched = page.n
      PROVE  Got.once /\ Got.ok
  <2>1. \A a \in Assets : asset[a].at = "done" /\ asset[a].ok
    BY <1>3, <1>7 DEF Fetched
  <2>2. \A a \in Assets : asked[a] = 1
    BY <2>1 DEF PageInv, AssetOk
  <2> QED BY <2>1, <2>2 DEF Got
<1>9. Got.whole <= fetched /\ (mode = "pageload3" /\ ~page.reuse => Got.whole = fetched)
  <2>1. D \subseteq F
    BY DEF PageInv, AssetOk, Fetched
  <2>2. mode = "pageload3" /\ ~page.reuse => D = F
    BY <2>1 DEF PageInv, AssetOk, Fetched
  <2>3. Got.whole = Cardinality(D)
    BY DEF Got
  <2>4. F \subseteq Assets
    OBVIOUS
  <2>5. IsFiniteSet(F)
    BY <1>2, <2>4, FS_Subset
  <2>6. Cardinality(D) <= Cardinality(F)
    BY <2>1, <2>5, FS_Subset
  <2> QED BY <2>2, <2>3, <2>6
<1>8. HonestClaim(Loaded)
  <2>1. Loaded.fetched + Loaded.failed = page.n
    BY <1>1, <1>3, <1>4
  <2>2. page.n > 0 => (Loaded.success <=> Loaded.error = "none")
    BY <1>1, <1>3, <1>4 DEF page_load_error
  <2>3. Loaded.error = "none" => Loaded.success
    BY <1>1, <1>3, <1>4 DEF page_load_error
  <2>4. Loaded.success => fetched = page.n
    BY <1>4
  <2>5. Loaded.got.whole <= Loaded.fetched
        /\ (mode = "pageload3" /\ ~page.reuse => Loaded.got.whole = Loaded.fetched)
    BY <1>4, <1>9
  <2> QED BY <1>4, <1>7, <2>1, <2>2, <2>3, <2>4, <2>5, Zenon DEF HonestClaim
<1> QED BY <1>5, <1>6, <1>8

\* A load that completed says which connections it opened.
LEMMA LoadedReuse ==
  ASSUME PageInv, at[0] = "assets"
  PROVE  HonestReuse(Loaded)
<1>1. page.n \in Nat /\ warm \in BOOLEAN /\ opened \in Nat
  BY DEF PageInv, PageTypes
<1>2. Loaded.claimed = (IF warm THEN 0 ELSE Cardinality(Used)) /\ Loaded.reused = warm
      /\ Loaded.opened = opened
  BY Zenon DEF Loaded
<1>3. ASSUME ~warm
      PROVE  opened <= Cardinality(Used) /\ opened > 0 /\ (Multiplexed => opened = Cardinality(Used))
  <2>1. opened = Cardinality(Joined(at)) /\ Joined(at) \subseteq Used
    BY <1>3 DEF PageInv, ConnOk, Joined, JoinedHops
  <2>2. 0 \in Joined(at)
    BY <1>1, UsedConns DEF Joined, JoinedHops
  <2>3. opened <= Cardinality(Used) /\ IsFiniteSet(Joined(at))
    BY <1>1, <2>1, UsedConns, FS_Subset
  <2>4. opened > 0
    BY <1>1, <2>1, <2>2, <2>3, FS_EmptySet
  <2>5. Multiplexed => Joined(at) = Used
    BY <1>1, <2>1, <2>2, UsedConns
  <2> QED BY <2>1, <2>3, <2>4, <2>5
<1>4. warm => opened = 0 /\ shared
  BY DEF PageInv, ConnOk
<1> QED BY <1>1, <1>2, <1>3, <1>4 DEF HonestReuse

LEMMA FinishStep ==
  ASSUME PageInv, Finish, mode' = mode
  PROVE  PageInv'
<1>1. mode \in PageModes
  BY DEF PageInv, PageTypes, Finish, Running
<1>2. CASE at[0] = "error"
  BY <1>1, <1>2, FailedStep DEF Finish, Errors
<1>3. CASE at[0] # "error"
  <2>1. at[0] = "assets"
    BY <1>3, UsedConns DEF Finish, PageInv, PageTypes
  <2> QED BY <1>1, <1>3, <2>1, LoadedClaim, LoadedReuse, ReturnStep DEF Finish
<1> QED BY <1>2, <1>3

\* The task of connection c goes on to hop v.
LEMMA HopStep ==
  ASSUME PageInv, mode' = mode, mode \in PageModes, NEW c \in Conns, NEW v \in Hops \ {"idle"},
         at[c] # "idle", Multiplexed => v # "error",
         at[c] \in JoinedHops => v \in JoinedHops,
         at' = [at EXCEPT ![c] = v],
         opened' = (IF at[c] \notin JoinedHops /\ v \in JoinedHops THEN opened + 1 ELSE opened),
         UNCHANGED <<page, shared, warm, asset, asked, loads>>
  PROVE  PageInv'
<1>1. Assets' = Assets /\ Used' = Used /\ Multiplexed' = Multiplexed /\ Claims' = Claims
  BY DEF Assets, Used, Multiplexed, Claims
<1>2. page.n \in Nat /\ at \in [Conns -> Hops] /\ opened \in Nat /\ at' \in [Conns -> Hops] /\ opened' \in Nat
  BY DEF PageInv, PageTypes
<1>3. PageTypes'
  <2>1. page'.n \in Nat /\ page'.reuse \in BOOLEAN /\ warm' \in BOOLEAN /\ shared' \in BOOLEAN
        /\ loads' \in Seq(Claim)
        /\ asset' \in [Assets' -> Fetching] /\ asked' \in [Assets' -> Nat]
    BY <1>1 DEF PageInv, PageTypes
  <2> QED BY <1>2, <2>1, Zenon DEF PageTypes
<1>4. AssetOk'
  BY <1>1 DEF PageInv, AssetOk
<1>5. ConnOk'
  <2>1. \A d \in Conns : d # c => at'[d] = at[d]
    BY <1>2
  <2>2. at'[c] = v
    BY <1>2
  <2>3. (\A d \in Conns : at'[d] # "idle" => d \in Used) /\ (Multiplexed => \A d \in Conns : at'[d] # "error")
    BY <2>1, <2>2 DEF PageInv, ConnOk
  <2>4. CASE at[c] \in JoinedHops <=> v \in JoinedHops
    <3>1. Joined(at') = Joined(at) /\ opened' = opened
      BY <1>2, <2>4, HopMoves
    <3> QED BY <1>1, <2>3, <3>1 DEF PageInv, ConnOk
  <2>5. CASE at[c] \notin JoinedHops /\ v \in JoinedHops
    <3>1. Cardinality(Joined(at')) = Cardinality(Joined(at)) + 1 /\ opened' = opened + 1
      BY <1>2, <2>5, HopMoves
    <3>2. ~warm
      <4>1. Multiplexed /\ warm => c = 0
        BY <1>2, UsedConns DEF PageInv, ConnOk
      <4> QED BY <2>5, <4>1 DEF PageInv, ConnOk, Joined
    <3> QED BY <1>1, <2>3, <3>1, <3>2 DEF PageInv, ConnOk
  <2> QED BY <2>4, <2>5
<1>6. PageHonest' /\ ReuseHonest'
  BY <1>1 DEF PageInv, PageHonest, ReuseHonest
<1> QED BY <1>3, <1>4, <1>5, <1>6 DEF PageInv

\* A task that is under way belongs to a page load.
LEMMA PageMode ==
  ASSUME PageInv, NEW c \in Conns, at[c] # "idle"
  PROVE  mode \in PageModes
BY DEF PageInv, PageTypes, Idle

LEMMA TransportStep ==
  ASSUME PageInv, Transport, mode' = mode
  PROVE  PageInv'
<1>0. page.n \in Nat /\ 0 \in Conns /\ at \in [Conns -> Hops]
  BY UsedConns DEF PageInv, PageTypes
<1>1. CASE TlsHandshake
  <2>1. at[0] = "tls" /\ "http" \in Hops \ {"idle"} /\ "http" \notin JoinedHops /\ "tls" \notin JoinedHops
    BY <1>1 DEF TlsHandshake, Hops, JoinedHops
  <2> QED BY <1>0, <1>1, <2>1, PageMode, HopStep DEF TlsHandshake
<1>2. CASE HttpHandshake
  <2>1. at[0] = "http" /\ "manifest" \in Hops \ {"idle"} /\ "manifest" \in JoinedHops
        /\ "http" \notin JoinedHops
    BY <1>2 DEF HttpHandshake, Hops, JoinedHops
  <2> QED BY <1>0, <1>2, <2>1, PageMode, HopStep DEF HttpHandshake
<1>3. ASSUME NEW c \in Conns, Connect(c) PROVE PageInv'
  <2>1. at[c] = "connect" /\ "connect" \notin JoinedHops /\ mode \in PageModes
    BY <1>3, PageMode DEF Connect, JoinedHops
  <2>2. CASE mode = "pageload"
    <3>1. Established(c) \in JoinedHops /\ Established(c) \in Hops \ {"idle"} /\ ~Multiplexed
      BY <2>2 DEF Established, Hops, JoinedHops, Multiplexed
    <3>2. at' = [at EXCEPT ![c] = Established(c)] /\ opened' = opened + 1
      BY <1>3, <2>2, <3>1 DEF Connect
    <3> QED BY <1>3, <2>1, <3>1, <3>2, HopStep DEF Connect
  <2>3. CASE mode \in {"pageload2", "pageload3"}
    <3> DEFINE v == IF mode = "pageload2" THEN "tls" ELSE "http"
    <3>1. v \in Hops \ {"idle"} /\ v \notin JoinedHops /\ v # "error" /\ Multiplexed
      BY <2>3 DEF Hops, JoinedHops, Multiplexed
    <3>2. at' = [at EXCEPT ![c] = v] /\ opened' = opened
      BY <1>3, <2>3, <3>1 DEF Connect
    <3> HIDE DEF v
    <3> QED BY <1>3, <2>1, <3>1, <3>2, HopStep DEF Connect
  <2> QED BY <2>1, <2>2, <2>3 DEF PageModes
<1>4. ASSUME NEW c \in Conns, ConnectFails(c) PROVE PageInv'
  <2>1. at[c] \in {"connect", "tls", "http"} /\ mode \in PageModes /\ at[c] \notin JoinedHops
    BY <1>4, PageMode DEF ConnectFails, JoinedHops
  <2>2. CASE Multiplexed
    <3>1. \A h \in {"connect", "tls", "http"} : ConnectErrors[h] \subseteq Errors \ {"none"}
      BY DEF ConnectErrors, Errors
    <3>2. PICK category \in Errors \ {"none"} : Return(Failed(category))
      BY <1>4, <2>1, <2>2, <3>1 DEF ConnectFails, Errors
    <3> QED BY <2>1, <3>2, FailedStep
  <2>3. CASE ~Multiplexed
    <3>1. "error" \in Hops \ {"idle"} /\ "error" \notin JoinedHops
      BY DEF Hops, JoinedHops
    <3> QED BY <1>4, <2>1, <2>3, <3>1, HopStep DEF ConnectFails
  <2> QED BY <2>2, <2>3
<1> QED BY <1>1, <1>2, <1>3, <1>4 DEF Transport

LEMMA ManifestStep ==
  ASSUME PageInv, Manifest, mode' = mode
  PROVE  PageInv'
<1>0. page.n \in Nat /\ 0 \in Conns /\ at \in [Conns -> Hops]
  BY UsedConns DEF PageInv, PageTypes
<1>1. /\ {"manifest", "manifest body", "assets"} \subseteq JoinedHops
      /\ {"manifest body", "assets"} \subseteq Hops \ {"idle", "error"}
  BY DEF Hops, JoinedHops
<1>2. at[0] \in {"manifest", "manifest body"} /\ mode \in PageModes
  BY <1>0, PageMode DEF Manifest, ManifestHead, ManifestFails, ManifestDeadline, ManifestBody
<1>3. CASE ManifestHead
  BY <1>0, <1>1, <1>2, <1>3, HopStep DEF ManifestHead
<1>4. CASE ToAssets(0)
  BY <1>0, <1>1, <1>2, <1>4, HopStep DEF ToAssets
<1>5. CASE Return(Failed("http")) \/ Return(Failed("timeout"))
  BY <1>2, <1>5, FailedStep DEF Errors
<1> QED BY <1>3, <1>4, <1>5 DEF Manifest, ManifestFails, ManifestDeadline, ManifestBody

\* One asset's fetch goes on.
LEMMA AssetStep ==
  ASSUME PageInv, mode' = mode, NEW a \in Assets, NEW f \in Fetching, NEW k \in Nat,
         asset' = [asset EXCEPT ![a] = f], asked' = [asked EXCEPT ![a] = k],
         f.at # "queued",
         f.at \in {"sent", "head", "done"} => k = 1,
         f.drained => f.at = "done",
         mode = "pageload3" /\ ~page.reuse /\ f.at = "done" => f.drained,
         UNCHANGED <<page, shared, warm, at, opened, loads>>
  PROVE  PageInv'
<1>1. Assets' = Assets /\ Used' = Used /\ Multiplexed' = Multiplexed /\ Claims' = Claims
  BY DEF Assets, Used, Multiplexed, Claims
<1>2. asset \in [Assets -> Fetching] /\ asked \in [Assets -> Nat]
      /\ asset' \in [Assets -> Fetching] /\ asked' \in [Assets -> Nat]
  BY DEF PageInv, PageTypes
<1>3. PageTypes'
  <2>1. page'.n \in Nat /\ page'.reuse \in BOOLEAN /\ warm' \in BOOLEAN /\ shared' \in BOOLEAN
        /\ loads' \in Seq(Claim)
        /\ at' \in [Conns -> Hops] /\ opened' \in Nat /\ (mode' \in PageModes \/ at' = Idle)
    BY DEF PageInv, PageTypes
  <2>2. asset' \in [Assets' -> Fetching] /\ asked' \in [Assets' -> Nat]
    BY <1>1, <1>2
  <2> QED BY <2>1, <2>2, Zenon DEF PageTypes
<1>4. AssetOk'
  <2> SUFFICES ASSUME NEW b \in Assets
               PROVE  /\ asset'[b].at = "queued" => asked'[b] = 0
                      /\ asset'[b].at \in {"sent", "head", "done"} => asked'[b] = 1
                      /\ asset'[b].drained => asset'[b].at = "done"
                      /\ mode = "pageload3" /\ ~page.reuse /\ asset'[b].at = "done" => asset'[b].drained
    BY <1>1 DEF AssetOk
  <2>1. CASE b = a
    <3>1. asset'[b] = f /\ asked'[b] = k
      BY <1>2, <2>1
    <3> QED BY <3>1
  <2>2. CASE b # a
    <3>1. asset'[b] = asset[b] /\ asked'[b] = asked[b]
      BY <1>2, <2>2
    <3> QED BY <3>1 DEF PageInv, AssetOk
  <2> QED BY <2>1, <2>2
<1>5. ConnOk' /\ PageHonest' /\ ReuseHonest'
  BY <1>1 DEF PageInv, ConnOk, PageHonest, ReuseHonest
<1> QED BY <1>3, <1>4, <1>5 DEF PageInv

\* A cold HTTP/3 load of a run that does not reuse its connection.
LEMMA ColdH3 ==
  ASSUME PageInv, ~page.reuse
  PROVE  ~WarmH3
BY DEF PageInv, ConnOk, WarmH3, WarmingUp

\* The record of an asset, one field or two of it replaced.
LEMMA FetchingMoves ==
  ASSUME NEW g \in Fetching
  PROVE  /\ \A v \in {"sent", "done", "lost"} :
              /\ [g EXCEPT !.at = v] \in Fetching
              /\ [g EXCEPT !.at = v].at = v /\ [g EXCEPT !.at = v].drained = g.drained
         /\ [g EXCEPT !.at = "done", !.drained = TRUE] \in Fetching
         /\ [g EXCEPT !.at = "done", !.drained = TRUE].at = "done"
         /\ [g EXCEPT !.at = "done", !.drained = TRUE].drained
BY DEF Fetching

LEMMA ExchangeStep ==
  ASSUME PageInv, Exchange, mode' = mode
  PROVE  PageInv'
<1>0. asset \in [Assets -> Fetching] /\ asked \in [Assets -> Nat]
  BY DEF PageInv, PageTypes
<1> SUFFICES ASSUME NEW a \in Assets,
                    \/ Send(a) \/ RequestFails(a) \/ AssetHead(a)
                    \/ HeadDeadline(a) \/ AssetBody(a) \/ BodyBreaks(a)
             PROVE  PageInv'
  BY DEF Exchange
<1>1. asset[a] \in Fetching /\ asked[a] \in Nat /\ asked = [asked EXCEPT ![a] = asked[a]]
  BY <1>0
<1>2. /\ asset[a].at = "queued" => asked[a] = 0
      /\ asset[a].at \in {"sent", "head", "done"} => asked[a] = 1
      /\ asset[a].drained => asset[a].at = "done"
  BY DEF PageInv, AssetOk
<1>3. CASE Send(a)
  <2> DEFINE f == [asset[a] EXCEPT !.at = "sent"]
  <2>1. f \in Fetching /\ f.at = "sent" /\ ~f.drained
    BY <1>1, <1>2, <1>3, FetchingMoves DEF Send, Turn
  <2>2. asset[a].at = "queued" /\ asked[a] + 1 = 1 /\ asset' = [asset EXCEPT ![a] = f]
        /\ asked' = [asked EXCEPT ![a] = asked[a] + 1]
    BY <1>2, <1>3 DEF Send, Turn
  <2>3. asked[a] + 1 \in Nat
    BY <1>1
  <2>4. UNCHANGED <<page, shared, warm, at, opened, loads>>
    BY <1>3 DEF Send
  <2> HIDE DEF f
  <2> QED BY <2>1, <2>2, <2>3, <2>4, AssetStep
<1>4. ASSUME Fetch([asset EXCEPT ![a].at = "lost"]), asset[a].at # "done" PROVE PageInv'
  <2> DEFINE f == [asset[a] EXCEPT !.at = "lost"]
  <2>1. f \in Fetching /\ f.at = "lost" /\ ~f.drained
    BY <1>1, <1>2, <1>4, FetchingMoves
  <2>2. asset' = [asset EXCEPT ![a] = f] /\ asked' = [asked EXCEPT ![a] = asked[a]]
        /\ UNCHANGED <<page, shared, warm, at, opened, loads>>
    BY <1>1, <1>4 DEF Fetch
  <2> HIDE DEF f
  <2> QED BY <1>1, <2>1, <2>2, AssetStep
<1>5. CASE AssetHead(a)
  <2>1. PICK ok \in BOOLEAN : Fetch([asset EXCEPT ![a].at = "head", ![a].ok = ok])
    BY <1>5 DEF AssetHead
  <2> DEFINE f == [asset[a] EXCEPT !.at = "head", !.ok = ok]
  <2>2. f \in Fetching /\ f.at = "head" /\ asset[a].at = "sent" /\ ~f.drained
    <3>1. asset[a].at = "sent"
      BY <1>5 DEF AssetHead
    <3> QED BY <1>1, <1>2, <3>1 DEF Fetching
  <2>3. asset' = [asset EXCEPT ![a] = f] /\ asked' = [asked EXCEPT ![a] = asked[a]]
        /\ UNCHANGED <<page, shared, warm, at, opened, loads>>
    BY <1>0, <1>1, <2>1 DEF Fetch
  <2> HIDE DEF f
  <2> QED BY <1>1, <1>2, <2>2, <2>3, AssetStep
<1>6. CASE AssetBody(a)
  <2> DEFINE f == [asset[a] EXCEPT !.at = "done", !.drained = TRUE]
  <2>1. f \in Fetching /\ f.at = "done" /\ f.drained /\ asset[a].at = "head"
    BY <1>1, <1>6, FetchingMoves DEF AssetBody
  <2>2. asset' = [asset EXCEPT ![a] = f] /\ asked' = [asked EXCEPT ![a] = asked[a]]
        /\ UNCHANGED <<page, shared, warm, at, opened, loads>>
    BY <1>0, <1>1, <1>6 DEF Fetch, AssetBody
  <2> HIDE DEF f
  <2> QED BY <1>1, <1>2, <2>1, <2>2, AssetStep
<1>7. CASE BodyBreaks(a)
  <2>1. CASE mode = "pageload3" /\ ~WarmH3
    <3>1. Fetch([asset EXCEPT ![a].at = "lost"]) /\ asset[a].at # "done"
      BY <1>7, <2>1 DEF BodyBreaks
    <3> QED BY <1>4, <3>1
  <2>2. CASE ~(mode = "pageload3" /\ ~WarmH3)
    <3> DEFINE f == [asset[a] EXCEPT !.at = "done"]
    <3>1. f \in Fetching /\ f.at = "done" /\ asset[a].at = "head"
      BY <1>1, <1>7, FetchingMoves DEF BodyBreaks
    <3>2. asset' = [asset EXCEPT ![a] = f] /\ asked' = [asked EXCEPT ![a] = asked[a]]
          /\ UNCHANGED <<page, shared, warm, at, opened, loads>>
      BY <1>0, <1>1, <1>7, <2>2 DEF Fetch, BodyBreaks
    <3> HIDE DEF f
    <3> QED BY <1>1, <1>2, <2>2, <3>1, <3>2, ColdH3, AssetStep
  <2> QED BY <2>1, <2>2
<1> QED BY <1>3, <1>4, <1>5, <1>6, <1>7 DEF RequestFails, HeadDeadline, Turn

\* A load starts from rest, with nothing of its own established.
LEMMA StartStep ==
  ASSUME PageInv, mode' = mode, mode \in PageModes, ~Running,
         at' \in [Conns -> Hops],
         \A c \in Conns : at'[c] # "idle" => c \in Used,
         Multiplexed => \A c \in Conns : at'[c] # "error",
         \/ warm' = warm /\ Joined(at') = {}
         \/ warm' = TRUE /\ shared /\ 0 \in Joined(at'),
         UNCHANGED <<page, shared, asset, asked, opened, loads>>
  PROVE  PageInv'
<1>1. Assets' = Assets /\ Used' = Used /\ Multiplexed' = Multiplexed /\ Claims' = Claims
  BY DEF Assets, Used, Multiplexed, Claims
<1>2. at = Idle /\ warm = FALSE /\ opened = 0
  BY IdleJoined DEF Running, PageInv, PageTypes, ConnOk
<1>3. PageTypes'
  <2>1. warm' \in BOOLEAN
    BY <1>2
  <2>2. page'.n \in Nat /\ page'.reuse \in BOOLEAN /\ shared' \in BOOLEAN /\ loads' \in Seq(Claim)
        /\ asset' \in [Assets' -> Fetching] /\ asked' \in [Assets' -> Nat] /\ opened' \in Nat
    BY <1>1 DEF PageInv, PageTypes
  <2> QED BY <2>1, <2>2, Zenon DEF PageTypes
<1>4. AssetOk' /\ PageHonest' /\ ReuseHonest'
  BY <1>1 DEF PageInv, AssetOk, PageHonest, ReuseHonest
<1>5. ConnOk'
  BY <1>1, <1>2, FS_EmptySet DEF PageInv, ConnOk
<1> QED BY <1>3, <1>4, <1>5 DEF PageInv

LEMMA BeginStep ==
  ASSUME PageInv, Begin, mode' = mode, mode \in PageModes
  PROVE  PageInv'
<1>0. page.n \in Nat /\ 0 \in Conns /\ 0 \in Used /\ ~Running
  BY UsedConns DEF PageInv, PageTypes, Begin, run_pageload_probe, run_pageload2_probe, run_pageload3_probe,
                   warmup_pageload2, warmup_pageload3, Start, StartWarm, Refuse
<1>1. ASSUME NEW m, Start(m) PROVE PageInv'
  <2>1. at' = [c \in Conns |-> IF c \in Used THEN "connect" ELSE "idle"]
        /\ UNCHANGED <<page, shared, warm, asset, asked, opened, loads>>
    BY <1>1 DEF Start
  <2>2. at' \in [Conns -> Hops] /\ Joined(at') = {}
        /\ \A c \in Conns : (at'[c] # "idle" => c \in Used) /\ at'[c] # "error"
    BY <2>1 DEF Joined, Hops, JoinedHops
  <2> QED BY <1>0, <2>1, <2>2, StartStep
<1>2. CASE StartWarm
  <2>1. shared /\ warm' = TRUE /\ at' = [Idle EXCEPT ![0] = "manifest"]
        /\ UNCHANGED <<page, shared, asset, asked, opened, loads>>
    BY <1>2 DEF StartWarm
  <2>2. at' \in [Conns -> Hops] /\ 0 \in Joined(at')
        /\ \A c \in Conns : (at'[c] # "idle" => c \in Used) /\ at'[c] # "error"
    BY <1>0, <2>1 DEF Idle, Joined, Hops, JoinedHops
  <2> QED BY <1>0, <2>1, <2>2, StartStep
<1>3. CASE Refuse
  <2>1. PICK category \in Errors \ {"none"} : Return(Failed(category))
    BY <1>3 DEF Refuse, Errors
  <2> QED BY <2>1, FailedStep
<1> QED BY <1>1, <1>2, <1>3 DEF Begin, run_pageload_probe, run_pageload2_probe, run_pageload3_probe,
                                warmup_pageload2, warmup_pageload3

LEMMA PageStep == PageInv /\ [Next]_vars => PageInv'
<1> SUFFICES ASSUME PageInv, [Next]_vars PROVE PageInv'
  OBVIOUS
<1>1. CASE Load /\ mode' = mode
  BY <1>1, TransportStep, ManifestStep, ExchangeStep, FinishStep DEF Load
<1>2. CASE mode \in PageModes /\ Begin /\ mode' = mode
  BY <1>2, BeginStep
<1>3. CASE Peer /\ mode' = mode
  BY <1>3, PageFrame DEF Peer, PeerCloses, PeerSilent
<1>4. CASE UNCHANGED <<mode, pageVars>>
  BY <1>4, PageFrame DEF pageVars
<1>5. Controller \/ LoadTasks \/ LatencyProbes => mode' = mode
  <2>1. Controller => mode' = mode
    BY DEF Controller, InitialConnects, InitialFails, Saturate, RampTick, MeasureTick, ResponsivenessTick,
           StopLoad, DirectionDone, NextStage, Sample, AddConnection, UnloadedTrain, UnloadedFails,
           LoadedFails, LoadedDone, PacedEcho, Unloaded
  <2>2. LoadTasks \/ LatencyProbes => mode' = mode
    BY DEF LoadTasks, Transfer, StartDownload, DownloadMoves, DownloadEnds, LatencyProbes, StartProbe,
           FinishProbe, Unloaded
  <2> QED BY <2>1, <2>2
<1> QED BY <1>1, <1>2, <1>3, <1>4, <1>5 DEF Next, vars, PageTasks, Working

\* A page load that succeeds has asked once for every asset and had a 2xx head
\* for each; its counts add up, count every whole 2xx body and, over cold HTTP/3,
\* no other; and a load that says it reused a connection opened none, after one
\* of the run that did (pageload.rs).  For every number of assets, connections
\* and loads.
THEOREM PagesAreHonest == Spec => []PagesHonest
<1>1. PageInv => PagesHonest
  BY DEF PageInv, PagesHonest
<1> QED BY <1>1, PageInit0, PageStep, PTL DEF Spec

-----------------------------------------------------------------------------
(***************************************************************************)
(* The browser's event drain.                                              *)
(***************************************************************************)
\* What has been read of the streams q of page p, and the requests it is about.
Read(p, q) ==
  [request  |-> Events(p).request \ ToSet(q.request),
   response |-> Events(p).response \ ToSet(q.response),
   data     |-> Events(p).data \ ToSet(q.data),
   finished |-> Events(p).finished \ ToSet(q.finished)]

Seen(rd) == rd.request \cup rd.response \cup {d[1] : d \in rd.data} \cup rd.finished

\* The entry of request r, as the events that were read tell it, in whatever
\* order they were read.
ChunksOf(dt, r) == {n \in 1..MaxChunks : <<r, n>> \in dt}
Told(p, rd, r) ==
  [url      |-> IF r \in rd.request THEN "request"
                ELSE IF r \in rd.response THEN "response" ELSE "",
   status   |-> IF r \in rd.response THEN 200 ELSE Absent,
   data     |-> ChunkSize * Cardinality(ChunksOf(rd.data, r)),
   finished |-> IF r \in rd.finished THEN p[r].finished ELSE Absent]

\* Every stream gives each of its events once.
Stream(s, events) == s \in Seq(events) /\ IsInjective(s)

Streaming(p, q) ==
  /\ p \in Page /\ DOMAIN q = Kinds
  /\ Stream(q.request, Events(p).request) /\ Stream(q.response, Events(p).response)
  /\ Stream(q.data, Events(p).data) /\ Stream(q.finished, Events(p).finished)

Drains(p, q, pend, ord, n) ==
  /\ Streaming(p, q)
  /\ DOMAIN pend = Seen(Read(p, q))
  /\ \A r \in DOMAIN pend : pend[r] = Told(p, Read(p, q), r)
  /\ Stream(ord, Ids) /\ ToSet(ord) = Seen(Read(p, q))
  /\ n = Cardinality(Read(p, q).response)

DrainsAt(t) == Drains(tab[t].sent, queue[t], pending[t], order[t], responses[t])

TabInv(t) ==
  /\ DOMAIN tab[t] = {"at", "sent"}
  /\ tab[t].at \notin {"drain", "done"} =>
       pending[t] = <<>> /\ order[t] = <<>> /\ responses[t] = 0
  /\ tab[t].at = "drain" => DrainsAt(t)
  /\ tab[t].at = "done" /\ browsed[t].error = "none" =>
       /\ DrainsAt(t)
       /\ \E timed \in BOOLEAN :
            browsed[t] = LoadedAttempt(pending[t], order[t], responses[t], timed)

PerTab ==
  /\ DOMAIN tab = Tabs /\ DOMAIN queue = Tabs /\ DOMAIN pending = Tabs
  /\ DOMAIN order = Tabs /\ DOMAIN responses = Tabs /\ DOMAIN browsed = Tabs

BrowserInv == PerTab /\ \A t \in Tabs : TabInv(t)

\* A head that is read leaves the rest of its stream.
LEMMA HeadRead ==
  ASSUME NEW E, NEW s, Stream(s, E), s # <<>>
  PROVE  /\ Stream(Tail(s), E) /\ Head(s) \in E
         /\ E \ ToSet(Tail(s)) = (E \ ToSet(s)) \cup {Head(s)}
         /\ Head(s) \notin E \ ToSet(s)
<1>1. s \in Seq(E) /\ Len(s) \in Nat /\ Len(s) >= 1 /\ DOMAIN s = 1..Len(s)
  BY DEF Stream
<1>2. /\ Tail(s) \in Seq(E) /\ DOMAIN Tail(s) = 1..(Len(s) - 1)
      /\ \A i \in 1..(Len(s) - 1) : Tail(s)[i] = s[i + 1]
      /\ Head(s) = s[1]
  BY <1>1
<1>3. \A i, j \in 1..Len(s) : s[i] = s[j] => i = j
  BY <1>1 DEF Stream, IsInjective
<1>4. IsInjective(Tail(s))
  BY <1>1, <1>2, <1>3 DEF IsInjective
<1>5. s[1] \in E /\ s[1] \in ToSet(s)
  BY <1>1 DEF ToSet
<1>6. \A e : e \in ToSet(Tail(s)) <=> e \in ToSet(s) /\ e # s[1]
  <2>1. ASSUME NEW e, e \in ToSet(Tail(s)) PROVE e \in ToSet(s) /\ e # s[1]
    <3>1. PICK i \in 1..(Len(s) - 1) : e = s[i + 1]
      BY <2>1, <1>2 DEF ToSet
    <3>2. i + 1 \in 1..Len(s) /\ 1 \in 1..Len(s) /\ i + 1 # 1
      BY <1>1
    <3> QED BY <3>1, <3>2, <1>1, <1>3 DEF ToSet
  <2>2. ASSUME NEW e, e \in ToSet(s), e # s[1] PROVE e \in ToSet(Tail(s))
    <3>1. PICK i \in 1..Len(s) : e = s[i]
      BY <2>2, <1>1 DEF ToSet
    <3>2. i - 1 \in 1..(Len(s) - 1) /\ (i - 1) + 1 = i
      BY <2>2, <3>1, <1>1
    <3> QED BY <3>1, <3>2, <1>2 DEF ToSet
  <2> QED BY <2>1, <2>2
<1> QED BY <1>2, <1>4, <1>5, <1>6 DEF Stream

\* Chunk sets are finite and bounded by the page's.
LEMMA ChunkCount ==
  ASSUME NEW dt, NEW r
  PROVE  /\ IsFiniteSet(ChunksOf(dt, r)) /\ Cardinality(ChunksOf(dt, r)) \in Nat
         /\ ChunkSize * Cardinality(ChunksOf(dt, r)) \in Nat
<1>1. IsFiniteSet(1..MaxChunks)
  BY BrowserAssumption, FS_Interval
<1>2. ChunksOf(dt, r) \subseteq 1..MaxChunks
  BY DEF ChunksOf
<1>3. IsFiniteSet(ChunksOf(dt, r)) /\ Cardinality(ChunksOf(dt, r)) \in Nat
  BY <1>1, <1>2, FS_Subset, FS_CardinalityType
<1> QED BY <1>3, BrowserAssumption

\* The requests, and with them the events of a page, are finitely many.
LEMMA EventsFinite ==
  ASSUME NEW p
  PROVE  /\ IsFiniteSet(Ids) /\ Cardinality(Ids) = Requests
         /\ IsFiniteSet(Events(p).response) /\ IsFiniteSet(Events(p).finished)
         /\ IsFiniteSet(Events(p).data)
<1>1. IsFiniteSet(Ids) /\ Cardinality(Ids) = Requests
  BY BrowserAssumption, FS_Interval DEF Ids
<1>2. IsFiniteSet(1..MaxChunks)
  BY BrowserAssumption, FS_Interval
<1>3. IsFiniteSet(Ids \X (1..MaxChunks))
  BY <1>1, <1>2, FS_Product
<1>4. /\ Events(p).response \subseteq Ids /\ Events(p).finished \subseteq Ids
      /\ Events(p).data \subseteq Ids \X (1..MaxChunks)
  BY DEF Events
<1> QED BY <1>1, <1>3, <1>4, FS_Subset

\* An enumeration of a finite set gives each member once, and gives it.
LEMMA Enumerates ==
  ASSUME NEW E, IsFiniteSet(E), NEW s \in SetToSeqs(E)
  PROVE  Stream(s, E) /\ E \ ToSet(s) = {}
<1> DEFINE D == 1..Cardinality(E)
<1>1. Cardinality(E) \in Nat /\ IsFiniteSet(D) /\ Cardinality(D) = Cardinality(E)
  BY FS_CardinalityType, FS_Interval
<1>2. s \in [D -> E] /\ \A i, j \in D : i # j => s[i] # s[j]
  BY DEF SetToSeqs
<1>3. IsInjective(s) /\ s \in Injection(D, E)
  BY <1>2 DEF IsInjective, Injection
<1>4. s \in Surjection(D, E)
  BY <1>1, <1>3, FS_Injection
<1>5. \A e \in E : e \in ToSet(s)
  BY <1>2, <1>4 DEF Surjection, ToSet
<1>6. s \in Seq(E)
  BY <1>1, <1>2
<1> QED BY <1>3, <1>5, <1>6 DEF Stream

\* A page whose events were not read yet.
LEMMA Unread ==
  ASSUME NEW p \in Page, NEW q \in Streams(p)
  PROVE  /\ Streaming(p, q)
         /\ Read(p, q) = [request |-> {}, response |-> {}, data |-> {}, finished |-> {}]
         /\ Seen(Read(p, q)) = {}
<1> DEFINE E == Events(p)
<1>1. /\ DOMAIN q = Kinds
      /\ q.request = [r \in Ids |-> r] /\ q.response \in SetToSeqs(E.response)
      /\ q.data \in SetToSeqs(E.data) /\ q.finished \in SetToSeqs(E.finished)
  BY DEF Streams, Kinds
<1>2. [r \in Ids |-> r] \in SetToSeqs(Ids) /\ E.request = Ids
  BY EventsFinite DEF SetToSeqs, Events, Ids
<1>3. IsFiniteSet(E.request) /\ IsFiniteSet(E.response) /\ IsFiniteSet(E.data) /\ IsFiniteSet(E.finished)
  BY EventsFinite DEF Events
<1> HIDE DEF E
<1>4. /\ Stream(q.request, E.request) /\ E.request \ ToSet(q.request) = {}
      /\ Stream(q.response, E.response) /\ E.response \ ToSet(q.response) = {}
  BY <1>1, <1>2, <1>3, Enumerates
<1>5. /\ Stream(q.data, E.data) /\ E.data \ ToSet(q.data) = {}
      /\ Stream(q.finished, E.finished) /\ E.finished \ ToSet(q.finished) = {}
  BY <1>1, <1>3, Enumerates
<1>6. Streaming(p, q)
  BY <1>1, <1>4, <1>5 DEF Streaming, E
<1>7. Read(p, q) = [request |-> {}, response |-> {}, data |-> {}, finished |-> {}]
  BY <1>4, <1>5 DEF Read, E
<1> QED BY <1>6, <1>7 DEF Seen

\* Nothing is told of a request that was not seen.
LEMMA Untold ==
  ASSUME NEW p, NEW rd, NEW r, r \notin Seen(rd)
  PROVE  Told(p, rd, r) = NewEntry
<1>1. r \notin rd.request /\ r \notin rd.response /\ r \notin rd.finished
  BY DEF Seen
<1>2. ChunksOf(rd.data, r) = {}
  <2>1. ASSUME NEW n, <<r, n>> \in rd.data PROVE FALSE
    <3>1. <<r, n>>[1] \in {d[1] : d \in rd.data}
      BY <2>1
    <3> QED BY <3>1 DEF Seen
  <2> QED BY <2>1 DEF ChunksOf
<1>3. ChunkSize * Cardinality(ChunksOf(rd.data, r)) = 0
  BY <1>2, FS_EmptySet, BrowserAssumption
<1> QED BY <1>1, <1>3 DEF Told, NewEntry

LEMMA EntryTold ==
  ASSUME NEW t, DrainsAt(t), NEW r
  PROVE  entry_for(t, r) = Told(tab[t].sent, Read(tab[t].sent, queue[t]), r)
BY Untold DEF DrainsAt, Drains, entry_for

LEMMA TabFrame ==
  ASSUME NEW t, TabInv(t), tab'[t] = tab[t], queue'[t] = queue[t], pending'[t] = pending[t],
         order'[t] = order[t], responses'[t] = responses[t], browsed'[t] = browsed[t]
  PROVE  TabInv(t)'
BY DEF TabInv, DrainsAt

LEMMA BrowserFrame == BrowserInv /\ UNCHANGED browserVars => BrowserInv'
<1> SUFFICES ASSUME BrowserInv, UNCHANGED browserVars PROVE BrowserInv'
  OBVIOUS
<1>1. PerTab'
  BY DEF BrowserInv, PerTab, browserVars
<1>2. ASSUME NEW t \in Tabs PROVE TabInv(t)'
  BY <1>2, TabFrame DEF BrowserInv, browserVars
<1> QED BY <1>1, <1>2 DEF BrowserInv

LEMMA BrowserInit0 == Init => BrowserInv
<1> SUFFICES ASSUME BrowserInit PROVE BrowserInv
  BY DEF Init
<1>1. PerTab
  BY DEF BrowserInit, PerTab
<1>2. ASSUME NEW t \in Tabs PROVE TabInv(t)
  <2>1. tab[t] \in [at : {"start"}, sent : {NoPage}]
    BY <1>2 DEF BrowserInit
  <2>2. tab[t].at = "start" /\ DOMAIN tab[t] = {"at", "sent"}
    BY <2>1
  <2>3. pending[t] = <<>> /\ order[t] = <<>> /\ responses[t] = 0
    BY <1>2 DEF BrowserInit
  <2> QED BY <2>2, <2>3 DEF TabInv
<1> QED BY <1>1, <1>2 DEF BrowserInv

\* A tab that moves leaves the others alone.
LEMMA OneTab ==
  ASSUME BrowserInv, NEW t \in Tabs, TabInv(t)', PerTab',
         \A u \in Tabs \ {t} :
           /\ tab'[u] = tab[u] /\ queue'[u] = queue[u] /\ pending'[u] = pending[u]
           /\ order'[u] = order[u] /\ responses'[u] = responses[u] /\ browsed'[u] = browsed[u]
  PROVE  BrowserInv'
<1>1. ASSUME NEW u \in Tabs PROVE TabInv(u)'
  <2>1. CASE u = t
    BY <2>1
  <2>2. CASE u # t
    BY <2>2, <1>1, TabFrame DEF BrowserInv
  <2> QED BY <2>1, <2>2
<1> QED BY <1>1 DEF BrowserInv

\* A stage before the drain leads to another, or the attempt fails.
LEMMA GoStep ==
  ASSUME BrowserInv, NEW t \in Tabs, tab[t].at \notin {"drain", "done"},
         NEW to, to \notin {"drain", "done"}, Go(t, to), UNCHANGED <<Reading, browsed>>
  PROVE  BrowserInv'
<1>1. /\ tab' = [tab EXCEPT ![t].at = to]
      /\ UNCHANGED <<queue, pending, order, responses, browsed>>
  BY DEF Go, Reading
<1>2. PerTab' /\ DOMAIN tab[t] = {"at", "sent"}
  BY <1>1 DEF BrowserInv, PerTab, TabInv
<1>3. tab'[t].at = to /\ DOMAIN tab'[t] = {"at", "sent"} /\ \A u \in Tabs \ {t} : tab'[u] = tab[u]
  BY <1>1, <1>2 DEF BrowserInv, PerTab
<1>4. TabInv(t)'
  BY <1>1, <1>3 DEF BrowserInv, TabInv
<1> QED BY <1>1, <1>2, <1>3, <1>4, OneTab

LEMMA ErrorStep ==
  ASSUME BrowserInv, NEW t \in Tabs, NEW category, category # "none", browser_error(t, category)
  PROVE  BrowserInv'
<1>1. /\ tab' = [tab EXCEPT ![t].at = "done"]
      /\ browsed' = [browsed EXCEPT ![t] = [success |-> FALSE, error |-> category]]
      /\ UNCHANGED <<queue, pending, order, responses>>
  BY DEF browser_error, Leave, Go, Reading
<1>2. PerTab' /\ DOMAIN tab[t] = {"at", "sent"}
  BY <1>1 DEF BrowserInv, PerTab, TabInv
<1>3. /\ tab'[t].at = "done" /\ DOMAIN tab'[t] = {"at", "sent"}
      /\ browsed'[t].error = category
      /\ \A u \in Tabs \ {t} : tab'[u] = tab[u] /\ browsed'[u] = browsed[u]
  BY <1>1, <1>2 DEF BrowserInv, PerTab
<1>4. TabInv(t)'
  BY <1>3 DEF TabInv
<1> QED BY <1>1, <1>2, <1>3, <1>4, OneTab

LEMMA NavigateStep ==
  ASSUME BrowserInv, NEW t \in Tabs, Navigate(t)
  PROVE  BrowserInv'
<1>1. CASE \E category \in {"http", "timeout"} : browser_error(t, category)
  BY <1>1, ErrorStep
<1>2. CASE ~ \E category \in {"http", "timeout"} : browser_error(t, category)
  <2>1. PICK p \in Page : \E q \in Streams(p) :
          /\ tab' = [tab EXCEPT ![t].at = "drain", ![t].sent = p]
          /\ queue' = [queue EXCEPT ![t] = q]
          /\ UNCHANGED <<profile, pending, order, responses, browsed>>
    BY <1>2 DEF Navigate
  <2>2. PICK q \in Streams(p) :
          /\ tab' = [tab EXCEPT ![t].at = "drain", ![t].sent = p]
          /\ queue' = [queue EXCEPT ![t] = q]
          /\ UNCHANGED <<profile, pending, order, responses, browsed>>
    BY <2>1
  <2>3. PerTab' /\ DOMAIN tab[t] = {"at", "sent"}
    BY <2>2 DEF BrowserInv, PerTab, TabInv
  <2>4. /\ tab'[t].at = "drain" /\ tab'[t].sent = p /\ DOMAIN tab'[t] = {"at", "sent"}
        /\ queue'[t] = q
        /\ \A u \in Tabs \ {t} : tab'[u] = tab[u] /\ queue'[u] = queue[u]
    BY <2>2, <2>3 DEF BrowserInv, PerTab
  <2>5. pending'[t] = <<>> /\ order'[t] = <<>> /\ responses'[t] = 0
    BY <2>2 DEF BrowserInv, TabInv, Navigate, At
  <2>6. Drains(p, q, <<>>, <<>>, 0)
    <3>1. /\ Streaming(p, q) /\ Seen(Read(p, q)) = {}
          /\ Cardinality(Read(p, q).response) = 0
      BY Unread, FS_EmptySet
    <3>2. Stream(<<>>, Ids) /\ ToSet(<<>>) = {} /\ DOMAIN <<>> = {}
      BY DEF Stream, IsInjective, ToSet
    <3> QED BY <3>1, <3>2 DEF Drains
  <2>7. TabInv(t)'
    BY <2>4, <2>5, <2>6 DEF TabInv, DrainsAt
  <2> QED BY <2>2, <2>3, <2>4, <2>7, OneTab
<1> QED BY <1>1, <1>2

\* Recording what an event says of its request, for a tab that drains.
LEMMA Recorded ==
  ASSUME BrowserInv, NEW t \in Tabs, NEW q, NEW r \in Ids, NEW e, NEW n,
         At(t, "drain"), UNCHANGED <<tab, browsed>>,
         queue' = [queue EXCEPT ![t] = q], Record(t, r, e),
         DOMAIN responses' = Tabs, responses'[t] = n,
         \A u \in Tabs \ {t} : responses'[u] = responses[u],
         Streaming(tab[t].sent, q),
         LET p == tab[t].sent
             old == Read(p, queue[t])
             new == Read(p, q)
         IN  /\ Seen(new) = Seen(old) \cup {r} /\ n = Cardinality(new.response)
             /\ e = Told(p, new, r)
             /\ \A x \in Seen(old) : x # r => Told(p, new, x) = Told(p, old, x)
  PROVE  BrowserInv'
<1> DEFINE p == tab[t].sent
           old == Read(p, queue[t])
           new == Read(p, q)
           pend == [x \in DOMAIN pending[t] \cup {r} |-> IF x = r THEN e ELSE pending[t][x]]
           ord == IF r \in DOMAIN pending[t] THEN order[t] ELSE Append(order[t], r)
<1>1. /\ pending' = [pending EXCEPT ![t] = pend] /\ order' = [order EXCEPT ![t] = ord]
      /\ TabInv(t) /\ Drains(p, queue[t], pending[t], order[t], responses[t])
  BY DEF Record, BrowserInv, TabInv, DrainsAt, At
<1>2. DOMAIN pending[t] = Seen(old) /\ \A x \in DOMAIN pending[t] : pending[t][x] = Told(p, old, x)
  BY <1>1 DEF Drains
<1>3. Stream(order[t], Ids) /\ ToSet(order[t]) = Seen(old)
  BY <1>1 DEF Drains
<1>4. Seen(new) = Seen(old) \cup {r} /\ n = Cardinality(new.response) /\ e = Told(p, new, r)
      /\ \A x \in Seen(old) : x # r => Told(p, new, x) = Told(p, old, x)
  OBVIOUS
<1>5. PerTab' /\ pending'[t] = pend /\ order'[t] = ord /\ queue'[t] = q /\ responses'[t] = n
      /\ \A u \in Tabs \ {t} : pending'[u] = pending[u] /\ order'[u] = order[u]
                               /\ queue'[u] = queue[u] /\ responses'[u] = responses[u]
  <2> HIDE DEF pend, ord
  <2> QED BY <1>1 DEF BrowserInv, PerTab
<1> HIDE DEF p, old, new
<1>6. DOMAIN pend = Seen(new) /\ \A x \in DOMAIN pend : pend[x] = Told(p, new, x)
  BY <1>2, <1>4
<1>7. Stream(ord, Ids) /\ ToSet(ord) = Seen(new)
  <2>1. CASE r \in DOMAIN pending[t]
    BY <2>1, <1>2, <1>3, <1>4
  <2>2. CASE r \notin DOMAIN pending[t]
    <3>1. order[t] \in Seq(Ids) /\ r \notin ToSet(order[t])
      BY <2>2, <1>2, <1>3 DEF Stream
    <3>2. /\ Append(order[t], r) \in Seq(Ids)
          /\ DOMAIN Append(order[t], r) = 1..(Len(order[t]) + 1)
          /\ DOMAIN order[t] = 1..Len(order[t]) /\ Len(order[t]) \in Nat
          /\ \A i \in 1..Len(order[t]) : Append(order[t], r)[i] = order[t][i]
          /\ Append(order[t], r)[Len(order[t]) + 1] = r
      BY <3>1
    <3>3. \A i \in 1..Len(order[t]) : order[t][i] # r
      BY <3>1, <3>2 DEF ToSet
    <3>4. \A i, j \in 1..Len(order[t]) : order[t][i] = order[t][j] => i = j
      BY <3>2, <1>3 DEF Stream, IsInjective
    <3>5. IsInjective(Append(order[t], r))
      <4>1. ASSUME NEW i \in 1..(Len(order[t]) + 1), NEW j \in 1..(Len(order[t]) + 1),
                   Append(order[t], r)[i] = Append(order[t], r)[j]
            PROVE  i = j
        <5>1. i \in 1..Len(order[t]) \/ i = Len(order[t]) + 1
          BY <3>2
        <5>2. j \in 1..Len(order[t]) \/ j = Len(order[t]) + 1
          BY <3>2
        <5> QED BY <5>1, <5>2, <4>1, <3>2, <3>3, <3>4
      <4> QED BY <4>1, <3>2 DEF IsInjective
    <3>6. ToSet(Append(order[t], r)) = ToSet(order[t]) \cup {r}
      <4>1. \A x \in ToSet(order[t]) \cup {r} : x \in ToSet(Append(order[t], r))
        BY <3>2 DEF ToSet
      <4>2. \A x \in ToSet(Append(order[t], r)) : x \in ToSet(order[t]) \cup {r}
        BY <3>2 DEF ToSet
      <4> QED BY <4>1, <4>2
    <3> QED BY <2>2, <3>2, <3>5, <3>6, <1>3, <1>4 DEF Stream
  <2> QED BY <2>1, <2>2
<1>8. Drains(p, q, pend, ord, n)
  <2> HIDE DEF pend, ord
  <2> QED BY <1>4, <1>6, <1>7 DEF Drains, p, new
<1>9. TabInv(t)'
  <2>1. tab'[t] = tab[t] /\ tab[t].at = "drain" /\ DOMAIN tab[t] = {"at", "sent"}
    BY <1>1 DEF At, TabInv
  <2> HIDE DEF pend, ord
  <2> QED BY <2>1, <1>5, <1>8 DEF TabInv, DrainsAt, p
<1> QED BY <1>5, <1>9, OneTab

LEMMA ReadOf ==
  ASSUME NEW p, NEW q, NEW k \in Kinds
  PROVE  Read(p, q)[k] = Events(p)[k] \ ToSet(q[k])
<1>1. CASE k = "request"
  BY <1>1 DEF Read
<1>2. CASE k = "response"
  BY <1>2 DEF Read
<1>3. CASE k = "data"
  BY <1>3 DEF Read
<1>4. CASE k = "finished"
  BY <1>4 DEF Read
<1> QED BY <1>1, <1>2, <1>3, <1>4 DEF Kinds

\* Taking the head of a stream.
LEMMA Taken ==
  ASSUME BrowserInv, NEW t \in Tabs, NEW kind \in Kinds, Take(t, kind)
  PROVE  LET q == queue[t]
             next == [q EXCEPT ![kind] = Tail(@)]
             p == tab[t].sent
         IN  /\ At(t, "drain") /\ DrainsAt(t) /\ UNCHANGED <<tab, browsed>>
             /\ queue' = [queue EXCEPT ![t] = next]
             /\ Streaming(p, next)
             /\ Head(q[kind]) \in Events(p)[kind] /\ Head(q[kind]) \notin Read(p, q)[kind]
             /\ Read(p, next)[kind] = Read(p, q)[kind] \cup {Head(q[kind])}
             /\ \A k \in Kinds \ {kind} : Read(p, next)[k] = Read(p, q)[k]
<1> DEFINE q == queue[t]
           next == [q EXCEPT ![kind] = Tail(@)]
           p == tab[t].sent
<1>1. At(t, "drain") /\ DrainsAt(t) /\ UNCHANGED <<tab, browsed>> /\ q[kind] # <<>>
  BY DEF Take, BrowserInv, TabInv, At
<1>2. queue' = [queue EXCEPT ![t] = next]
  BY DEF Take
<1>3. /\ p \in Page /\ DOMAIN q = Kinds
      /\ \A k \in Kinds : Stream(q[k], Events(p)[k])
  BY <1>1 DEF DrainsAt, Drains, Streaming, Kinds
<1>4. DOMAIN next = Kinds /\ next[kind] = Tail(q[kind]) /\ \A k \in Kinds \ {kind} : next[k] = q[k]
  BY <1>3
<1>5. /\ Stream(Tail(q[kind]), Events(p)[kind]) /\ Head(q[kind]) \in Events(p)[kind]
      /\ Events(p)[kind] \ ToSet(Tail(q[kind])) = (Events(p)[kind] \ ToSet(q[kind])) \cup {Head(q[kind])}
      /\ Head(q[kind]) \notin Events(p)[kind] \ ToSet(q[kind])
  BY <1>1, <1>3, HeadRead
<1> HIDE DEF q, next, p
<1>6. \A k \in Kinds : /\ Read(p, q)[k] = Events(p)[k] \ ToSet(q[k])
                      /\ Read(p, next)[k] = Events(p)[k] \ ToSet(next[k])
  BY ReadOf
<1>7. \A k \in Kinds : Stream(next[k], Events(p)[k])
  BY <1>3, <1>4, <1>5
<1>8. Streaming(p, next)
  BY <1>3, <1>4, <1>7 DEF Streaming, Kinds
<1>9. /\ Head(q[kind]) \notin Read(p, q)[kind]
      /\ Read(p, next)[kind] = Read(p, q)[kind] \cup {Head(q[kind])}
      /\ \A k \in Kinds \ {kind} : Read(p, next)[k] = Read(p, q)[k]
  BY <1>4, <1>5, <1>6, ZenonT(60)
<1> QED BY <1>1, <1>2, <1>5, <1>8, <1>9 DEF q, next, p

\* An entry with some of its fields set.
Answered(e, x, y) == [e EXCEPT !.url = x, !.status = y]
Grown(e, x) == [e EXCEPT !.data = x]
Closed(e, x) == [e EXCEPT !.finished = x]

LEMMA EntrySet ==
  ASSUME NEW p, NEW rd, NEW r, NEW x, NEW y
  PROVE  LET e == Told(p, rd, r)
         IN  /\ Answered(e, x, y)
                  = [url |-> x, status |-> y, data |-> e.data, finished |-> e.finished]
             /\ Grown(e, x)
                  = [url |-> e.url, status |-> e.status, data |-> x, finished |-> e.finished]
             /\ Closed(e, x)
                  = [url |-> e.url, status |-> e.status, data |-> e.data, finished |-> x]
<1> DEFINE e == Told(p, rd, r)
           u == IF r \in rd.request THEN "request"
                ELSE IF r \in rd.response THEN "response" ELSE ""
           s == IF r \in rd.response THEN 200 ELSE Absent
           d == ChunkSize * Cardinality(ChunksOf(rd.data, r))
           f == IF r \in rd.finished THEN p[r].finished ELSE Absent
<1>1. e = [url |-> u, status |-> s, data |-> d, finished |-> f]
  BY DEF Told
<1> HIDE DEF e, u, s, d, f
<1>2. e.url = u /\ e.status = s /\ e.data = d /\ e.finished = f
  BY <1>1
<1>3. Grown(e, x) = [url |-> u, status |-> s, data |-> x, finished |-> f]
  BY <1>1 DEF Grown
<1>4. Closed(e, x) = [url |-> u, status |-> s, data |-> d, finished |-> x]
  BY <1>1 DEF Closed
<1>5. Answered(e, x, y) = [url |-> x, status |-> y, data |-> d, finished |-> f]
  <2> DEFINE g == [e EXCEPT !.url = x]
  <2>1. Answered(e, x, y) = [g EXCEPT !.status = y]
    BY DEF Answered
  <2>2. g = [url |-> x, status |-> s, data |-> d, finished |-> f]
    BY <1>1
  <2> HIDE DEF g
  <2>3. [g EXCEPT !.status = y] = [url |-> x, status |-> y, data |-> d, finished |-> f]
    BY <2>2
  <2> QED BY <2>1, <2>3
<1> QED BY <1>2, <1>3, <1>4, <1>5 DEF e

LEMMA RequestStep ==
  ASSUME BrowserInv, NEW t \in Tabs, RequestWillBeSent(t)
  PROVE  BrowserInv'
<1> DEFINE q == queue[t]
           next == [q EXCEPT !["request"] = Tail(@)]
           p == tab[t].sent
           r == Head(q["request"])
           e == [entry_for(t, r) EXCEPT !.url = "request"]
           old == Read(p, q)
           new == Read(p, next)
<1>1. "request" \in Kinds /\ Take(t, "request") /\ Record(t, r, e) /\ UNCHANGED responses
  BY DEF RequestWillBeSent, Kinds
<1>2. /\ At(t, "drain") /\ DrainsAt(t) /\ UNCHANGED <<tab, browsed>>
      /\ queue' = [queue EXCEPT ![t] = next]
      /\ Streaming(p, next)
      /\ Head(q["request"]) \in Events(p)["request"]
      /\ Read(p, next)["request"] = Read(p, q)["request"] \cup {Head(q["request"])}
      /\ \A k \in Kinds \ {"request"} : Read(p, next)[k] = Read(p, q)[k]
  BY <1>1, Taken
<1>3. /\ r \in Ids /\ new.request = old.request \cup {r}
      /\ new.response = old.response /\ new.data = old.data /\ new.finished = old.finished
  BY <1>2 DEF Events, Kinds
<1>4. entry_for(t, r) = Told(p, old, r) /\ responses[t] = Cardinality(old.response)
  BY <1>2, EntryTold DEF DrainsAt, Drains
<1> HIDE DEF q, next, p, old, new, r
<1>5. Seen(new) = Seen(old) \cup {r}
  BY <1>3 DEF Seen
<1>6. e = Told(p, new, r)
  <2>1. e = [Told(p, old, r) EXCEPT !.url = "request"]
    BY <1>4
  <2>2. Told(p, new, r).url = "request"
    BY <1>3 DEF Told
  <2> HIDE DEF e
  <2> QED BY <1>3, <2>1, <2>2, ZenonT(60) DEF Told
<1>7. \A x : x # r => Told(p, new, x) = Told(p, old, x)
  BY <1>3 DEF Told
<1>8. DOMAIN responses' = Tabs /\ \A u \in Tabs : responses'[u] = responses[u]
  BY <1>1 DEF BrowserInv, PerTab
<1> HIDE DEF e
<1> QED BY <1>1, <1>2, <1>3, <1>4, <1>5, <1>6, <1>7, <1>8, Recorded DEF p, q, old, new

LEMMA ResponseStep ==
  ASSUME BrowserInv, NEW t \in Tabs, ResponseReceived(t)
  PROVE  BrowserInv'
<1> DEFINE q == queue[t]
           next == [q EXCEPT !["response"] = Tail(@)]
           p == tab[t].sent
           r == Head(q["response"])
           f == entry_for(t, r)
           e == [f EXCEPT !.url = IF f.url = "" THEN "response" ELSE f.url, !.status = 200]
           old == Read(p, q)
           new == Read(p, next)
<1>1. /\ "response" \in Kinds /\ Take(t, "response") /\ Record(t, r, e)
      /\ responses' = [responses EXCEPT ![t] = responses[t] + 1]
  BY DEF ResponseReceived, Kinds
<1>2. /\ At(t, "drain") /\ DrainsAt(t) /\ UNCHANGED <<tab, browsed>>
      /\ queue' = [queue EXCEPT ![t] = next]
      /\ Streaming(p, next)
      /\ Head(q["response"]) \in Events(p)["response"]
      /\ Head(q["response"]) \notin Read(p, q)["response"]
      /\ Read(p, next)["response"] = Read(p, q)["response"] \cup {Head(q["response"])}
      /\ \A k \in Kinds \ {"response"} : Read(p, next)[k] = Read(p, q)[k]
  BY <1>1, Taken
<1>3. /\ r \in Ids /\ new.response = old.response \cup {r} /\ r \notin old.response
      /\ new.request = old.request /\ new.data = old.data /\ new.finished = old.finished
  BY <1>2 DEF Events, Kinds
<1>4. f = Told(p, old, r) /\ responses[t] = Cardinality(old.response)
  BY <1>2, EntryTold DEF DrainsAt, Drains
<1>5. IsFiniteSet(old.response)
  <2>1. IsFiniteSet(Events(p).response)
    BY EventsFinite
  <2>2. old.response \subseteq Events(p).response
    BY DEF Read
  <2> QED BY <2>1, <2>2, FS_Subset
<1> HIDE DEF q, next, p, old, new, r
<1>6. responses[t] + 1 = Cardinality(new.response)
  BY <1>3, <1>4, <1>5, FS_AddElement
<1>7. Seen(new) = Seen(old) \cup {r}
  BY <1>3 DEF Seen
<1>8. e = Told(p, new, r)
  <2> HIDE DEF f
  <2>1. f.url = IF r \in old.request THEN "request" ELSE ""
    BY <1>3, <1>4 DEF Told
  <2>2. e = [url |-> IF f.url = "" THEN "response" ELSE f.url, status |-> 200,
             data |-> f.data, finished |-> f.finished]
    <3> DEFINE w == IF f.url = "" THEN "response" ELSE f.url
    <3> HIDE DEF w, f
    <3>1. Answered(f, w, 200)
            = [url |-> w, status |-> 200, data |-> f.data, finished |-> f.finished]
      BY <1>4, EntrySet
    <3>2. e = Answered(f, w, 200)
      BY DEF Answered, w
    <3> QED BY <3>1, <3>2 DEF w
  <2>3. f.data = ChunkSize * Cardinality(ChunksOf(new.data, r))
        /\ f.finished = IF r \in new.finished THEN p[r].finished ELSE Absent
    BY <1>3, <1>4 DEF Told
  <2> HIDE DEF e
  <2> QED BY <1>3, <2>1, <2>2, <2>3 DEF Told
<1>9. \A x : x # r => Told(p, new, x) = Told(p, old, x)
  BY <1>3 DEF Told
<1>10. /\ DOMAIN responses' = Tabs /\ responses'[t] = responses[t] + 1
       /\ \A u \in Tabs \ {t} : responses'[u] = responses[u]
  BY <1>1 DEF BrowserInv, PerTab
<1> HIDE DEF e
<1> QED BY <1>10, <1>1, <1>2, <1>3, <1>6, <1>7, <1>8, <1>9, Recorded, ZenonT(60) DEF p, q, old, new

LEMMA DataStep ==
  ASSUME BrowserInv, NEW t \in Tabs, DataReceived(t)
  PROVE  BrowserInv'
<1> DEFINE q == queue[t]
           next == [q EXCEPT !["data"] = Tail(@)]
           p == tab[t].sent
           d == Head(q["data"])
           r == d[1]
           f == entry_for(t, r)
           e == [f EXCEPT !.data = f.data + ChunkSize]
           old == Read(p, q)
           new == Read(p, next)
<1>1. "data" \in Kinds /\ Take(t, "data") /\ Record(t, r, e) /\ UNCHANGED responses
  BY DEF DataReceived, Kinds
<1>2. /\ At(t, "drain") /\ DrainsAt(t) /\ UNCHANGED <<tab, browsed>>
      /\ queue' = [queue EXCEPT ![t] = next]
      /\ Streaming(p, next)
      /\ Head(q["data"]) \in Events(p)["data"]
      /\ Head(q["data"]) \notin Read(p, q)["data"]
      /\ Read(p, next)["data"] = Read(p, q)["data"] \cup {Head(q["data"])}
      /\ \A k \in Kinds \ {"data"} : Read(p, next)[k] = Read(p, q)[k]
  BY <1>1, Taken
<1>3. /\ d \in Ids \X (1..MaxChunks) /\ new.data = old.data \cup {d} /\ d \notin old.data
      /\ new.request = old.request /\ new.response = old.response /\ new.finished = old.finished
  BY <1>2 DEF Events, Kinds
<1>4. f = Told(p, old, r) /\ responses[t] = Cardinality(old.response)
  BY <1>2, EntryTold, ZenonT(60) DEF DrainsAt, Drains
<1> HIDE DEF q, next, p, old, new, d
<1>5. r \in Ids /\ d[2] \in 1..MaxChunks /\ d = <<r, d[2]>>
  BY <1>3
<1>6. Seen(new) = Seen(old) \cup {r}
  <2>1. {x[1] : x \in new.data} = {x[1] : x \in old.data} \cup {r}
    BY <1>3
  <2> QED BY <2>1, <1>3 DEF Seen
<1>7. /\ ChunksOf(new.data, r) = ChunksOf(old.data, r) \cup {d[2]}
      /\ d[2] \notin ChunksOf(old.data, r)
  BY <1>3, <1>5 DEF ChunksOf
<1>8. \A x : x # r => ChunksOf(new.data, x) = ChunksOf(old.data, x)
  BY <1>3, <1>5 DEF ChunksOf
<1>9. e = Told(p, new, r)
  <2>1. Cardinality(ChunksOf(new.data, r)) = Cardinality(ChunksOf(old.data, r)) + 1
        /\ Cardinality(ChunksOf(old.data, r)) \in Nat
    BY <1>7, ChunkCount, FS_AddElement
  <2>2. ChunkSize * Cardinality(ChunksOf(new.data, r))
          = ChunkSize * Cardinality(ChunksOf(old.data, r)) + ChunkSize
    <3> DEFINE a == Cardinality(ChunksOf(old.data, r))
    <3>1. a \in Nat /\ Cardinality(ChunksOf(new.data, r)) = a + 1 /\ ChunkSize \in Nat
      BY <2>1, BrowserAssumption
    <3> HIDE DEF a
    <3>2. ChunkSize * (a + 1) = ChunkSize * a + ChunkSize
      BY <3>1
    <3> QED BY <3>1, <3>2 DEF a
  <2>3. e = [url |-> f.url, status |-> f.status, data |-> f.data + ChunkSize, finished |-> f.finished]
    <3>1. e = Grown(f, f.data + ChunkSize)
      BY DEF Grown
    <3> HIDE DEF f, e
    <3> QED BY <3>1, <1>4, EntrySet
  <2> HIDE DEF e, f, r
  <2>4. /\ f.url = Told(p, new, r).url /\ f.status = Told(p, new, r).status
        /\ f.finished = Told(p, new, r).finished
        /\ f.data = ChunkSize * Cardinality(ChunksOf(old.data, r))
    BY <1>3, <1>4 DEF Told
  <2>5. Told(p, new, r).data = ChunkSize * Cardinality(ChunksOf(new.data, r))
    BY DEF Told
  <2>6. e = [url |-> Told(p, new, r).url, status |-> Told(p, new, r).status,
             data |-> Told(p, new, r).data, finished |-> Told(p, new, r).finished]
    BY <2>2, <2>3, <2>4, <2>5
  <2> QED BY <2>6 DEF Told
<1>10. \A x : x # r => Told(p, new, x) = Told(p, old, x)
  BY <1>3, <1>8 DEF Told
<1>11. DOMAIN responses' = Tabs /\ \A u \in Tabs : responses'[u] = responses[u]
  BY <1>1 DEF BrowserInv, PerTab
<1> HIDE DEF e, r
<1> QED BY <1>1, <1>2, <1>3, <1>4, <1>5, <1>6, <1>9, <1>10, <1>11, Recorded, ZenonT(60) DEF p, q, old, new

LEMMA FinishedStep ==
  ASSUME BrowserInv, NEW t \in Tabs, LoadingFinished(t)
  PROVE  BrowserInv'
<1> DEFINE q == queue[t]
           next == [q EXCEPT !["finished"] = Tail(@)]
           p == tab[t].sent
           r == Head(q["finished"])
           f == entry_for(t, r)
           e == [f EXCEPT !.finished = tab[t].sent[r].finished]
           old == Read(p, q)
           new == Read(p, next)
<1>1. "finished" \in Kinds /\ Take(t, "finished") /\ Record(t, r, e) /\ UNCHANGED responses
  BY DEF LoadingFinished, Kinds
<1>2. /\ At(t, "drain") /\ DrainsAt(t) /\ UNCHANGED <<tab, browsed>>
      /\ queue' = [queue EXCEPT ![t] = next]
      /\ Streaming(p, next)
      /\ Head(q["finished"]) \in Events(p)["finished"]
      /\ Read(p, next)["finished"] = Read(p, q)["finished"] \cup {Head(q["finished"])}
      /\ \A k \in Kinds \ {"finished"} : Read(p, next)[k] = Read(p, q)[k]
  BY <1>1, Taken
<1>3. /\ r \in Ids /\ new.finished = old.finished \cup {r}
      /\ new.request = old.request /\ new.data = old.data /\ new.response = old.response
  BY <1>2 DEF Events, Kinds
<1>4. f = Told(p, old, r) /\ responses[t] = Cardinality(old.response)
  BY <1>2, EntryTold DEF DrainsAt, Drains
<1>5. e = Told(p, new, r)
  <2>1. e = [url |-> f.url, status |-> f.status, data |-> f.data, finished |-> p[r].finished]
    <3>1. e = Closed(f, p[r].finished)
      BY DEF Closed
    <3> HIDE DEF f, e, p
    <3> QED BY <3>1, <1>4, EntrySet
  <2> HIDE DEF p, old, new, r, e, f
  <2>2. /\ f.url = Told(p, new, r).url /\ f.status = Told(p, new, r).status
        /\ f.data = Told(p, new, r).data /\ p[r].finished = Told(p, new, r).finished
    BY <1>3, <1>4 DEF Told
  <2>3. e = [url |-> Told(p, new, r).url, status |-> Told(p, new, r).status,
             data |-> Told(p, new, r).data, finished |-> Told(p, new, r).finished]
    BY <2>1, <2>2
  <2> QED BY <2>3 DEF Told
<1> HIDE DEF q, next, p, old, new, r
<1>6. Seen(new) = Seen(old) \cup {r}
  BY <1>3 DEF Seen
<1>7. \A x : x # r => Told(p, new, x) = Told(p, old, x)
  BY <1>3 DEF Told
<1>8. DOMAIN responses' = Tabs /\ \A u \in Tabs : responses'[u] = responses[u]
  BY <1>1 DEF BrowserInv, PerTab
<1> HIDE DEF e
<1> QED BY <1>1, <1>2, <1>3, <1>4, <1>5, <1>6, <1>7, <1>8, Recorded DEF p, q, old, new

LEMMA CollectStep ==
  ASSUME BrowserInv, NEW t \in Tabs, Collect(t)
  PROVE  BrowserInv'
<1>1. PICK timed \in BOOLEAN : Leave(t, LoadedAttempt(pending[t], order[t], responses[t], timed))
  BY DEF Collect
<1> DEFINE result == LoadedAttempt(pending[t], order[t], responses[t], timed)
<1> HIDE DEF result
<1>2. /\ tab' = [tab EXCEPT ![t].at = "done"] /\ browsed' = [browsed EXCEPT ![t] = result]
      /\ UNCHANGED <<queue, pending, order, responses>>
  BY <1>1 DEF Leave, Go, Reading, Collect, result
<1>3. DrainsAt(t) /\ DOMAIN tab[t] = {"at", "sent"} /\ PerTab'
  BY <1>2 DEF BrowserInv, TabInv, PerTab, Collect, At
<1>4. /\ tab'[t].at = "done" /\ tab'[t].sent = tab[t].sent /\ DOMAIN tab'[t] = {"at", "sent"}
      /\ browsed'[t] = result
      /\ \A u \in Tabs \ {t} : tab'[u] = tab[u] /\ browsed'[u] = browsed[u]
  BY <1>2, <1>3 DEF BrowserInv, PerTab
<1>5. DrainsAt(t)'
  BY <1>2, <1>3, <1>4 DEF DrainsAt
<1>6. browsed'[t] = LoadedAttempt(pending[t], order[t], responses[t], timed)'
  BY <1>2, <1>4 DEF result
<1>7. TabInv(t)'
  BY <1>4, <1>5, <1>6 DEF TabInv
<1> QED BY <1>2, <1>3, <1>4, <1>7, OneTab

LEMMA TabSteps ==
  ASSUME BrowserInv, NEW t \in Tabs, TabStep(t)
  PROVE  BrowserInv'
<1>1. CASE ChromeMissing(t) \/ ChromeFound(t) \/ fetch_cert_der(t)
  <2>1. CASE ChromeMissing(t)
    BY <2>1, ErrorStep DEF ChromeMissing
  <2>2. CASE ChromeFound(t)
    <3>1. Go(t, "certificate") \/ Go(t, "launch")
      BY <2>2 DEF ChromeFound
    <3> QED BY <2>2, <3>1, GoStep DEF ChromeFound, At
  <2>3. CASE fetch_cert_der(t)
    BY <2>3, GoStep DEF fetch_cert_der, At
  <2> QED BY <1>1, <2>1, <2>2, <2>3
<1>2. CASE Launch(t)
  <2>1. CASE \E category \in {"config", "other", "timeout"} : browser_error(t, category)
    BY <2>1, ErrorStep
  <2>2. CASE Go(t, "warm up") /\ UNCHANGED <<Reading, browsed>>
    BY <1>2, <2>2, GoStep DEF Launch, At
  <2>3. CASE Go(t, "subscribe") /\ UNCHANGED <<Reading, browsed>>
    BY <1>2, <2>3, GoStep DEF Launch, At
  <2> QED BY <1>2, <2>1, <2>2, <2>3 DEF Launch
<1>3. CASE WarmUp(t)
  BY <1>3, GoStep DEF WarmUp, At
<1>4. CASE Subscribe(t)
  <2>1. CASE browser_error(t, "other")
    BY <2>1, ErrorStep
  <2>2. CASE Go(t, "navigate") /\ UNCHANGED <<Reading, browsed>>
    BY <1>4, <2>2, GoStep DEF Subscribe, At
  <2> QED BY <1>4, <2>1, <2>2 DEF Subscribe
<1> QED BY <1>1, <1>2, <1>3, <1>4, NavigateStep, RequestStep, ResponseStep, DataStep,
           FinishedStep, CollectStep DEF TabStep

LEMMA BrowserSteps == BrowserInv /\ [Next]_vars => BrowserInv'
<1> SUFFICES ASSUME BrowserInv, [Next]_vars PROVE BrowserInv'
  OBVIOUS
<1>1. CASE BrowserStep
  BY <1>1, TabSteps DEF BrowserStep
<1>2. CASE UNCHANGED browserVars
  BY <1>2, BrowserFrame
<1> QED BY <1>1, <1>2 DEF Next, vars, PageTasks, Working, browserVars

-----------------------------------------------------------------------------
LEMMA SmallerOf ==
  ASSUME NEW a \in Nat, NEW b \in Nat
  PROVE  Min({a, b}) \in Nat /\ Min({a, b}) <= a /\ Min({a, b}) <= b
<1>1. \E x \in {a, b} : \A y \in {a, b} : x =< y
  OBVIOUS
<1> QED BY <1>1 DEF Min

\* The account of a request only grows with what is read of it.
LEMMA WireGrows ==
  ASSUME NEW f \in {Absent} \cup Nat, NEW g \in {Absent, f}, NEW c \in Nat, NEW d \in Nat, c <= d
  PROVE  wire_bytes(g, c) <= wire_bytes(f, d)
BY DEF wire_bytes, Absent

LEMMA ToldWire ==
  ASSUME NEW p \in Page, NEW q, NEW r \in Ids
  PROVE  LET e == Told(p, Read(p, q), r)
         IN  wire_bytes(e.finished, e.data) <= wire_bytes(p[r].finished, ChunkSize * p[r].chunks)
<1> DEFINE rd == Read(p, q)
           n == Cardinality(ChunksOf(rd.data, r))
           m == p[r].chunks
           f == p[r].finished
<1>1. m \in Nat /\ f \in {Absent} \cup Nat
  <2>1. p[r] \in [response : BOOLEAN, chunks : 0..MaxChunks, finished : {Absent} \cup FinishedSizes]
    BY DEF Page
  <2>2. m \in 0..MaxChunks /\ f \in {Absent} \cup FinishedSizes
    BY <2>1
  <2> HIDE DEF m, f
  <2>3. m \in Nat
    BY <2>2, BrowserAssumption
  <2>4. f \in {Absent} \cup Nat
    BY <2>2, BrowserAssumption
  <2> QED BY <2>3, <2>4
<1>2. n \in Nat /\ n <= m
  <2>1. rd.data \subseteq Events(p).data
    BY DEF Read
  <2>2. ChunksOf(rd.data, r) \subseteq 1..m
    <3>1. ASSUME NEW k \in ChunksOf(rd.data, r) PROVE k \in 1..m
      <4>1. <<r, k>> \in Events(p).data /\ k \in 1..MaxChunks
        BY <2>1, <3>1 DEF ChunksOf
      <4>2. k <= m
        BY <4>1 DEF Events
      <4>3. k \in Nat
        BY <4>1
      <4> HIDE DEF m
      <4> QED BY <4>2, <4>3, <1>1, <4>1
    <3> QED BY <3>1
  <2>3. IsFiniteSet(1..m) /\ Cardinality(1..m) = m
    <3> HIDE DEF m
    <3> QED BY <1>1, FS_Interval
  <2>4. Cardinality(ChunksOf(rd.data, r)) <= m
    BY <2>2, <2>3, FS_Subset, ZenonT(60)
  <2> QED BY <2>4, ChunkCount
<1> HIDE DEF n, m
<1>3. ChunkSize * n \in Nat /\ ChunkSize * m \in Nat /\ ChunkSize * n <= ChunkSize * m
  <2>1. PICK k \in Nat : m = n + k
    <3>1. m - n \in Nat /\ m = n + (m - n)
      BY <1>1, <1>2
    <3> QED BY <3>1
  <2>2. ChunkSize \in Nat
    BY BrowserAssumption
  <2>3. ChunkSize * m = ChunkSize * n + ChunkSize * k
    BY <1>2, <2>1, <2>2
  <2>4. ChunkSize * n \in Nat /\ ChunkSize * k \in Nat
    BY <1>2, <2>2
  <2> QED BY <2>3, <2>4
<1>4. Told(p, rd, r).data = ChunkSize * n
  BY DEF Told, n
<1>5. Told(p, rd, r).finished \in {Absent, f}
  BY DEF Told
<1> HIDE DEF f
<1>6. wire_bytes(Told(p, rd, r).finished, ChunkSize * n) <= wire_bytes(f, ChunkSize * m)
  BY <1>1, <1>3, <1>5, WireGrows
<1> QED BY <1>4, <1>6 DEF m, f

\* Once everything was read, each request is told what all its events said.
LEMMA AllTold ==
  ASSUME NEW p \in Page, NEW q, \A k \in Kinds : q[k] = <<>>
  PROVE  /\ Seen(Read(p, q)) = Ids
         /\ Read(p, q).response = {i \in Ids : p[i].response}
         /\ \A r \in Ids :
              LET e == Told(p, Read(p, q), r)
              IN  /\ e.url = "request" /\ (e.status # Absent <=> p[r].response)
                  /\ wire_bytes(e.finished, e.data)
                       = wire_bytes(p[r].finished, ChunkSize * p[r].chunks)
<1> DEFINE rd == Read(p, q)
<1>1. ToSet(<<>>) = {}
  BY DEF ToSet
<1>2. /\ rd.request = Ids /\ rd.response = {i \in Ids : p[i].response}
      /\ rd.data = {d \in Ids \X (1..MaxChunks) : d[2] <= p[d[1]].chunks}
      /\ rd.finished = {i \in Ids : p[i].finished # Absent}
  BY <1>1 DEF Read, Events, Kinds
<1> HIDE DEF rd
<1>3. Seen(rd) = Ids
  <2>1. {d[1] : d \in rd.data} \subseteq Ids
    BY <1>2
  <2> QED BY <2>1, <1>2 DEF Seen
<1>4. ASSUME NEW r \in Ids
      PROVE  LET e == Told(p, rd, r)
             IN  /\ e.url = "request" /\ (e.status # Absent <=> p[r].response)
                 /\ e.finished = p[r].finished /\ e.data = ChunkSize * p[r].chunks
  <2> DEFINE e == Told(p, rd, r)
             m == p[r].chunks
  <2>1. e.url = "request" /\ e.status = (IF p[r].response THEN 200 ELSE Absent)
        /\ e.finished = p[r].finished
    BY <1>2 DEF Told
  <2>2. m \in 0..MaxChunks
    BY DEF Page
  <2>3. ChunksOf(rd.data, r) = 1..m
    <3> HIDE DEF m
    <3>1. \A k \in 1..MaxChunks : <<r, k>> \in rd.data <=> k <= m
      BY <1>2 DEF m
    <3> QED BY <3>1, <2>2, BrowserAssumption DEF ChunksOf
  <2>4. Cardinality(1..m) = m
    <3> HIDE DEF m
    <3> QED BY <2>2, BrowserAssumption, FS_Interval
  <2>5. e.data = ChunkSize * m
    BY <2>3, <2>4 DEF Told
  <2> HIDE DEF e
  <2>6. e.status # Absent <=> p[r].response
    BY <2>1 DEF Absent
  <2> QED BY <2>1, <2>5, <2>6 DEF e
<1> QED BY <1>2, <1>3, <1>4 DEF rd

\* Requests that are listed once each are as many as the list is long.
LEMMA ListedOnce ==
  ASSUME NEW ord, Stream(ord, Ids), ToSet(ord) = Ids
  PROVE  Len(ord) = Requests
<1>1. ord \in [1..Len(ord) -> Ids] /\ Len(ord) \in Nat
  BY DEF Stream
<1>2. ord \in Injection(1..Len(ord), Ids)
  BY <1>1 DEF Injection, Stream
<1>3. ord \in Surjection(1..Len(ord), Ids)
  BY <1>1 DEF Surjection, ToSet
<1>4. ord \in Bijection(1..Len(ord), Ids)
  BY <1>2, <1>3 DEF Bijection
<1>5. IsFiniteSet(1..Len(ord)) /\ Cardinality(1..Len(ord)) = Len(ord)
  <2> DEFINE l == Len(ord)
  <2>1. l \in Nat
    BY <1>1
  <2> HIDE DEF l
  <2>2. IsFiniteSet(1..l) /\ Cardinality(1..l) = l
    BY <2>1, FS_Interval
  <2> QED BY <2>2 DEF l
<1>6. ExistsBijection(1..Len(ord), Ids)
  BY <1>4 DEF ExistsBijection
<1>7. Cardinality(Ids) = Cardinality(1..Len(ord))
  BY <1>5, <1>6, FS_Bijection
<1> QED BY <1>5, <1>7, EventsFinite

\* The attempt that is made of a drain, whatever of it was left unread.
LEMMA AttemptOfDrain ==
  ASSUME NEW p, NEW q, NEW pend, NEW ord, NEW n, Drains(p, q, pend, ord, n), NEW timed
  PROVE  /\ ListsOnce(LoadedAttempt(pend, ord, n, timed), p)
         /\ (\A k \in Kinds : q[k] = <<>>) => TellsAll(LoadedAttempt(pend, ord, n, timed), p)
<1> DEFINE r == LoadedAttempt(pend, ord, n, timed)
           wire == PageWire(p)
           read == [i \in DOMAIN pend |-> wire_bytes(pend[i].finished, pend[i].data)]
           cut == Min({Len(ord), WaterfallCap})
           shown == SubSeq(ord, 1, cut)
           rd == Read(p, q)
<1>1. /\ p \in Page /\ DOMAIN pend = Seen(rd) /\ \A x \in DOMAIN pend : pend[x] = Told(p, rd, x)
      /\ ord \in Seq(Ids) /\ IsInjective(ord) /\ ToSet(ord) = Seen(rd)
      /\ n = Cardinality(rd.response)
  BY DEF Drains, Streaming, Stream
<1>2. Len(ord) \in Nat /\ cut \in Nat /\ cut <= Len(ord) /\ cut <= WaterfallCap
  BY <1>1, SmallerOf, BrowserAssumption
<1>3. /\ r.count = n /\ r.total = wire_total(read) /\ r.truncated = (Len(ord) > WaterfallCap)
      /\ r.waterfall = [i \in DOMAIN shown |->
            [id |-> shown[i], entry |-> pend[shown[i]], wire |-> read[shown[i]]]]
  BY DEF LoadedAttempt
<1> HIDE DEF r, cut, rd
<1>4. DOMAIN shown = 1..cut /\ \A i \in 1..cut : shown[i] = ord[i]
  BY <1>1, <1>2
<1>5. \A i \in 1..cut : i \in DOMAIN ord /\ ord[i] \in DOMAIN pend /\ ord[i] \in Ids
  BY <1>1, <1>2 DEF ToSet
<1> HIDE DEF shown
<1>6. DOMAIN r.waterfall = 1..cut
  BY <1>3, <1>4
<1>7. ASSUME NEW i \in 1..cut
      PROVE  /\ r.waterfall[i].id = ord[i] /\ r.waterfall[i].entry = Told(p, rd, ord[i])
             /\ r.waterfall[i].wire = read[ord[i]]
             /\ read[ord[i]] = wire_bytes(Told(p, rd, ord[i]).finished, Told(p, rd, ord[i]).data)
  <2>1. r.waterfall[i] = [id |-> ord[i], entry |-> pend[ord[i]], wire |-> read[ord[i]]]
    BY <1>3, <1>4
  <2>2. pend[ord[i]] = Told(p, rd, ord[i])
    BY <1>1, <1>5
  <2>3. read[ord[i]] = wire_bytes(pend[ord[i]].finished, pend[ord[i]].data)
    BY <1>5
  <2> HIDE DEF read
  <2> QED BY <2>1, <2>2, <2>3
<1>8. Len(r.waterfall) <= WaterfallCap
  <2>1. Len(r.waterfall) = cut
    BY <1>2, <1>3, <1>4, <1>6
  <2> QED BY <2>1, <1>2
<1>9. ASSUME NEW i \in 1..cut, NEW j \in 1..cut, i # j
      PROVE  r.waterfall[i].id # r.waterfall[j].id
  <2>1. ord[i] # ord[j]
    BY <1>9, <1>1, <1>5 DEF IsInjective
  <2> HIDE DEF read
  <2> QED BY <2>1, <1>7
<1>10. ASSUME NEW i \in 1..cut
       PROVE  r.waterfall[i].wire <= wire[r.waterfall[i].id]
  <2>1. wire[ord[i]] = wire_bytes(p[ord[i]].finished, ChunkSize * p[ord[i]].chunks)
    BY <1>5 DEF PageWire
  <2>2. read[ord[i]] <= wire_bytes(p[ord[i]].finished, ChunkSize * p[ord[i]].chunks)
    BY <1>1, <1>5, <1>7, ToldWire DEF rd
  <2> HIDE DEF wire, read
  <2> QED BY <2>1, <2>2, <1>7
<1>11. ASSUME \A k \in Kinds : q[k] = <<>>
       PROVE  /\ r.count = Cardinality({i \in Ids : p[i].response})
              /\ r.total = wire_total(wire)
              /\ r.truncated <=> Requests > WaterfallCap
              /\ \A i \in 1..cut :
                   LET w == r.waterfall[i]
                   IN  /\ w.wire = wire[w.id] /\ w.entry.url = "request"
                       /\ w.entry.status # Absent <=> p[w.id].response
  <2>1. /\ Seen(rd) = Ids /\ rd.response = {i \in Ids : p[i].response}
        /\ \A x \in Ids :
              LET e == Told(p, rd, x)
              IN  /\ e.url = "request" /\ (e.status # Absent <=> p[x].response)
                  /\ wire_bytes(e.finished, e.data)
                       = wire_bytes(p[x].finished, ChunkSize * p[x].chunks)
    BY <1>11, <1>1, AllTold DEF rd
  <2>2. read = wire
    BY <1>1, <2>1 DEF PageWire
  <2>3. Len(ord) = Requests
    BY <1>1, <2>1, ListedOnce DEF Stream
  <2> HIDE DEF read, wire
  <2>4. r.total = wire_total(wire)
    BY <1>3, <2>2
  <2>5. r.count = Cardinality({i \in Ids : p[i].response}) /\ (r.truncated <=> Requests > WaterfallCap)
    BY <1>1, <1>3, <2>1, <2>3
  <2>6. ASSUME NEW i \in 1..cut
        PROVE  LET w == r.waterfall[i]
               IN  /\ w.wire = wire[w.id] /\ w.entry.url = "request"
                   /\ w.entry.status # Absent <=> p[w.id].response
    BY <1>5, <1>7, <2>1, <2>2
  <2> QED BY <2>4, <2>5, <2>6
<1> HIDE DEF wire
<1> QED BY <1>6, <1>8, <1>9, <1>10, <1>11 DEF ListsOnce, TellsAll, r, wire

\* Whatever order select! reads the CDP streams in (browser.rs, the drain), the
\* waterfall lists a request at most once and never more than the cap, no
\* request has more wire bytes than its events gave it, and once everything was
\* read the counts and totals are the page's.  For any number of tabs, requests
\* and chunks, and any order in which the network answered.
THEOREM DrainsInAnyOrder == Spec => []DrainOrderFree
<1>1. ASSUME BrowserInv, NEW t \in Tabs, At(t, "done"), browsed[t].error = "none"
      PROVE  /\ ListsOnce(browsed[t], tab[t].sent)
             /\ Drained(t) => TellsAll(browsed[t], tab[t].sent)
  <2>1. DrainsAt(t) /\ \E timed \in BOOLEAN :
          browsed[t] = LoadedAttempt(pending[t], order[t], responses[t], timed)
    BY <1>1 DEF BrowserInv, TabInv, At
  <2> QED BY <2>1, AttemptOfDrain DEF DrainsAt, Drained
<1>2. BrowserInv => DrainOrderFree
  BY <1>1 DEF DrainOrderFree
<1> QED BY <1>2, BrowserInit0, BrowserSteps, PTL DEF Spec

=============================================================================
