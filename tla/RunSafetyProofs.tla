-------------------------- MODULE RunSafetyProofs --------------------------
(***************************************************************************)
(* Safety of the run system for any number of runs, agents, tasks, slots,  *)
(* connections and faults.  The inductive invariant Inv joins the types,   *)
(* the conservation of run slots and Own: everything that can still make a *)
(* run travel (a request in progress, a frame, a task) keeps it inside its *)
(* project.  From Inv follow the state invariants; what one step may do to *)
(* a row (RowStep) follows from Inv too, and gives both the finality of    *)
(* terminal rows and the refinement of RunLifecycle.                       *)
(*                                                                         *)
(* The second half is about who executes a run, and rests on Inv: TableInv *)
(* (one agent's handles and tasks), the connection of a task, and PlaceInv *)
(* (a run is in one place only).                                           *)
(***************************************************************************)
EXTENDS RunSystem, FiniteSetTheorems, TLAPS

-----------------------------------------------------------------------------
(***************************************************************************)
(* Types: the rows, frames, tasks and permits stay in the sets the code's  *)
(* types and counters allow.  The control plane's half needs OwnOps (a     *)
(* claim in progress names an agent), the agent's half needs OwnTasks (a   *)
(* task names a run) and, for the upper bound of the slot counter,         *)
(* PermitsConserved.                                                       *)
(***************************************************************************)
(* The runs of the agent's own project.                                     *)
OwnRun(a) == {r \in Run : AgentProject[a] = RunProject[r]}

(* TryAssignAsync in progress: it is about a run, and once                  *)
(* SelectTargetAgentAsync has answered its target is an agent of the run's  *)
(* project.                                                                 *)
OwnOps ==
    \A x \in Dispatcher :
        /\ op[x].phase # "idle" => op[x].run \in Run
        /\ op[x].phase \in {"send", "stamp"} =>
              op[x].target \in Agent /\ op[x].run \in OwnRun(op[x].target)

(* Every task of an agent executes a run of the agent's own project.        *)
OwnTasks ==
    \A a \in Agent, t \in Task :
        task[a][t].phase # "free" => task[a][t].run \in OwnRun(a)

(* A connection that loses the end of what it carried carries frames still. *)
LEMMA PrefixType ==
    ASSUME NEW S, NEW q \in Seq(S), NEW p \in Prefixes(q)
    PROVE  p \in Seq(S)
BY DEF Prefixes

(* Every handler, request and tick of the control plane keeps the rows, the *)
(* registry and the requests in progress well typed.                        *)
LEMMA ControlTypeStep ==
    ASSUME TypeOK, OwnOps, ControlStep
    PROVE  ControlTypeOK'
<1> USE ControlAssumption, WireAssumption
<1> USE DEF controlVars
<1>t. ControlTypeOK /\ WireTypeOK
  BY DEF TypeOK
<1>a. run \in [Run -> RunRow] /\ op \in [Dispatcher -> Op]
  BY <1>t DEF ControlTypeOK
<1>1. ASSUME NEW r \in Run, Launch(r) PROVE ControlTypeOK'
  <2>1. run' \in [Run -> RunRow]
    BY <1>1, <1>a DEF Launch, QueuedRow, RunRow, RunStatus
  <2>2. op' \in [Dispatcher -> Op]
    BY <1>1, <1>a DEF Launch, Attempt, Op, Dispatcher
  <2> QED BY <2>1, <2>2, <1>1, <1>t DEF Launch, ControlTypeOK
<1>2. ASSUME NEW r \in Run, Cancel(r) PROVE ControlTypeOK'
  <2>1. run' \in [Run -> RunRow]
    BY <1>2, <1>a DEF Cancel, RunRow, RunStatus, TerminalStatus
  <2> QED BY <2>1, <1>2, <1>t DEF Cancel, ControlTypeOK
<1>3. ASSUME NEW r \in Run, CancelFanOut(r) PROVE ControlTypeOK'
  BY <1>3, <1>t DEF CancelFanOut, ControlTypeOK
<1>4. ASSUME NEW r \in Run, Elapse(r) PROVE ControlTypeOK'
  <2>1. run[r].quiet < MaxQuiet => run[r].quiet + 1 \in 0..3
    BY <1>a DEF RunRow
  <2>2. CASE run' = [run EXCEPT ![r].aged = TRUE]
    <3>1. run' \in [Run -> RunRow]
      <4>1. [run[r] EXCEPT !.aged = TRUE] \in RunRow
        <5>1. run[r] \in RunRow /\ TRUE \in BOOLEAN
          BY <1>a
        <5> QED BY <5>1, Zenon DEF RunRow
      <4> QED BY <4>1, <2>2, <1>a, Zenon
    <3> QED BY <3>1, <1>4, <1>t DEF Elapse, ControlTypeOK
  <2>3. CASE run[r].quiet < MaxQuiet /\ run' = [run EXCEPT ![r].quiet = @ + 1]
    <3>1. run' \in [Run -> RunRow]
      BY <2>1, <2>3, <1>a DEF RunRow
    <3> QED BY <3>1, <1>4, <1>t DEF Elapse, ControlTypeOK
  <2> QED BY <2>2, <2>3, <1>4 DEF Elapse
<1>5. ASSUME NEW x \in Dispatcher, TryAssignSelect(x) PROVE ControlTypeOK'
  <2>1. SelectTargetAgent(op[x].run, op[x].tester) \subseteq Agent
    BY DEF SelectTargetAgent, Eligible, OnlineAgents
  <2>2. op' \in [Dispatcher -> Op]
    BY <2>1, <1>5, <1>a DEF TryAssignSelect, Op, Idle, Chosen
  <2> QED BY <2>2, <1>5, <1>t DEF TryAssignSelect, ControlTypeOK
<1>6. ASSUME NEW x \in Dispatcher, TryAssignSend(x) PROVE ControlTypeOK'
  <2>1. op' \in [Dispatcher -> Op]
    BY <1>6, <1>a DEF TryAssignSend, Op, Idle
  <2> QED BY <2>1, <1>6, <1>t DEF TryAssignSend, ControlTypeOK
<1>7. ASSUME NEW x \in Dispatcher, TryAssignStamp(x) PROVE ControlTypeOK'
  <2>1. op[x].run \in Run /\ op[x].target \in Agent
    BY <1>7 DEF TryAssignStamp, OwnOps
  <2>2. AgentTester[op[x].target] \in Tester \cup {None}
    BY <2>1
  <2>3. run' \in [Run -> RunRow]
    BY <2>1, <2>2, <1>7, <1>a DEF TryAssignStamp, ClaimedBy, RunRow
  <2>4. op' \in [Dispatcher -> Op]
    BY <1>7, <1>a DEF TryAssignStamp, Op, Idle
  <2> QED BY <2>3, <2>4, <1>7, <1>t DEF TryAssignStamp, ControlTypeOK
<1>8. ASSUME RedispatchQuery PROVE ControlTypeOK'
  BY <1>8, <1>t DEF RedispatchQuery, Candidate, RunRow, ControlTypeOK
<1>9. ASSUME RedispatchNext PROVE ControlTypeOK'
  BY <1>9, <1>t DEF RedispatchNext, Candidate, Op, Attempt, Dispatcher, ControlTypeOK
<1>10. ASSUME NEW a \in Agent, NEW c \in Conn, HandleFrame(a, c) PROVE ControlTypeOK'
  <2>1. Head(outbox[a][c]) \in AgentFrame
    <3>1. outbox[a][c] # <<>>
      BY <1>10, Zenon DEF HandleFrame, OnRunStarted, OnRunProgress, OnRunFinished, OnError, Inbound
    <3>2. outbox[a][c] \in Seq(AgentFrame)
      BY <1>t DEF WireTypeOK
    <3> QED BY <3>1, <3>2
  <2>2. AgentTester[a] \in Tester \cup {None} /\ Head(outbox[a][c]).run \in Run
    BY <2>1 DEF AgentFrame
  <2>3. "running" \in RunStatus /\ "failed" \in RunStatus /\ TerminalStatus \subseteq RunStatus
        /\ 0 \in 0..3
    BY DEF RunStatus, TerminalStatus
  <2> DEFINE f == Head(outbox[a][c])
  <2>4. run' \in [Run -> RunRow]
    <3>1. CASE OnRunStarted(a, c)
      BY <3>1, <2>2, <2>3, <1>a DEF OnRunStarted, StartedBy, RunRow
    <3>2. CASE OnRunProgress(a, c)
      <4>1. [run[f.run] EXCEPT !.quiet = 0] \in RunRow
        BY <2>2, <2>3, <1>a DEF RunRow
      <4> QED BY <4>1, <3>2, <1>a, Zenon DEF OnRunProgress
    <3>3. CASE OnRunFinished(a, c)
      BY <3>3, <2>2, <2>3, <1>a, SMTT(60) DEF OnRunFinished, RunRow
    <3>4. CASE OnError(a, c)
      BY <3>4, <2>2, <2>3, <1>a DEF OnError, RunRow
    <3> QED BY <3>1, <3>2, <3>3, <3>4, <1>10 DEF HandleFrame
  <2> QED BY <2>4, <1>10, <1>t DEF HandleFrame, OnRunStarted, OnRunProgress,
       OnRunFinished, OnError, Inbound, ControlTypeOK
<1>11. ASSUME WatchdogScanRunning PROVE ControlTypeOK'
  BY <1>11, <1>t DEF WatchdogScanRunning, Snapshot, RunRow, ControlTypeOK
<1>12. ASSUME NEW s \in stale, WatchdogReapRunning(s) PROVE ControlTypeOK'
  <2>1. s.run \in Run
    BY <1>t DEF ControlTypeOK, Snapshot
  <2>2. run' \in [Run -> RunRow]
    BY <2>1, <1>12, <1>a DEF WatchdogReapRunning, RunRow, RunStatus, TerminalStatus
  <2> QED BY <2>2, <1>12, <1>t DEF WatchdogReapRunning, ControlTypeOK
<1>13. ASSUME WatchdogScanQueued PROVE ControlTypeOK'
  BY <1>13, <1>t DEF WatchdogScanQueued, ControlTypeOK
<1>14. ASSUME NEW r \in stuck, WatchdogReapQueued(r) PROVE ControlTypeOK'
  <2>1. r \in Run
    BY <1>t DEF ControlTypeOK
  <2>2. run' \in [Run -> RunRow]
    BY <2>1, <1>14, <1>a DEF WatchdogReapQueued, RunRow, RunStatus, TerminalStatus
  <2> QED BY <2>2, <1>14, <1>t DEF WatchdogReapQueued, ControlTypeOK
<1> QED
  BY <1>1, <1>2, <1>3, <1>4, <1>5, <1>6, <1>7, <1>8, <1>9, <1>10, <1>11, <1>12,
     <1>13, <1>14 DEF ControlStep

(* Writing one entry of a table of tables keeps its type.                   *)
LEMMA NestedUpdate ==
    ASSUME NEW I, NEW J, NEW S, NEW f \in [I -> [J -> S]], NEW i \in I, NEW j \in J, NEW v \in S
    PROVE  [f EXCEPT ![i][j] = v] \in [I -> [J -> S]]
OBVIOUS

(* Sequences over S: the empty one, the singletons, concatenation.          *)
LEMMA SequenceClosure ==
    ASSUME NEW S
    PROVE  /\ <<>> \in Seq(S)
           /\ \A x \in S : <<x>> \in Seq(S)
           /\ \A p, q \in Seq(S) : p \o q \in Seq(S)
OBVIOUS

(* Two sends in a row put frames after frames.                              *)
LEMMA ThenType ==
    ASSUME NEW S, NEW A, NEW B, A \subseteq Seq(S), B \subseteq Seq(S)
    PROVE  Then(A, B) \subseteq Seq(S)
<1> SUFFICES ASSUME NEW p \in A \X B PROVE p[1] \o p[2] \in Seq(S)
  BY DEF Then
<1> QED BY SequenceClosure

(* A task record stays one when its phase or its token changes.             *)
LEMMA TaskUpdates ==
    ASSUME NEW k \in TaskRecord
    PROVE  /\ \A ph \in Phase : InPhase(k, ph) \in TaskRecord
           /\ \A tok \in Token : WithToken(k, tok) \in TaskRecord
           /\ FreeTask \in TaskRecord
BY WireAssumption DEF TaskRecord, InPhase, WithToken, FreeTask, Phase, Token

(* Whatever RunExecutor sends about a run is a sequence of agent frames.    *)
LEMMA SendTypes ==
    ASSUME NEW r \in Run
    PROVE  /\ TrySend(Started(r)) \subseteq Seq(AgentFrame)
           /\ TrySend(Progress(r)) \subseteq Seq(AgentFrame)
           /\ SendFailure(r) \subseteq Seq(AgentFrame)
           /\ \A s \in TerminalStatus : TrySendCritical(Finished(r, s)) \subseteq Seq(AgentFrame)
<1>1. /\ Started(r) \in AgentFrame /\ Progress(r) \in AgentFrame /\ Error(r) \in AgentFrame
      /\ \A s \in TerminalStatus : Finished(r, s) \in AgentFrame
  BY DEF Started, Progress, Error, Finished, AgentFrame
<1>2. "failed" \in TerminalStatus
  BY DEF TerminalStatus
<1> QED
  <2>1. \A x \in AgentFrame : /\ TrySend(x) \subseteq Seq(AgentFrame)
                               /\ TrySendCritical(x) \subseteq Seq(AgentFrame)
    BY SequenceClosure DEF TrySend, TrySendCritical
  <2>2. SendFailure(r) \subseteq Seq(AgentFrame)
    BY <1>1, <1>2, <2>1, ThenType DEF SendFailure
  <2> QED BY <1>1, <2>1, <2>2

(* A sink only ever adds agent frames to its connection, or nothing.        *)
LEMMA EmitType ==
    ASSUME outbox \in [Agent -> [Conn -> Seq(AgentFrame)]],
           NEW a \in Agent, NEW c, NEW fs \in Seq(AgentFrame), Emit(a, c, fs)
    PROVE  outbox' \in [Agent -> [Conn -> Seq(AgentFrame)]]
<1>1. CASE outbox' = outbox
  BY <1>1
<1>2. CASE outbox' = [outbox EXCEPT ![a][c] = @ \o fs] /\ c \in Conn
  <2>1. outbox[a][c] \o fs \in Seq(AgentFrame)
    BY <1>2, SequenceClosure
  <2> QED BY <2>1, <1>2, NestedUpdate
<1>3. CASE outbox' = [outbox EXCEPT ![a][c] = @ \o fs] /\ c \notin Conn
  BY <1>3
<1> QED BY <1>1, <1>2, <1>3, Zenon DEF Emit

(* Finitely many tasks hold a permit.                                       *)
LEMMA HoldingFinite ==
    ASSUME NEW a \in Agent
    PROVE  IsFiniteSet(Holding(a))
BY AgentAssumption, FS_Subset DEF Holding

(* Every step of an agent keeps its tasks, its table, its dedupe memory,    *)
(* its slot counter and the connections well typed.                         *)
LEMMA AgentTypeStep ==
    ASSUME TypeOK, PermitsConserved, OwnTasks, NEW a \in Agent, AgentStep(a)
    PROVE  AgentTypeOK' /\ WireTypeOK'
<1>t. AgentTypeOK /\ WireTypeOK
  BY DEF TypeOK
<1>a. task \in [Agent -> [Task -> TaskRecord]] /\ handle \in [Agent -> [Run -> Task \cup {None}]]
  BY <1>t DEF AgentTypeOK
<1>i. ASSUME NEW type, Receives(a, type)
      PROVE  WireTypeOK' /\ (type # "shutdown" => Head(inbox[a]).run \in Run)
  <2>1. inbox[a] \in Seq(ControlFrame) /\ inbox[a] # <<>>
    BY <1>i, <1>t DEF Receives, WireTypeOK
  <2>2. Head(inbox[a]) \in ControlFrame /\ Tail(inbox[a]) \in Seq(ControlFrame)
    BY <2>1
  <2> QED BY <2>2, <1>i, <1>t DEF Receives, WireTypeOK, ControlFrame
<1>c. conn[a] \in 0..MaxConns
  BY <1>t DEF WireTypeOK
<1>1. CASE HandleAssignRun(a)
  <2>1. WireTypeOK' /\ Head(inbox[a]).run \in Run
    BY <1>1, <1>i DEF HandleAssignRun
  <2> DEFINE r == Head(inbox[a]).run
             k == [phase |-> "waiting", run |-> r, conn |-> conn[a], token |-> "live"]
  <2>2. k \in TaskRecord
    BY <2>1, <1>c DEF TaskRecord, Phase, Token
  <2>3. CASE UNCHANGED <<task, handle>>
    BY <2>1, <2>3, <1>1, <1>t DEF HandleAssignRun, AgentTypeOK
  <2>4. ASSUME NEW t \in Task, task' = [task EXCEPT ![a][t] = k],
               handle' = [handle EXCEPT ![a][r] = t]
        PROVE  AgentTypeOK'
    <3>1. task' \in [Agent -> [Task -> TaskRecord]]
      BY <2>2, <2>4, <1>a, NestedUpdate
    <3>2. handle' \in [Agent -> [Run -> Task \cup {None}]]
      BY <2>1, <2>4, <1>a
    <3> QED BY <3>1, <3>2, <1>1, <1>t DEF HandleAssignRun, AgentTypeOK
  <2> QED BY <2>1, <2>3, <2>4, <1>1, Zenon DEF HandleAssignRun
<1>2. CASE HandleCancelRun(a)
  <2>1. WireTypeOK' /\ Head(inbox[a]).run \in Run
    BY <1>2, <1>i DEF HandleCancelRun
  <2>2. task' \in [Agent -> [Task -> TaskRecord]]
    <3>1. handle[a][Head(inbox[a]).run] \in Task \cup {None}
      BY <2>1, <1>a
    <3>2. CASE handle[a][Head(inbox[a]).run] = None
      BY <3>2, <1>2, <1>a DEF HandleCancelRun
    <3>3. CASE handle[a][Head(inbox[a]).run] # None
      BY <3>1, <3>3, <1>2, <1>a, TaskUpdates, NestedUpdate DEF HandleCancelRun, Token
    <3> QED BY <3>2, <3>3
  <2>3. handle' \in [Agent -> [Run -> Task \cup {None}]]
    BY <2>1, <1>2, <1>a DEF HandleCancelRun
  <2> QED BY <2>1, <2>2, <2>3, <1>2, <1>t DEF HandleCancelRun, AgentTypeOK
<1>b. ASSUME CancelAllRuns(a) PROVE AgentTypeOK'
  <2>1. task' \in [Agent -> [Task -> TaskRecord]]
    BY <1>b, <1>a, TaskUpdates DEF CancelAllRuns, Token
  <2>2. handle' \in [Agent -> [Run -> Task \cup {None}]]
    BY <1>b, <1>a DEF CancelAllRuns
  <2> QED BY <2>1, <2>2, <1>b, <1>t DEF CancelAllRuns, AgentTypeOK
<1>3. CASE Teardown(a)
  <2>1. WireTypeOK'
    BY <1>3, <1>t DEF Teardown, WireTypeOK
  <2> QED BY <2>1, <1>3, <1>b DEF Teardown
<1>5. CASE HandleShutdown(a)
  BY <1>5, <1>i, <1>b DEF HandleShutdown
<1>4. ASSUME NEW t \in Task, TaskStep(a, t) PROVE AgentTypeOK' /\ WireTypeOK'
  <2> USE DEF wireVars
  <2>1. CASE AcquireSlot(a, t)
    <3>1. task' \in [Agent -> [Task -> TaskRecord]]
      BY <2>1, <1>a, TaskUpdates, NestedUpdate DEF AcquireSlot, Phase
    <3>2. permits' \in [Agent -> 0..MaxConcurrentRuns]
      BY <2>1, <1>t, AgentAssumption DEF AcquireSlot, AgentTypeOK
    <3> QED BY <3>1, <3>2, <2>1, <1>t DEF AcquireSlot, AgentTypeOK, WireTypeOK
  <2>2. CASE AbandonWait(a, t)
    <3>1. task' \in [Agent -> [Task -> TaskRecord]]
      BY <2>2, <1>a, WireAssumption DEF AbandonWait, TaskRecord, Phase, FreeTask, Token
    <3> QED BY <3>1, <2>2, <1>t DEF AbandonWait, AgentTypeOK, WireTypeOK
  <2>3. ASSUME NEW sends, sends \subseteq Seq(AgentFrame),
               NEW ph \in Phase, Reports(a, t, sends, ph)
        PROVE  AgentTypeOK' /\ WireTypeOK'
    <3>1. task' \in [Agent -> [Task -> TaskRecord]]
      BY <2>3, <1>a, TaskUpdates, NestedUpdate DEF Reports
    <3>2. outbox' \in [Agent -> [Conn -> Seq(AgentFrame)]]
      BY <2>3, <1>t, EmitType DEF Reports, WireTypeOK
    <3> QED BY <3>1, <3>2, <2>3, <1>t DEF Reports, AgentTypeOK, WireTypeOK
  <2>4. task[a][t].phase # "free" => task[a][t].run \in Run
    BY DEF OwnTasks, OwnRun
  <2>5. CASE BeginExecute(a, t)
    <3>1. task[a][t].run \in Run
      BY <2>4, <2>5 DEF BeginExecute
    <3> QED BY <3>1, <2>3, <2>5, SendTypes DEF BeginExecute, Phase
  <2>6. CASE RelayProgress(a, t)
    <3>1. task[a][t].run \in Run
      BY <2>4, <2>6 DEF RelayProgress
    <3> QED BY <3>1, <2>3, <2>6, SendTypes DEF RelayProgress, Phase
  <2>7. CASE ExecuteCompleted(a, t)
    <3>1. task[a][t].run \in Run
      BY <2>4, <2>7 DEF ExecuteCompleted
    <3>2. Then(TrySend(Progress(task[a][t].run)),
               TrySendCritical(Finished(task[a][t].run, "completed"))) \subseteq Seq(AgentFrame)
      BY <3>1, SendTypes, ThenType DEF TerminalStatus
    <3> QED BY <3>2, <2>3, <2>7 DEF ExecuteCompleted, Phase
  <2>8. CASE ExecuteFailed(a, t)
    <3>1. task[a][t].run \in Run
      BY <2>4, <2>8 DEF ExecuteFailed
    <3> QED BY <3>1, <2>3, <2>8, SendTypes DEF ExecuteFailed, Phase
  <2>9. CASE ExecuteCancelled(a, t)
    <3>1. task[a][t].run \in Run
      BY <2>4, <2>9 DEF ExecuteCancelled
    <3>2. {<<>>} \cup TrySendCritical(Finished(task[a][t].run, "cancelled")) \subseteq Seq(AgentFrame)
      BY <3>1, SendTypes, SequenceClosure DEF TerminalStatus
    <3> QED BY <3>2, <2>3, <2>9 DEF ExecuteCancelled, Phase
  <2>10. CASE FinishTask(a, t)
    <3>1. task[a][t].run \in Run
      BY <2>4, <2>10 DEF FinishTask
    <3>2. recent' \in [Agent -> Seq(Run)]
      <4>1. recent[a] \in Seq(Run)
        BY <1>t DEF AgentTypeOK
      <4>2. Remember(recent[a], task[a][t].run) \in Seq(Run)
        BY <4>1, <3>1 DEF Remember
      <4> QED BY <4>2, <2>10, <1>t DEF FinishTask, AgentTypeOK
    <3>3. permits[a] + 1 \in 0..MaxConcurrentRuns
      <4>1. t \in Holding(a)
        BY <2>10 DEF FinishTask, Holding
      <4>2. Cardinality(Holding(a)) \in Nat \ {0}
        BY <4>1, HoldingFinite, FS_EmptySet, FS_CardinalityType
      <4>3. permits[a] \in 0..MaxConcurrentRuns
        BY <1>t DEF AgentTypeOK
      <4> QED BY <4>2, <4>3, AgentAssumption DEF PermitsConserved
    <3>4. permits' \in [Agent -> 0..MaxConcurrentRuns]
      BY <3>3, <2>10, <1>t DEF FinishTask, AgentTypeOK
    <3>5. task' \in [Agent -> [Task -> TaskRecord]]
      BY <2>10, <1>a, TaskUpdates DEF FinishTask, Token
    <3>6. handle' \in [Agent -> [Run -> Task \cup {None}]]
      BY <3>1, <2>10, <1>a DEF FinishTask
    <3> QED BY <3>2, <3>4, <3>5, <3>6, <2>10, <1>t DEF FinishTask, AgentTypeOK, WireTypeOK
  <2> QED
    BY <1>4, <2>1, <2>2, <2>5, <2>6, <2>7, <2>8, <2>9, <2>10 DEF TaskStep
<1> QED BY <1>1, <1>2, <1>3, <1>4, <1>5 DEF AgentStep

(* The control plane's sends and reads keep the connections well typed.     *)
LEMMA ControlWireTypeStep ==
    ASSUME TypeOK, OwnOps, ControlStep
    PROVE  WireTypeOK'
<1>t. ControlTypeOK /\ WireTypeOK
  BY DEF TypeOK
<1>1. CASE UNCHANGED wireVars
  BY <1>1, <1>t DEF wireVars, WireTypeOK
<1>2. ASSUME NEW b \in Agent, NEW f \in ControlFrame, Send(b, f), UNCHANGED <<conn, open, wire, outbox>>
      PROVE  WireTypeOK'
  BY <1>2, <1>t DEF Send, WireTypeOK
<1>3. ASSUME NEW x \in Dispatcher, TryAssignSend(x) PROVE WireTypeOK'
  <2>1. [type |-> "assign_run", run |-> op[x].run] \in ControlFrame
    BY <1>3 DEF TryAssignSend, OwnOps, ControlFrame
  <2>4. op[x].target \in Agent
    BY <1>3 DEF TryAssignSend, OwnOps
  <2>2. CASE Send(op[x].target, [type |-> "assign_run", run |-> op[x].run])
    BY <2>1, <2>2, <2>4, <1>2, <1>3 DEF TryAssignSend
  <2>3. CASE UNCHANGED inbox
    BY <2>3, <1>1, <1>3 DEF TryAssignSend, wireVars
  <2> QED BY <2>2, <2>3, <1>3 DEF TryAssignSend
<1>4. ASSUME NEW r \in Run, CancelFanOut(r) PROVE WireTypeOK'
  <2>1. [type |-> "cancel_run", run |-> r] \in ControlFrame
    BY DEF ControlFrame
  <2>2. CancelTargets(r) \subseteq Agent
    BY DEF CancelTargets, SelectTargetAgent, Eligible, OnlineAgents
  <2> QED BY <2>1, <2>2, <1>1, <1>2, <1>4 DEF CancelFanOut, wireVars
<1>5. ASSUME NEW a \in Agent, NEW c \in Conn, NEW type, Inbound(a, c, type) PROVE WireTypeOK'
  <2>1. outbox[a][c] \in Seq(AgentFrame) /\ outbox[a][c] # <<>>
    BY <1>5, <1>t DEF Inbound, WireTypeOK
  <2>2. Tail(outbox[a][c]) \in Seq(AgentFrame)
    BY <2>1
  <2>3. outbox' \in [Agent -> [Conn -> Seq(AgentFrame)]]
    BY <2>2, <1>5, <1>t, NestedUpdate DEF Inbound, WireTypeOK
  <2> QED BY <2>3, <1>5, <1>t DEF Inbound, WireTypeOK
<1> QED
  BY <1>1, <1>3, <1>4, <1>5, Zenon
     DEF ControlStep, Launch, Cancel, Elapse, TryAssignSelect, TryAssignStamp, RedispatchQuery,
         RedispatchNext, HandleFrame, OnRunStarted, OnRunProgress, OnRunFinished, OnError,
         WatchdogScanRunning, WatchdogReapRunning, WatchdogScanQueued, WatchdogReapQueued

(* Connecting, disconnecting and every fault keep all types.                *)
LEMMA SystemTypeStep ==
    ASSUME TypeOK, SystemStep
    PROVE  TypeOK'
<1>t. WireTypeOK /\ AgentTypeOK /\ ControlTypeOK /\ faults \in 0..MaxFaults
  BY DEF TypeOK
<1>f. ASSUME NEW kind, Fault(kind) PROVE faults' \in 0..MaxFaults
  BY <1>f, <1>t, FaultAssumption DEF Fault
<1>e. /\ FreeTask \in TaskRecord
      /\ Idle \in Op
      /\ \A S : <<>> \in Seq(S)
  BY WireAssumption DEF FreeTask, TaskRecord, Phase, Token, Idle, Op
<1> USE DEF wireVars, agentVars, controlVars
<1>1. ASSUME NEW a \in Agent, Connect(a) PROVE TypeOK'
  <2>1. conn[a] + 1 \in 0..MaxConns
    BY <1>1, <1>t, WireAssumption DEF Connect, WireTypeOK
  <2>2. WireTypeOK'
    BY <2>1, <1>1, <1>t DEF Connect, WireTypeOK
  <2>3. ControlTypeOK'
    BY <2>1, <1>1, <1>t DEF Connect, ControlTypeOK
  <2>4. AgentTypeOK'
    BY <1>1, <1>t DEF Connect, AgentTypeOK
  <2> QED BY <2>2, <2>3, <2>4, <1>1, <1>t DEF Connect, TypeOK
<1>2. ASSUME NEW a \in Agent, Disconnect(a) PROVE TypeOK'
  <2>1. ControlTypeOK'
    BY <1>2, <1>t, WireAssumption DEF Disconnect, ControlTypeOK
  <2> QED BY <2>1, <1>2, <1>t DEF Disconnect, TypeOK, WireTypeOK, AgentTypeOK
<1>3. ASSUME NEW a \in Agent, LinkBreaks(a) PROVE TypeOK'
  <2>1. WireTypeOK'
    <3>1. \A s \in Prefixes(inbox[a]) : s \in Seq(ControlFrame)
      BY <1>t, PrefixType DEF WireTypeOK
    <3>2. outbox' \in [Agent -> [Conn -> Seq(AgentFrame)]]
      <4>1. CASE conn[a] = 0
        BY <4>1, <1>3, <1>t DEF LinkBreaks, Break, WireTypeOK
      <4>2. CASE conn[a] # 0
        <5>1. conn[a] \in Conn
          BY <4>2, <1>t, WireAssumption DEF WireTypeOK, Conn
        <5>2. PICK s \in Prefixes(outbox[a][conn[a]]) :
                  outbox' = [outbox EXCEPT ![a][conn[a]] = s]
          BY <4>2, <1>3 DEF LinkBreaks, Break
        <5>3. s \in Seq(AgentFrame)
          BY <5>1, <1>t, PrefixType DEF WireTypeOK
        <5> QED BY <5>1, <5>2, <5>3, <1>t, NestedUpdate DEF WireTypeOK
      <4> QED BY <4>1, <4>2
    <3> QED BY <3>1, <3>2, <1>3, <1>t DEF LinkBreaks, Break, WireTypeOK
  <2> QED BY <2>1, <1>3, <1>f, <1>t DEF LinkBreaks, TypeOK, AgentTypeOK, ControlTypeOK
<1>4. ASSUME NEW a \in Agent, AgentDies(a) PROVE TypeOK'
  <2>1. outbox' \in [Agent -> [Conn -> Seq(AgentFrame)]]
    <3>1. PICK s \in Prefixes(outbox[a][conn[a]]) : outbox' = [outbox EXCEPT ![a][conn[a]] = s]
      BY <1>4 DEF AgentDies, AgentCrash
    <3>2. CASE conn[a] \in Conn
      <4>1. s \in Seq(AgentFrame)
        BY <3>2, <1>t, PrefixType DEF WireTypeOK
      <4> QED BY <4>1, <3>1, <3>2, <1>t, NestedUpdate DEF WireTypeOK
    <3>3. CASE conn[a] \notin Conn
      BY <3>1, <3>3, <1>t DEF WireTypeOK
    <3> QED BY <3>2, <3>3
  <2>2. WireTypeOK'
    BY <2>1, <1>4, <1>t, <1>e DEF AgentDies, AgentCrash, WireTypeOK
  <2>3. AgentTypeOK'
    BY <1>4, <1>t, <1>e, AgentAssumption DEF AgentDies, AgentCrash, AgentTypeOK
  <2> QED BY <2>2, <2>3, <1>4, <1>f, <1>t DEF AgentDies, TypeOK, ControlTypeOK
<1>5. CASE ControlPlaneRestarts
  <2>0. inbox' \in [Agent -> Seq(ControlFrame)]
    <3>1. PICK s \in [Agent -> UNION {Prefixes(inbox[a]) : a \in Agent}] :
            /\ \A a \in Agent : s[a] \in Prefixes(inbox[a])
            /\ inbox' = s
      BY <1>5, Zenon DEF ControlPlaneRestarts
    <3>2. ASSUME NEW a \in Agent PROVE s[a] \in Seq(ControlFrame)
      BY <3>1, <1>t, PrefixType DEF WireTypeOK
    <3> QED BY <3>1, <3>2
  <2>1. WireTypeOK'
    BY <2>0, <1>5, <1>t, <1>e DEF ControlPlaneRestarts, WireTypeOK
  <2>2. ControlTypeOK'
    BY <1>5, <1>t, <1>e, WireAssumption DEF ControlPlaneRestarts, ControlTypeOK
  <2> QED BY <2>1, <2>2, <1>5, <1>f, <1>t DEF ControlPlaneRestarts, TypeOK, AgentTypeOK
<1>6. ASSUME NEW x \in Dispatcher, StampFails(x) PROVE TypeOK'
  <2>1. ControlTypeOK'
    BY <1>6, <1>t, <1>e DEF StampFails, TryAssignStampFails, ControlTypeOK
  <2> QED BY <2>1, <1>6, <1>f, <1>t
          DEF StampFails, TryAssignStampFails, TypeOK, AgentTypeOK, WireTypeOK
<1>7. ASSUME NEW a \in Agent, KeyRotated(a) PROVE TypeOK'
  <2>1. Shutdown \in ControlFrame
    BY DEF Shutdown, ControlFrame
  <2>2. WireTypeOK'
    BY <2>1, <1>7, <1>t DEF KeyRotated, RotateKey, Send, WireTypeOK
  <2> QED BY <2>2, <1>7, <1>f, <1>t
          DEF KeyRotated, RotateKey, TypeOK, AgentTypeOK, ControlTypeOK
<1> QED BY <1>1, <1>2, <1>3, <1>4, <1>5, <1>6, <1>7 DEF SystemStep

-----------------------------------------------------------------------------
(***************************************************************************)
(* Safety.                                                                 *)
(***************************************************************************)
(* The phases between _runSlots.WaitAsync and Release.                      *)
Held == {"acquired", "executing", "done"}

(* An agent whose permits and holders did not change keeps their sum.       *)
LEMMA SameHolding ==
    ASSUME NEW a \in Agent, permits'[a] = permits[a],
           \A t \in Task : task'[a][t].phase \in Held <=> task[a][t].phase \in Held
    PROVE  permits'[a] + Cardinality(Holding(a)') = permits[a] + Cardinality(Holding(a))
<1>1. Holding(a)' = Holding(a)
  BY DEF Holding, Held
<1> QED BY <1>1

(* A step of one agent touches nothing of another agent.                    *)
LEMMA OtherAgents ==
    ASSUME TypeOK, NEW a \in Agent, AgentStep(a), NEW b \in Agent, b # a
    PROVE  task'[b] = task[b] /\ permits'[b] = permits[b] /\ inbox'[b] = inbox[b] /\ outbox'[b] = outbox[b]
<1>t. /\ DOMAIN task = Agent /\ DOMAIN permits = Agent /\ DOMAIN inbox = Agent
      /\ DOMAIN outbox = Agent
  BY DEF TypeOK, AgentTypeOK, WireTypeOK
<1> USE DEF wireVars
<1>1. CASE HandleAssignRun(a)
  BY <1>1 DEF HandleAssignRun, Receives, TypeOK, AgentTypeOK, WireTypeOK
<1>2. CASE HandleCancelRun(a)
  BY <1>2 DEF HandleCancelRun, Receives, TypeOK, AgentTypeOK, WireTypeOK
<1>3. CASE Teardown(a)
  BY <1>3 DEF Teardown, CancelAllRuns, TypeOK, AgentTypeOK, WireTypeOK
<1>5. CASE HandleShutdown(a)
  BY <1>5 DEF HandleShutdown, Receives, CancelAllRuns, TypeOK, AgentTypeOK, WireTypeOK
<1>4. ASSUME NEW t \in Task, TaskStep(a, t)
      PROVE  task'[b] = task[b] /\ permits'[b] = permits[b] /\ inbox'[b] = inbox[b] /\ outbox'[b] = outbox[b]
  <2>1. ASSUME NEW sends, NEW ph, Reports(a, t, sends, ph)
        PROVE  task'[b] = task[b] /\ permits'[b] = permits[b] /\ inbox'[b] = inbox[b] /\ outbox'[b] = outbox[b]
    BY <2>1 DEF Reports, Emit, TypeOK, AgentTypeOK, WireTypeOK
  <2>2. CASE AcquireSlot(a, t)
    BY <2>2 DEF AcquireSlot, TypeOK, AgentTypeOK, WireTypeOK
  <2>3. CASE AbandonWait(a, t)
    BY <2>3 DEF AbandonWait, TypeOK, AgentTypeOK, WireTypeOK
  <2>4. CASE FinishTask(a, t)
    BY <2>4 DEF FinishTask, TypeOK, AgentTypeOK, WireTypeOK
  <2> QED
    BY <1>4, <2>1, <2>2, <2>3, <2>4, Zenon
       DEF TaskStep, BeginExecute, RelayProgress, ExecuteCompleted, ExecuteFailed, ExecuteCancelled
<1> QED BY <1>1, <1>2, <1>3, <1>4, <1>5 DEF AgentStep

(* No path of a task through the slot wait, the executor and the finally    *)
(* loses or duplicates a permit of _runSlots.                               *)
LEMMA PermitsStep ==
    ASSUME TypeOK, PermitsConserved, NEW a \in Agent, AgentStep(a)
    PROVE  PermitsConserved'
<1> SUFFICES permits'[a] + Cardinality(Holding(a)') = permits[a] + Cardinality(Holding(a))
  <2>1. ASSUME NEW b \in Agent, b # a
        PROVE  permits'[b] + Cardinality(Holding(b)') = permits[b] + Cardinality(Holding(b))
    BY <2>1, OtherAgents, SameHolding
  <2> QED BY <2>1 DEF PermitsConserved
<1>t. task \in [Agent -> [Task -> TaskRecord]] /\ permits \in [Agent -> 0..MaxConcurrentRuns]
  BY DEF TypeOK, AgentTypeOK
<1>s. SUFFICES ASSUME ~ /\ permits'[a] = permits[a]
                        /\ \A t \in Task : task'[a][t].phase \in Held <=> task[a][t].phase \in Held
               PROVE  permits'[a] + Cardinality(Holding(a)') = permits[a] + Cardinality(Holding(a))
  BY SameHolding
<1>1. CASE HandleAssignRun(a)
  BY <1>1, <1>t, <1>s DEF HandleAssignRun, Held
<1>2. CASE HandleCancelRun(a)
  BY <1>2, <1>t, <1>s DEF HandleCancelRun, WithToken
<1>3. CASE CancelAllRuns(a)
  BY <1>3, <1>t, <1>s DEF CancelAllRuns, WithToken
<1>4. ASSUME NEW t \in Task, TaskStep(a, t)
      PROVE  permits'[a] + Cardinality(Holding(a)') = permits[a] + Cardinality(Holding(a))
  <2>1. ASSUME NEW sends, NEW ph \in Held, Reports(a, t, sends, ph), task[a][t].phase \in Held
        PROVE  FALSE
    BY <2>1, <1>t, <1>s DEF Reports, InPhase
  <2>2. CASE AbandonWait(a, t)
    BY <2>2, <1>t, <1>s DEF AbandonWait, FreeTask, Held
  <2>3. CASE AcquireSlot(a, t)
    <3>1. Holding(a)' = Holding(a) \cup {t} /\ t \notin Holding(a)
      BY <2>3, <1>t DEF AcquireSlot, Holding, InPhase
    <3>2. permits'[a] = permits[a] - 1
      BY <2>3, <1>t DEF AcquireSlot
    <3>3. Cardinality(Holding(a)') = Cardinality(Holding(a)) + 1 /\ Cardinality(Holding(a)) \in Nat
      BY <3>1, HoldingFinite, FS_AddElement, FS_CardinalityType
    <3> QED BY <3>2, <3>3, <1>t, AgentAssumption
  <2>4. CASE FinishTask(a, t)
    <3>1. Holding(a)' = Holding(a) \ {t} /\ t \in Holding(a)
      BY <2>4, <1>t DEF FinishTask, Holding, WithToken, FreeTask
    <3>2. permits'[a] = permits[a] + 1
      BY <2>4, <1>t DEF FinishTask
    <3>3. Cardinality(Holding(a)') = Cardinality(Holding(a)) - 1 /\ Cardinality(Holding(a)) \in Nat
      BY <3>1, HoldingFinite, FS_RemoveElement, FS_CardinalityType
    <3> QED BY <3>2, <3>3, <1>t, AgentAssumption
  <2> QED
    BY <1>4, <2>1, <2>2, <2>3, <2>4
       DEF TaskStep, BeginExecute, RelayProgress, ExecuteCompleted, ExecuteFailed,
           ExecuteCancelled, Held
<1> QED BY <1>1, <1>2, <1>3, <1>4 DEF AgentStep, Teardown, HandleShutdown

(* Frames about runs of the agent's own project.                            *)
OwnControlFrame(a) == {f \in ControlFrame : f.type = "shutdown" \/ f.run \in OwnRun(a)}
OwnAgentFrame(a) == {f \in AgentFrame : f.run \in OwnRun(a)}

(* Only such frames travel to and from an agent.                            *)
OwnFrames ==
    \A a \in Agent : /\ inbox[a] \in Seq(OwnControlFrame(a))
                     /\ \A c \in Conn : outbox[a][c] \in Seq(OwnAgentFrame(a))

(* Everything that carries a run stays inside the run's project.            *)
Own == OwnOps /\ OwnTasks /\ OwnFrames

(* SelectTargetAgentAsync answers with agents of the run's project only.    *)
LEMMA TargetsOwn ==
    ASSUME NEW r \in Run, NEW tester
    PROVE  \A a \in SelectTargetAgent(r, tester) : a \in Agent /\ r \in OwnRun(a)
BY DEF SelectTargetAgent, Eligible, OnlineAgents, OwnRun

(* A frame about an own run keeps the agent's connections to own runs.      *)
LEMMA SendOwn ==
    ASSUME TypeOK, OwnFrames, NEW b \in Agent, NEW f \in OwnControlFrame(b), Send(b, f),
           UNCHANGED outbox
    PROVE  OwnFrames'
<1>1. inbox \in [Agent -> Seq(ControlFrame)]
  BY DEF TypeOK, WireTypeOK
<1>2. inbox[b] \in Seq(OwnControlFrame(b))
  BY DEF OwnFrames
<1>3. Append(inbox[b], f) \in Seq(OwnControlFrame(b))
  BY <1>2
<1> QED BY <1>1, <1>3 DEF Send, OwnFrames

(* The control plane keeps every run inside its project.                    *)
LEMMA ControlOwnStep ==
    ASSUME TypeOK, Own, ControlStep, UNCHANGED agentVars
    PROVE  Own'
<1>t. op \in [Dispatcher -> Op] /\ sweep \subseteq Candidate
  BY DEF TypeOK, ControlTypeOK
<1>o. OwnTasks'
  BY DEF Own, OwnTasks, agentVars
<1>w. ASSUME UNCHANGED <<inbox, outbox>> PROVE OwnFrames'
  BY <1>w DEF Own, OwnFrames
<1>p. ASSUME UNCHANGED op PROVE OwnOps'
  BY <1>p DEF Own, OwnOps
<1>u. ASSUME NEW x \in Dispatcher, NEW o, op' = [op EXCEPT ![x] = o],
             o.phase # "idle" => o.run \in Run,
             o.phase \in {"send", "stamp"} => o.target \in Agent /\ o.run \in OwnRun(o.target)
      PROVE  OwnOps'
  BY <1>u, <1>t DEF Own, OwnOps
<1>i. ASSUME NEW x \in Dispatcher, op' = [op EXCEPT ![x] = Idle] PROVE OwnOps'
  BY <1>i, <1>u DEF Idle
<1> USE DEF wireVars
<1>1. ASSUME NEW r \in Run, Launch(r) PROVE Own'
  <2>1. OwnOps'
    BY <1>1, <1>p, <1>u DEF Launch, Attempt, Dispatcher
  <2> QED BY <2>1, <1>1, <1>o, <1>w DEF Launch, Own
<1>2. ASSUME NEW r \in Run, CancelFanOut(r) PROVE Own'
  <2>1. \A a \in CancelTargets(r) :
          a \in Agent /\ [type |-> "cancel_run", run |-> r] \in OwnControlFrame(a)
    BY TargetsOwn DEF CancelTargets, OwnControlFrame, ControlFrame
  <2>2. OwnFrames'
    BY <2>1, <1>2, <1>w, SendOwn DEF CancelFanOut, Own
  <2> QED BY <2>2, <1>2, <1>o, <1>p DEF CancelFanOut, Own
<1>3. ASSUME NEW x \in Dispatcher, TryAssignSelect(x) PROVE Own'
  <2>1. op[x].run \in Run
    BY <1>3 DEF TryAssignSelect, Own, OwnOps
  <2>2. OwnOps'
    BY <2>1, <1>3, <1>i, <1>u, TargetsOwn DEF TryAssignSelect, Chosen
  <2> QED BY <2>2, <1>3, <1>o, <1>w DEF TryAssignSelect, Own
<1>4. ASSUME NEW x \in Dispatcher, TryAssignSend(x) PROVE Own'
  <2>1. op[x].target \in Agent /\ op[x].run \in OwnRun(op[x].target) /\ op[x].run \in Run
    BY <1>4 DEF TryAssignSend, Own, OwnOps
  <2>2. [type |-> "assign_run", run |-> op[x].run] \in OwnControlFrame(op[x].target)
    BY <2>1 DEF OwnControlFrame, ControlFrame
  <2>3. OwnFrames'
    BY <2>1, <2>2, <1>4, <1>w, SendOwn DEF TryAssignSend, Own
  <2>4. OwnOps'
    <3>1. \/ op'[x].run = op[x].run /\ op'[x].target = op[x].target
          \/ op'[x].phase = "idle"
      BY <1>4, <1>t DEF TryAssignSend, Idle, Op
    <3>2. \A y \in Dispatcher : y # x => op'[y] = op[y]
      BY <1>4, <1>t DEF TryAssignSend
    <3> QED BY <2>1, <3>1, <3>2 DEF Own, OwnOps
  <2> QED BY <2>3, <2>4, <1>o DEF Own
<1>5. ASSUME NEW x \in Dispatcher, TryAssignStamp(x) PROVE Own'
  BY <1>5, <1>i, <1>o, <1>w DEF TryAssignStamp, Own
<1>6. ASSUME RedispatchNext PROVE Own'
  <2>1. PICK c \in sweep : op' = [op EXCEPT !["redispatch"] = Attempt(c)]
    BY <1>6 DEF RedispatchNext
  <2>2. c.run \in Run
    BY <1>t DEF Candidate
  <2>3. OwnOps'
    BY <2>1, <2>2, <1>u DEF Attempt, Dispatcher
  <2> QED BY <2>3, <1>6, <1>o, <1>w DEF RedispatchNext, Own
<1>7. ASSUME NEW a \in Agent, NEW c \in Conn, NEW type, Inbound(a, c, type) PROVE Own'
  <2>1. outbox \in [Agent -> [Conn -> Seq(AgentFrame)]]
    BY DEF TypeOK, WireTypeOK
  <2>2. outbox[a][c] \in Seq(OwnAgentFrame(a)) /\ outbox[a][c] # <<>>
    BY <1>7 DEF Own, OwnFrames, Inbound
  <2>3. Tail(outbox[a][c]) \in Seq(OwnAgentFrame(a))
    BY <2>2
  <2>4. OwnFrames'
    BY <2>1, <2>3, <1>7 DEF Own, OwnFrames, Inbound
  <2> QED BY <2>4, <1>7, <1>o, <1>p DEF Inbound, Own
<1>8. CASE UNCHANGED <<wireVars, op>>
  BY <1>8, <1>o, <1>p, <1>w DEF Own
<1> HIDE DEF wireVars
<1> QED
  BY <1>1, <1>2, <1>3, <1>4, <1>5, <1>6, <1>7, <1>8, Zenon
     DEF ControlStep, Cancel, Elapse, RedispatchQuery, HandleFrame, OnRunStarted,
         OnRunProgress, OnRunFinished, OnError, WatchdogScanRunning,
         WatchdogReapRunning, WatchdogScanQueued, WatchdogReapQueued

(* Whatever RunExecutor sends about an own run is about an own run.         *)
LEMMA OwnSends ==
    ASSUME NEW a \in Agent, NEW r \in OwnRun(a)
    PROVE  /\ TrySend(Started(r)) \subseteq Seq(OwnAgentFrame(a))
           /\ TrySend(Progress(r)) \subseteq Seq(OwnAgentFrame(a))
           /\ SendFailure(r) \subseteq Seq(OwnAgentFrame(a))
           /\ \A s \in TerminalStatus :
                TrySendCritical(Finished(r, s)) \subseteq Seq(OwnAgentFrame(a))
<1>1. r \in Run
  BY DEF OwnRun
<1>2. /\ Started(r) \in OwnAgentFrame(a) /\ Progress(r) \in OwnAgentFrame(a)
      /\ Error(r) \in OwnAgentFrame(a)
      /\ \A s \in TerminalStatus : Finished(r, s) \in OwnAgentFrame(a)
  BY <1>1 DEF Started, Progress, Error, Finished, AgentFrame, OwnAgentFrame
<1>3. \A f \in OwnAgentFrame(a) : /\ TrySend(f) \subseteq Seq(OwnAgentFrame(a))
                                  /\ TrySendCritical(f) \subseteq Seq(OwnAgentFrame(a))
  BY SequenceClosure DEF TrySend, TrySendCritical
<1>4. "failed" \in TerminalStatus
  BY DEF TerminalStatus
<1>5. SendFailure(r) \subseteq Seq(OwnAgentFrame(a))
  BY <1>2, <1>3, <1>4, ThenType DEF SendFailure
<1> QED BY <1>2, <1>3, <1>5

(* A task that reports keeps tasks and frames to own runs.                  *)
LEMMA ReportsOwn ==
    ASSUME TypeOK, Own, NEW a \in Agent, NEW t \in Task,
           NEW sends, sends \subseteq Seq(OwnAgentFrame(a)),
           NEW ph, task[a][t].phase # "free", Reports(a, t, sends, ph)
    PROVE  OwnTasks' /\ OwnFrames'
<1>t. /\ task \in [Agent -> [Task -> TaskRecord]]
      /\ outbox \in [Agent -> [Conn -> Seq(AgentFrame)]]
  BY DEF TypeOK, AgentTypeOK, WireTypeOK
<1>1. OwnTasks'
  BY <1>t DEF Reports, InPhase, Own, OwnTasks
<1>2. PICK fs \in sends : Emit(a, task[a][t].conn, fs)
  BY DEF Reports
<1>3. ASSUME NEW b \in Agent, NEW c \in Conn PROVE outbox'[b][c] \in Seq(OwnAgentFrame(b))
  <2>1. outbox[b][c] \in Seq(OwnAgentFrame(b))
    BY DEF Own, OwnFrames
  <2>2. \/ outbox'[b][c] = outbox[b][c]
        \/ b = a /\ outbox'[b][c] = outbox[b][c] \o fs
    BY <1>2, <1>t DEF Emit
  <2> QED BY <2>1, <2>2, SequenceClosure
<1> QED BY <1>1, <1>3 DEF Reports, Own, OwnFrames

(* An agent's step keeps every run inside its project.                      *)
LEMMA AgentOwnStep ==
    ASSUME TypeOK, Own, NEW a \in Agent, AgentStep(a), UNCHANGED controlVars
    PROVE  Own'
<1>t. /\ task \in [Agent -> [Task -> TaskRecord]]
      /\ inbox \in [Agent -> Seq(ControlFrame)]
  BY DEF TypeOK, AgentTypeOK, WireTypeOK
<1>o. OwnOps'
  BY DEF Own, OwnOps, controlVars
<1> SUFFICES OwnTasks' /\ OwnFrames'
  BY <1>o DEF Own
<1>r. ASSUME NEW type, Receives(a, type)
      PROVE  OwnFrames' /\ (type # "shutdown" => Head(inbox[a]).run \in OwnRun(a))
  <2>1. inbox[a] \in Seq(OwnControlFrame(a)) /\ inbox[a] # <<>>
    BY <1>r DEF Receives, Own, OwnFrames
  <2>2. Head(inbox[a]) \in OwnControlFrame(a) /\ Tail(inbox[a]) \in Seq(OwnControlFrame(a))
    BY <2>1
  <2> QED BY <2>2, <1>r, <1>t DEF Receives, Own, OwnFrames, OwnControlFrame
<1>1. CASE HandleAssignRun(a)
  <2>1. OwnFrames' /\ Head(inbox[a]).run \in OwnRun(a)
    BY <1>1, <1>r DEF HandleAssignRun
  <2>2. ASSUME NEW t \in Task, NEW k, k.run = Head(inbox[a]).run, task' = [task EXCEPT ![a][t] = k]
        PROVE  OwnTasks'
    BY <2>1, <2>2, <1>t DEF Own, OwnTasks
  <2>3. CASE UNCHANGED task
    BY <2>1, <2>3 DEF Own, OwnTasks
  <2> QED BY <2>1, <2>2, <2>3, <1>1 DEF HandleAssignRun
<1>2. CASE HandleCancelRun(a)
  <2>1. OwnFrames'
    BY <1>2, <1>r DEF HandleCancelRun
  <2>2. OwnTasks'
    BY <1>2, <1>t DEF HandleCancelRun, WithToken, Own, OwnTasks
  <2> QED BY <2>1, <2>2
<1>a. ASSUME CancelAllRuns(a) PROVE OwnTasks'
  BY <1>a, <1>t DEF CancelAllRuns, WithToken, Own, OwnTasks
<1>3. CASE Teardown(a)
  <2>1. OwnFrames'
    BY <1>3, <1>t DEF Teardown, Own, OwnFrames
  <2> QED BY <2>1, <1>3, <1>a DEF Teardown
<1>5. CASE HandleShutdown(a)
  BY <1>5, <1>r, <1>a DEF HandleShutdown
<1>4. ASSUME NEW t \in Task, TaskStep(a, t) PROVE OwnTasks' /\ OwnFrames'
  <2> DEFINE r == task[a][t].run
  <2>1. task[a][t].phase # "free" => r \in OwnRun(a)
    BY DEF Own, OwnTasks
  <2>2. CASE AcquireSlot(a, t)
    BY <2>2, <1>t DEF AcquireSlot, InPhase, Own, OwnTasks, OwnFrames, wireVars
  <2>3. CASE AbandonWait(a, t)
    BY <2>3, <1>t DEF AbandonWait, FreeTask, Own, OwnTasks, OwnFrames, wireVars
  <2>4. CASE FinishTask(a, t)
    BY <2>4, <1>t DEF FinishTask, FreeTask, WithToken, Own, OwnTasks, OwnFrames, wireVars
  <2>5. CASE BeginExecute(a, t)
    BY <2>1, <2>5, OwnSends, ReportsOwn DEF BeginExecute
  <2>6. CASE RelayProgress(a, t)
    BY <2>1, <2>6, OwnSends, ReportsOwn DEF RelayProgress
  <2>7. CASE ExecuteCompleted(a, t)
    <3>1. r \in OwnRun(a) /\ "completed" \in TerminalStatus
      BY <2>1, <2>7 DEF ExecuteCompleted, TerminalStatus
    <3>2. Then(TrySend(Progress(r)), TrySendCritical(Finished(r, "completed")))
             \subseteq Seq(OwnAgentFrame(a))
      BY <3>1, OwnSends, ThenType
    <3> QED BY <3>2, <2>7, ReportsOwn DEF ExecuteCompleted
  <2>8. CASE ExecuteFailed(a, t)
    BY <2>1, <2>8, OwnSends, ReportsOwn DEF ExecuteFailed
  <2>9. CASE ExecuteCancelled(a, t)
    <3>1. r \in OwnRun(a) /\ "cancelled" \in TerminalStatus
      BY <2>1, <2>9 DEF ExecuteCancelled, TerminalStatus
    <3>2. {<<>>} \cup TrySendCritical(Finished(r, "cancelled")) \subseteq Seq(OwnAgentFrame(a))
      BY <3>1, OwnSends, SequenceClosure
    <3> QED BY <3>2, <2>9, ReportsOwn DEF ExecuteCancelled
  <2> QED BY <1>4, <2>2, <2>3, <2>4, <2>5, <2>6, <2>7, <2>8, <2>9 DEF TaskStep
<1> QED BY <1>1, <1>2, <1>3, <1>4, <1>5 DEF AgentStep

(* Connecting and the faults conserve permits; a process that dies starts   *)
(* again with all of them free.                                             *)
LEMMA SystemPermitsStep ==
    ASSUME TypeOK, PermitsConserved, SystemStep
    PROVE  PermitsConserved'
<1>t. task \in [Agent -> [Task -> TaskRecord]] /\ permits \in [Agent -> 0..MaxConcurrentRuns]
  BY DEF TypeOK, AgentTypeOK
<1>1. CASE UNCHANGED agentVars
  BY <1>1 DEF agentVars, PermitsConserved, Holding
<1>2. ASSUME NEW a \in Agent, AgentDies(a) PROVE PermitsConserved'
  <2>1. Holding(a)' = {} /\ permits'[a] = MaxConcurrentRuns
    BY <1>2, <1>t DEF AgentDies, AgentCrash, Holding, FreeTask
  <2>2. permits'[a] + Cardinality(Holding(a)') = MaxConcurrentRuns
    BY <2>1, FS_EmptySet, AgentAssumption
  <2>3. \A b \in Agent : b # a => Holding(b)' = Holding(b) /\ permits'[b] = permits[b]
    BY <1>2, <1>t DEF AgentDies, AgentCrash, Holding
  <2> QED BY <2>2, <2>3 DEF PermitsConserved
<1> QED
  BY <1>1, <1>2, Zenon
     DEF SystemStep, Connect, Disconnect, LinkBreaks, ControlPlaneRestarts, StampFails,
         KeyRotated

(* Connecting and the faults keep every run inside its project.             *)
LEMMA SystemOwnStep ==
    ASSUME TypeOK, Own, SystemStep
    PROVE  Own'
<1>t. /\ task \in [Agent -> [Task -> TaskRecord]]
      /\ inbox \in [Agent -> Seq(ControlFrame)]
      /\ outbox \in [Agent -> [Conn -> Seq(AgentFrame)]]
      /\ op \in [Dispatcher -> Op]
  BY DEF TypeOK, AgentTypeOK, WireTypeOK, ControlTypeOK
<1> USE DEF agentVars, controlVars, wireVars
<1>e. \A S : <<>> \in Seq(S)
  OBVIOUS
<1>p. ASSUME NEW a \in Agent, NEW s \in Prefixes(outbox[a][conn[a]]),
             outbox' = [outbox EXCEPT ![a][conn[a]] = s],
             NEW b \in Agent, NEW c \in Conn
      PROVE  outbox'[b][c] \in Seq(OwnAgentFrame(b))
  <2>1. outbox[b][c] \in Seq(OwnAgentFrame(b))
    BY DEF Own, OwnFrames
  <2>2. CASE b = a /\ c = conn[a]
    BY <2>1, <2>2, <1>p, <1>t, PrefixType
  <2>3. CASE ~(b = a /\ c = conn[a])
    BY <2>1, <2>3, <1>p, <1>t
  <2> QED BY <2>2, <2>3
<1>1. ASSUME NEW a \in Agent, Connect(a) \/ Disconnect(a) PROVE Own'
  BY <1>1 DEF Connect, Disconnect, Own, OwnOps, OwnTasks, OwnFrames
<1>2. ASSUME NEW a \in Agent, LinkBreaks(a) PROVE Own'
  <2>1. OwnOps' /\ OwnTasks'
    BY <1>2 DEF LinkBreaks, Own, OwnOps, OwnTasks
  <2>2. ASSUME NEW b \in Agent PROVE inbox'[b] \in Seq(OwnControlFrame(b))
    <3>1. inbox[b] \in Seq(OwnControlFrame(b))
      BY DEF Own, OwnFrames
    <3>2. CASE b = a
      BY <3>1, <3>2, <1>2, <1>t, PrefixType DEF LinkBreaks, Break
    <3>3. CASE b # a
      BY <3>1, <3>3, <1>2, <1>t DEF LinkBreaks, Break
    <3> QED BY <3>2, <3>3
  <2>3. ASSUME NEW b \in Agent, NEW c \in Conn PROVE outbox'[b][c] \in Seq(OwnAgentFrame(b))
    <3>1. CASE outbox' = outbox
      BY <3>1 DEF Own, OwnFrames
    <3>2. CASE \E s \in Prefixes(outbox[a][conn[a]]) : outbox' = [outbox EXCEPT ![a][conn[a]] = s]
      BY <3>2, <1>p
    <3> QED BY <3>1, <3>2, <1>2 DEF LinkBreaks, Break
  <2> QED BY <2>1, <2>2, <2>3 DEF Own, OwnFrames
<1>3. ASSUME NEW a \in Agent, AgentDies(a) PROVE Own'
  <2>1. OwnOps'
    BY <1>3 DEF AgentDies, Own, OwnOps
  <2>2. OwnTasks'
    BY <1>3, <1>t DEF AgentDies, AgentCrash, FreeTask, Own, OwnTasks
  <2>3. ASSUME NEW b \in Agent PROVE inbox'[b] \in Seq(OwnControlFrame(b))
    BY <1>3, <1>t, <1>e DEF AgentDies, AgentCrash, Own, OwnFrames
  <2>4. ASSUME NEW b \in Agent, NEW c \in Conn PROVE outbox'[b][c] \in Seq(OwnAgentFrame(b))
    BY <1>3, <1>p DEF AgentDies, AgentCrash
  <2> QED BY <2>1, <2>2, <2>3, <2>4 DEF Own, OwnFrames
<1>4. CASE ControlPlaneRestarts
  <2>1. OwnOps' /\ OwnTasks'
    BY <1>4 DEF ControlPlaneRestarts, Idle, Own, OwnOps, OwnTasks
  <2>2. ASSUME NEW b \in Agent PROVE inbox'[b] \in Seq(OwnControlFrame(b))
    <3>1. inbox[b] \in Seq(OwnControlFrame(b))
      BY DEF Own, OwnFrames
    <3>2. inbox'[b] \in Prefixes(inbox[b])
      BY <1>4, Zenon DEF ControlPlaneRestarts
    <3> QED BY <3>1, <3>2, PrefixType
  <2>3. ASSUME NEW b \in Agent, NEW c \in Conn PROVE outbox'[b][c] \in Seq(OwnAgentFrame(b))
    BY <1>4, <1>e DEF ControlPlaneRestarts
  <2> QED BY <2>1, <2>2, <2>3 DEF Own, OwnFrames
<1>5. ASSUME NEW x \in Dispatcher, StampFails(x) PROVE Own'
  BY <1>5, <1>t DEF StampFails, TryAssignStampFails, Idle, Own, OwnOps, OwnTasks, OwnFrames
<1>6. ASSUME NEW a \in Agent, KeyRotated(a) PROVE Own'
  <2>1. Shutdown \in OwnControlFrame(a)
    BY DEF Shutdown, OwnControlFrame, ControlFrame
  <2>2. OwnFrames'
    BY <2>1, <1>6, SendOwn DEF KeyRotated, RotateKey, Own
  <2> QED BY <2>2, <1>6 DEF KeyRotated, RotateKey, Own, OwnOps, OwnTasks
<1> QED BY <1>1, <1>2, <1>3, <1>4, <1>5, <1>6 DEF SystemStep

(* The inductive invariant of the run system.                               *)
Inv == TypeOK /\ PermitsConserved /\ Own

(* The inductive invariant holds before the first launch.                   *)
LEMMA InitInv == Init => Inv
<1> SUFFICES ASSUME Init PROVE Inv
  OBVIOUS
<1> USE DEF Init, WireInit, AgentInit, ControlInit
<1>1. WireTypeOK
  BY WireAssumption DEF WireTypeOK
<1>2. AgentTypeOK
  BY AgentAssumption, WireAssumption DEF AgentTypeOK, FreeTask, TaskRecord, Phase, Token
<1>3. ControlTypeOK
  BY WireAssumption DEF ControlTypeOK, NoRow, RunRow, RunStatus, Idle, Op
<1>4. \A a \in Agent : Holding(a) = {}
  BY DEF Holding, FreeTask
<1>5. PermitsConserved
  <2>1. \A a \in Agent : permits[a] = MaxConcurrentRuns /\ Cardinality(Holding(a)) = 0
    BY <1>4, FS_EmptySet
  <2> QED BY <2>1, AgentAssumption DEF PermitsConserved
<1>6. Own
  BY DEF Own, OwnOps, OwnTasks, OwnFrames, Idle, FreeTask
<1> QED BY <1>1, <1>2, <1>3, <1>5, <1>6, FaultAssumption DEF Inv, TypeOK

(* Every step of the run system keeps the inductive invariant.              *)
LEMMA StepInv == Inv /\ [Next]_vars => Inv'
<1> SUFFICES ASSUME Inv, [Next]_vars PROVE Inv'
  OBVIOUS
<1>i. TypeOK /\ PermitsConserved /\ OwnOps /\ OwnTasks /\ Own
  BY DEF Inv, Own
<1>1. CASE ControlStep /\ UNCHANGED <<agentVars, faults>>
  <2>1. ControlTypeOK' /\ WireTypeOK'
    BY <1>i, <1>1, ControlTypeStep, ControlWireTypeStep
  <2>2. AgentTypeOK' /\ faults' \in 0..MaxFaults
    BY <1>i, <1>1 DEF TypeOK, AgentTypeOK, agentVars
  <2>3. PermitsConserved'
    BY <1>i, <1>1 DEF PermitsConserved, Holding, agentVars
  <2>4. Own'
    BY <1>i, <1>1, ControlOwnStep
  <2> QED BY <2>1, <2>2, <2>3, <2>4 DEF Inv, TypeOK
<1>2. ASSUME NEW a \in Agent, AgentStep(a), UNCHANGED <<controlVars, faults>> PROVE Inv'
  <2>1. AgentTypeOK' /\ WireTypeOK'
    BY <1>i, <1>2, AgentTypeStep
  <2>2. ControlTypeOK' /\ faults' \in 0..MaxFaults
    BY <1>i, <1>2 DEF TypeOK, ControlTypeOK, controlVars
  <2>3. PermitsConserved'
    BY <1>i, <1>2, PermitsStep
  <2>4. Own'
    BY <1>i, <1>2, AgentOwnStep
  <2> QED BY <2>1, <2>2, <2>3, <2>4 DEF Inv, TypeOK
<1>3. CASE SystemStep
  BY <1>i, <1>3, SystemTypeStep, SystemPermitsStep, SystemOwnStep DEF Inv
<1>4. CASE UNCHANGED vars
  BY <1>i, <1>4 DEF Inv, TypeOK, WireTypeOK, AgentTypeOK, ControlTypeOK, PermitsConserved,
     Holding, Own, OwnOps, OwnTasks, OwnFrames, vars, wireVars, agentVars, controlVars
<1> QED BY <1>1, <1>2, <1>3, <1>4 DEF Next

(* The inductive invariant holds in every reachable state.                  *)
THEOREM Invariance == Spec => []Inv
BY InitInv, StepInv, PTL DEF Spec

(* Every reachable state is well typed; in particular the slot counter      *)
(* never passes MaxConcurrentRuns, where SemaphoreSlim.Release would throw. *)
THEOREM TypeCorrect == Spec => []TypeOK
<1>1. Inv => TypeOK
  BY DEF Inv
<1> QED BY <1>1, Invariance, PTL

(* No interleaving of assignments, cancels, disconnects, failures and       *)
(* process deaths leaks or invents a run slot of an agent.                  *)
THEOREM PermitsAreConserved == Spec => []PermitsConserved
<1>1. Inv => PermitsConserved
  BY DEF Inv
<1> QED BY <1>1, Invariance, PTL

(* No run, and so none of the secrets its assign_run carries, ever reaches  *)
(* or is executed by an agent of another project.                           *)
THEOREM ProjectsAreIsolated == Spec => []ProjectIsolation
<1>1. Inv => ProjectIsolation
  <2> SUFFICES ASSUME Inv, NEW a \in Agent
               PROVE  /\ \A i \in 1..Len(inbox[a]) :
                            inbox[a][i].type # "shutdown" => inbox[a][i].run \in OwnRun(a)
                      /\ \A t \in Task : task[a][t].phase # "free" => task[a][t].run \in OwnRun(a)
    BY DEF OwnRun, ProjectIsolation
  <2>1. inbox[a] \in Seq(OwnControlFrame(a))
    BY DEF Inv, Own, OwnFrames
  <2>2. \A i \in 1..Len(inbox[a]) : inbox[a][i] \in OwnControlFrame(a)
    BY <2>1
  <2> QED BY <2>2 DEF Inv, Own, OwnTasks, OwnControlFrame
<1> QED BY <1>1, Invariance, PTL

(* The row kept its status and its worker_id.                               *)
Kept(r) == run'[r].status = run[r].status /\ run'[r].worker = run[r].worker

(* The row was queued, claimed or started by an agent of its project, or    *)
(* brought to an end.                                                       *)
Moved(r) ==
    \/ /\ run[r].status = "absent"
       /\ run'[r].status = "queued" /\ run'[r].worker = None
    \/ /\ Live(r)
       /\ run'[r].status \in {run[r].status, "running"}
       /\ \E a \in Agent : r \in OwnRun(a) /\ run'[r].worker = a
    \/ /\ Live(r)
       /\ run'[r].status \in TerminalStatus /\ run'[r].worker = run[r].worker

(* What a step may do to the rows: it moves at most one of them.            *)
RowStep == \A r \in Run : Kept(r) \/ (Moved(r) /\ \A q \in Run \ {r} : Kept(q))

(* Every handler, request and tick of the control plane moves at most one   *)
(* row, and only as the lifecycle allows.                                   *)
LEMMA ControlRowStep ==
    ASSUME Inv, ControlStep
    PROVE  RowStep
<1>t. run \in [Run -> RunRow]
  BY DEF Inv, TypeOK, ControlTypeOK
<1>u. ASSUME UNCHANGED run PROVE RowStep
  BY <1>u DEF RowStep, Kept
<1>m. ASSUME NEW r \in Run, NEW w, run' = [run EXCEPT ![r] = w], Kept(r) \/ Moved(r)
      PROVE  RowStep
  BY <1>m, <1>t DEF RowStep, Kept
<1>1. ASSUME NEW r \in Run, Launch(r) PROVE RowStep
  BY <1>1, <1>m, <1>t DEF Launch, QueuedRow, Moved
<1>2. ASSUME NEW r \in Run, NEW s \in TerminalStatus, Live(r),
             run' = [run EXCEPT ![r].status = s]
      PROVE  RowStep
  <2>1. Moved(r)
    BY <1>2, <1>t DEF Moved, RunRow
  <2> QED BY <2>1, <1>m, <1>2
<1>3. ASSUME NEW r \in Run, Cancel(r) PROVE RowStep
  BY <1>3, <1>2 DEF Cancel, TerminalStatus
<1>4. ASSUME NEW r \in Run, Elapse(r) PROVE RowStep
  <2>1. \A q \in Run : Kept(q)
    BY <1>4, <1>t DEF Elapse, Kept, RunRow
  <2> QED BY <2>1 DEF RowStep
<1>5. ASSUME NEW x \in Dispatcher, TryAssignStamp(x) PROVE RowStep
  <2>1. op[x].target \in Agent /\ op[x].run \in OwnRun(op[x].target) /\ op[x].run \in Run
    BY <1>5 DEF TryAssignStamp, Inv, Own, OwnOps
  <2>2. CASE Live(op[x].run)
    <3>1. run' = [run EXCEPT ![op[x].run] = ClaimedBy(run[op[x].run], op[x].target)]
      BY <2>2, <1>5 DEF TryAssignStamp
    <3>2. Moved(op[x].run)
      BY <2>1, <2>2, <3>1, <1>t DEF Moved, ClaimedBy
    <3> QED BY <2>1, <3>1, <3>2, <1>m
  <2>3. CASE ~Live(op[x].run)
    BY <2>3, <1>5, <1>u DEF TryAssignStamp
  <2> QED BY <2>2, <2>3
<1>6. ASSUME NEW a \in Agent, NEW c \in Conn, HandleFrame(a, c) PROVE RowStep
  <2> DEFINE f == Head(outbox[a][c])
  <2>1. f \in OwnAgentFrame(a)
    <3>1. outbox[a][c] # <<>>
      BY <1>6, Zenon
         DEF HandleFrame, OnRunStarted, OnRunProgress, OnRunFinished, OnError, Inbound
    <3>2. outbox[a][c] \in Seq(OwnAgentFrame(a))
      BY DEF Inv, Own, OwnFrames
    <3> QED BY <3>1, <3>2
  <2>2. f.run \in Run /\ f.run \in OwnRun(a)
    BY <2>1 DEF OwnAgentFrame, AgentFrame
  <2>3. CASE OnRunStarted(a, c)
    <3>1. CASE Live(f.run)
      <4>1. run' = [run EXCEPT ![f.run] = StartedBy(run[f.run], a)]
        BY <2>3, <3>1 DEF OnRunStarted
      <4>2. Moved(f.run)
        BY <2>2, <3>1, <4>1, <1>t DEF Moved, StartedBy
      <4> QED BY <2>2, <4>1, <4>2, <1>m
    <3>2. CASE ~Live(f.run)
      BY <2>3, <3>2, <1>u DEF OnRunStarted
    <3> QED BY <3>1, <3>2
  <2>4. CASE OnRunProgress(a, c)
    <3>1. \A q \in Run : Kept(q)
      BY <2>2, <2>4, <1>t, SMTT(20) DEF OnRunProgress, Kept, RunRow
    <3> QED BY <3>1 DEF RowStep
  <2>5. CASE OnRunFinished(a, c)
    BY <2>2, <2>5, <1>2, <1>u, SMTT(60) DEF OnRunFinished
  <2>6. CASE OnError(a, c)
    BY <2>2, <2>6, <1>2, <1>u DEF OnError, TerminalStatus
  <2> QED BY <2>3, <2>4, <2>5, <2>6, <1>6 DEF HandleFrame
<1>7. ASSUME NEW s \in stale, WatchdogReapRunning(s) PROVE RowStep
  <2>1. s.run \in Run
    BY DEF Inv, TypeOK, ControlTypeOK, Snapshot
  <2> QED BY <2>1, <1>2, <1>7, <1>u DEF WatchdogReapRunning, Live, TerminalStatus
<1>8. ASSUME NEW r \in stuck, WatchdogReapQueued(r) PROVE RowStep
  <2>1. r \in Run
    BY DEF Inv, TypeOK, ControlTypeOK
  <2> QED BY <2>1, <1>2, <1>8, <1>u DEF WatchdogReapQueued, Live, TerminalStatus
<1> QED
  BY <1>1, <1>3, <1>4, <1>5, <1>6, <1>7, <1>8, <1>u, Zenon
     DEF ControlStep, CancelFanOut, TryAssignSelect, TryAssignSend, RedispatchQuery,
         RedispatchNext, WatchdogScanRunning, WatchdogScanQueued

(* So does every step of the run system; agents and faults move none.       *)
LEMMA NextRowStep == Inv /\ [Next]_vars => RowStep
<1> SUFFICES ASSUME Inv, [Next]_vars PROVE RowStep
  OBVIOUS
<1>1. CASE UNCHANGED run
  BY <1>1 DEF RowStep, Kept
<1>2. CASE ControlStep
  BY <1>2, ControlRowStep
<1> QED
  BY <1>1, <1>2, Zenon
     DEF Next, SystemStep, vars, controlVars, Connect, Disconnect, LinkBreaks, AgentDies,
         ControlPlaneRestarts, StampFails, TryAssignStampFails, KeyRotated, RotateKey

(* No late, repeated or crossing frame, claim, cancel, sweep or restart     *)
(* moves a row out of completed, failed or cancelled.                       *)
THEOREM TerminalStays == Spec => TerminalIsFinal
<1>1. RowStep => \A r \in Run : run[r].status \in TerminalStatus => run'[r].status = run[r].status
  BY DEF RowStep, Kept, Moved, Live, TerminalStatus
<1>2. Inv /\ [Next]_vars =>
        [\A r \in Run : run[r].status \in TerminalStatus => run'[r].status = run[r].status]_vars
  BY <1>1, NextRowStep
<1> QED BY <1>2, Invariance, PTL DEF Spec, TerminalIsFinal

(* The run system implements RunLifecycle: each step is, on the status and  *)
(* worker_id of the rows, a lifecycle step or a stutter.                    *)
THEOREM ImplementsLifecycle == Spec => LifecycleSpec
<1> DEFINE row == [r \in Run |-> [status |-> run[r].status, worker |-> run[r].worker]]
           may == [r \in Run |-> {a \in Agent : AgentProject[a] = RunProject[r]}]
<1>1. Init => Lifecycle!Init
  BY DEF Init, ControlInit, NoRow, Lifecycle!Init
<1>2. RowStep => [Lifecycle!Next]_row
  <2> SUFFICES ASSUME RowStep, row' # row PROVE Lifecycle!Next
    OBVIOUS
  <2>1. PICK r \in Run : ~Kept(r)
    BY DEF Kept
  <2>2. Moved(r) /\ \A q \in Run \ {r} : Kept(q)
    BY <2>1 DEF RowStep
  <2>3. row' = [row EXCEPT ![r] = [status |-> run'[r].status, worker |-> run'[r].worker]]
    BY <2>2 DEF Kept
  <2>4. row[r] = [status |-> run[r].status, worker |-> run[r].worker]
    OBVIOUS
  <2>5. CASE run[r].status = "absent" /\ run'[r].status = "queued" /\ run'[r].worker = None
    BY <2>3, <2>4, <2>5 DEF Lifecycle!Next, Lifecycle!Queue
  <2>6. ASSUME NEW a \in Agent, Live(r), r \in OwnRun(a), run'[r].worker = a,
               run'[r].status \in {run[r].status, "running"}
        PROVE  Lifecycle!Next
    <3>1. a \in may[r]
      BY <2>6 DEF OwnRun
    <3>2. CASE run'[r].status = run[r].status
      <4>1. Lifecycle!Claim(r, a)
        BY <2>3, <2>4, <2>6, <3>1, <3>2 DEF Live, Lifecycle!Claim, Lifecycle!LiveStatus
      <4> QED BY <4>1 DEF Lifecycle!Next
    <3>3. CASE run'[r].status = "running"
      <4>1. Lifecycle!Start(r, a)
        BY <2>3, <2>4, <2>6, <3>1, <3>3 DEF Live, Lifecycle!Start, Lifecycle!LiveStatus
      <4> QED BY <4>1 DEF Lifecycle!Next
    <3> QED BY <2>6, <3>2, <3>3
  <2>7. CASE /\ Live(r) /\ run'[r].status \in TerminalStatus
             /\ run'[r].worker = run[r].worker
    BY <2>3, <2>4, <2>7 DEF Live, TerminalStatus, Lifecycle!Next, Lifecycle!End,
       Lifecycle!LiveStatus, Lifecycle!EndStatus
  <2> QED BY <2>2, <2>5, <2>6, <2>7 DEF Moved
<1>3. Inv /\ [Next]_vars => [Lifecycle!Next]_row
  BY <1>2, NextRowStep
<1> QED BY <1>1, <1>3, Invariance, PTL DEF Spec, LifecycleSpec, Lifecycle!Spec

-----------------------------------------------------------------------------
(***************************************************************************)
(* Who executes a run.  TableInv is about one agent: the task of every     *)
(* handle in _running is alive, and no task is orphaned from its handle    *)
(* but by a finally that also put the run id into the dedupe memory.       *)
(* PlaceInv is about all of them: a run that is on its way to an agent, is *)
(* worked on there or has frames from there still to be processed is in    *)
(* that one place only, and nothing in the dispatcher can assign it again. *)
(***************************************************************************)

(* An assignment table h and the tasks k of the same agent agree.           *)
HandlesAgree(k, h) ==
    /\ \A t \in Task : k[t].phase # "free" /\ k[t].token = "live" => h[k[t].run] = t
    /\ \A r \in Run : h[r] # None =>
         k[h[r]].phase # "free" /\ k[h[r]].run = r /\ k[h[r]].token = "live"

(* A task whose source was disposed under it belongs to a run that the      *)
(* dedupe memory s still knows, so that no further assign_run is accepted;  *)
(* the memory holds every id once.                                          *)
OrphansRemembered(k, h, s) ==
    /\ \A t \in Task : k[t].phase # "free" /\ k[t].token = "disposed" =>
         h[k[t].run] = None /\ Contains(s, k[t].run)
    /\ \A i, j \in 1..Len(s) : s[i] = s[j] => i = j

(* At most one of the tasks k that are not cancelled executes a given run.  *)
OneEach(k) ==
    \A t, u \in Task :
        /\ k[t].phase # "free" /\ k[t].token # "cancelled"
        /\ k[u].phase # "free" /\ k[u].token # "cancelled"
        /\ k[t].run = k[u].run
        => t = u

(* Every agent finds its live tasks in its table, and only those.           *)
TableInv == \A a \in Agent : HandlesAgree(task[a], handle[a])

(* Every agent has one task per run, and remembers the runs it lost track of.*)
DedupeInv ==
    \A a \in Agent : OrphansRemembered(task[a], handle[a], recent[a]) /\ OneEach(task[a])


(* A step of one agent changes neither table nor memory of another agent.   *)
LEMMA OtherTables ==
    ASSUME TypeOK, NEW a \in Agent, AgentStep(a), NEW b \in Agent, b # a
    PROVE  handle'[b] = handle[b] /\ recent'[b] = recent[b]
<1>t. DOMAIN handle = Agent /\ DOMAIN recent = Agent
  BY DEF TypeOK, AgentTypeOK
<1>1. CASE UNCHANGED <<handle, recent>>
  BY <1>1
<1>2. ASSUME NEW h, NEW s, handle' = [handle EXCEPT ![a] = h] \/ handle' = handle,
             recent' = [recent EXCEPT ![a] = s] \/ recent' = recent
      PROVE  handle'[b] = handle[b] /\ recent'[b] = recent[b]
  BY <1>2, <1>t
<1> QED
  BY <1>1, <1>2, Zenon
     DEF AgentStep, HandleAssignRun, HandleCancelRun, HandleShutdown, Teardown, CancelAllRuns,
         TaskStep, AcquireSlot, AbandonWait, BeginExecute, RelayProgress, ExecuteCompleted,
         ExecuteFailed, ExecuteCancelled, FinishTask, Reports

(* The tables of one agent: tasks, assignment table and dedupe memory.      *)
Tables(k, h, s) ==
    /\ k \in [Task -> TaskRecord]
    /\ h \in [Run -> Task \cup {None}]
    /\ s \in Seq(Run)
    /\ \A t \in Task : k[t].phase # "free" => k[t].run \in Run

(* An accepted assign_run: the run had no handle and was not remembered.    *)
LEMMA AcceptTables ==
    ASSUME NEW k, NEW h, NEW s, Tables(k, h, s), NEW r \in Run, NEW t \in Task, NEW n,
           k[t].phase = "free", h[r] = None,
           n.phase # "free", n.run = r, n.token = "live"
    PROVE  LET k2 == [k EXCEPT ![t] = n]
               h2 == [h EXCEPT ![r] = t]
           IN  /\ HandlesAgree(k, h) => HandlesAgree(k2, h2)
               /\ /\ HandlesAgree(k, h) /\ OrphansRemembered(k, h, s) /\ OneEach(k)
                  /\ ~Contains(s, r)
                  => OrphansRemembered(k2, h2, s) /\ OneEach(k2)
<1> DEFINE k2 == [k EXCEPT ![t] = n]
           h2 == [h EXCEPT ![r] = t]
<1>1. k2[t] = n /\ \A u \in Task : u # t => k2[u] = k[u]
  BY DEF Tables
<1>2. h2[r] = t /\ \A q \in Run : q # r => h2[q] = h[q]
  BY DEF Tables
<1>3. t # None
  BY AgentAssumption
<1>4. \A q \in Run : h[q] \in Task \cup {None}
  BY DEF Tables
<1>5. \A u \in Task : k[u].phase # "free" => k[u].run \in Run
  BY DEF Tables
<1> HIDE DEF k2, h2
<1>6. HandlesAgree(k, h) => HandlesAgree(k2, h2)
  <2> SUFFICES ASSUME HandlesAgree(k, h) PROVE HandlesAgree(k2, h2)
    OBVIOUS
  <2>1. ASSUME NEW u \in Task, k2[u].phase # "free", k2[u].token = "live"
        PROVE  h2[k2[u].run] = u
    BY <2>1, <1>1, <1>2, <1>5, AgentAssumption DEF HandlesAgree
  <2>2. ASSUME NEW q \in Run, h2[q] # None
        PROVE  k2[h2[q]].phase # "free" /\ k2[h2[q]].run = q /\ k2[h2[q]].token = "live"
    BY <2>2, <1>1, <1>2, <1>3, <1>4 DEF HandlesAgree
  <2> QED BY <2>1, <2>2 DEF HandlesAgree
<1>7. ASSUME HandlesAgree(k, h), OrphansRemembered(k, h, s), OneEach(k), ~Contains(s, r)
      PROVE  OrphansRemembered(k2, h2, s) /\ OneEach(k2)
  <2>1. ASSUME NEW u \in Task, k[u].phase # "free", k[u].token # "cancelled" PROVE k[u].run # r
    <3>1. k[u].token \in {"live", "disposed"}
      BY <2>1 DEF Tables, TaskRecord, Token
    <3> QED BY <2>1, <3>1, <1>7, AgentAssumption DEF HandlesAgree, OrphansRemembered
  <2>2. OrphansRemembered(k2, h2, s)
    BY <2>1, <1>1, <1>2, <1>5, <1>7 DEF OrphansRemembered
  <2>3. OneEach(k2)
    BY <2>1, <1>1, <1>7 DEF OneEach
  <2> QED BY <2>2, <2>3
<1> QED BY <1>6, <1>7 DEF k2, h2

(* Handles that are taken out are tripped: cancel_run takes the one of a    *)
(* run, a shutdown or a disconnect all of them.                             *)
LEMMA TripTables ==
    ASSUME NEW k, NEW h, NEW s, Tables(k, h, s), NEW R \in SUBSET Run, NEW k2, NEW h2,
           \A u \in Task : (\E r \in R : h[r] = u) => k2[u] = WithToken(k[u], "cancelled"),
           \A u \in Task : (\A r \in R : h[r] # u) => k2[u] = k[u],
           \A r \in Run : h2[r] = IF r \in R THEN None ELSE h[r]
    PROVE  /\ HandlesAgree(k, h) => HandlesAgree(k2, h2)
           /\ OrphansRemembered(k, h, s) => OrphansRemembered(k2, h2, s)
           /\ OneEach(k) => OneEach(k2)
<1>a. ASSUME NEW u \in Task
      PROVE  /\ k2[u].phase = k[u].phase /\ k2[u].run = k[u].run
             /\ k2[u].token # "cancelled" => k2[u].token = k[u].token /\ \A r \in R : h[r] # u
  <2>1. CASE \E r \in R : h[r] = u
    <3>1. k2[u] = WithToken(k[u], "cancelled")
      BY <2>1
    <3> QED BY <3>1 DEF WithToken
  <2>2. CASE ~ \E r \in R : h[r] = u
    <3>1. k2[u] = k[u]
      BY <2>2
    <3> QED BY <3>1, <2>2
  <2> QED BY <2>1, <2>2
<1>1. \A u \in Task : k2[u].phase = k[u].phase /\ k2[u].run = k[u].run
  BY <1>a
<1>2. \A u \in Task : k2[u].token # "cancelled" =>
          k2[u].token = k[u].token /\ \A r \in R : h[r] # u
  BY <1>a
<1>3. \A q \in Run : h[q] \in Task \cup {None}
  BY DEF Tables
<1>5. \A u \in Task : k[u].phase # "free" => k[u].run \in Run
  BY DEF Tables
<1>6. HandlesAgree(k, h) => HandlesAgree(k2, h2)
  <2> SUFFICES ASSUME HandlesAgree(k, h) PROVE HandlesAgree(k2, h2)
    OBVIOUS
  <2>1. ASSUME NEW u \in Task, k2[u].phase # "free", k2[u].token = "live"
        PROVE  h2[k2[u].run] = u
    BY <2>1, <1>1, <1>2, <1>5 DEF HandlesAgree
  <2>2. ASSUME NEW q \in Run, h2[q] # None
        PROVE  k2[h2[q]].phase # "free" /\ k2[h2[q]].run = q /\ k2[h2[q]].token = "live"
    <3>1. q \notin R /\ h2[q] = h[q] /\ h[q] \in Task
      BY <2>2, <1>3
    <3>2. k[h[q]].phase # "free" /\ k[h[q]].run = q /\ k[h[q]].token = "live"
      BY <2>2, <3>1 DEF HandlesAgree
    <3>3. \A r \in R : h[r] # h[q]
      <4>1. ASSUME NEW r \in R, h[r] = h[q] PROVE FALSE
        <5>1. r \in Run /\ h[r] # None
          BY <4>1, <2>2, <3>1
        <5>2. k[h[r]].run = r
          BY <5>1 DEF HandlesAgree
        <5> QED BY <5>2, <3>1, <3>2, <4>1
      <4> QED BY <4>1
    <3>4. k2[h[q]] = k[h[q]]
      BY <3>1, <3>3
    <3> QED BY <3>1, <3>2, <3>4
  <2> QED BY <2>1, <2>2 DEF HandlesAgree
<1>7. OrphansRemembered(k, h, s) => OrphansRemembered(k2, h2, s)
  BY <1>1, <1>2, <1>5 DEF OrphansRemembered
<1>8. OneEach(k) => OneEach(k2)
  BY <1>1, <1>2 DEF OneEach
<1> QED BY <1>6, <1>7, <1>8

(* A task moves on or, when its source is no longer live, gives up the wait. *)
LEMMA AdvanceTables ==
    ASSUME NEW k, NEW h, NEW s, Tables(k, h, s), NEW t \in Task, NEW n,
           k[t].phase # "free",
           \/ n.phase # "free" /\ n.run = k[t].run /\ n.token = k[t].token
           \/ n.phase = "free" /\ k[t].token # "live"
    PROVE  LET k2 == [k EXCEPT ![t] = n]
           IN  /\ HandlesAgree(k, h) => HandlesAgree(k2, h)
               /\ OrphansRemembered(k, h, s) => OrphansRemembered(k2, h, s)
               /\ OneEach(k) => OneEach(k2)
<1> DEFINE k2 == [k EXCEPT ![t] = n]
<1>1. k2[t] = n /\ \A u \in Task : u # t => k2[u] = k[u]
  BY DEF Tables
<1>2. \A q \in Run : h[q] \in Task \cup {None}
  BY DEF Tables
<1> HIDE DEF k2
<1>3. HandlesAgree(k, h) => HandlesAgree(k2, h)
  <2> SUFFICES ASSUME HandlesAgree(k, h) PROVE HandlesAgree(k2, h)
    OBVIOUS
  <2>1. ASSUME NEW u \in Task, k2[u].phase # "free", k2[u].token = "live"
        PROVE  h[k2[u].run] = u
    BY <2>1, <1>1 DEF HandlesAgree
  <2>2. ASSUME NEW q \in Run, h[q] # None
        PROVE  k2[h[q]].phase # "free" /\ k2[h[q]].run = q /\ k2[h[q]].token = "live"
    BY <2>2, <1>1, <1>2 DEF HandlesAgree
  <2> QED BY <2>1, <2>2 DEF HandlesAgree
<1>4. OrphansRemembered(k, h, s) => OrphansRemembered(k2, h, s)
  BY <1>1 DEF OrphansRemembered
<1>5. OneEach(k) => OneEach(k2)
  BY <1>1 DEF OneEach
<1> QED BY <1>3, <1>4, <1>5 DEF k2

(* The runs fit into the dedupe memory, which then never forgets one.       *)
EnoughMemory == IsFiniteSet(Run) /\ Cardinality(Run) <= RecentCapacity

(* A memory of distinct ids that all the runs fit into does not evict.      *)
LEMMA MemoryKeeps ==
    ASSUME EnoughMemory, NEW s \in Seq(Run), NEW r \in Run,
           \A i, j \in 1..Len(s) : s[i] = s[j] => i = j
    PROVE  LET m == Remember(s, r)
           IN  /\ \A q \in Run : Contains(s, q) => Contains(m, q)
               /\ Contains(m, r)
               /\ \A i, j \in 1..Len(m) : m[i] = m[j] => i = j
<1>1. CASE Contains(s, r)
  BY <1>1 DEF Remember
<1>2. CASE ~Contains(s, r)
  <2> DEFINE m == Append(s, r)
  <2>1. /\ m \in Seq(Run) /\ Len(m) = Len(s) + 1 /\ m[Len(m)] = r
        /\ \A i \in 1..Len(s) : m[i] = s[i]
    OBVIOUS
  <2>2. \A i \in 1..Len(s) : s[i] # r
    BY <1>2 DEF Contains
  <2>3. \A i, j \in 1..Len(m) : m[i] = m[j] => i = j
    BY <2>1, <2>2
  <2> HIDE DEF m
  <2>4. Len(m) <= RecentCapacity
    <3>1. m \in [1..Len(m) -> Run]
      BY <2>1
    <3>2. m \in Injection(1..Len(m), Run)
      BY <2>3, <3>1 DEF Injection, IsInjective
    <3>3. Cardinality(1..Len(m)) <= Cardinality(Run)
      BY <3>2, FS_Injection, Zenon DEF EnoughMemory
    <3>4. Len(m) \in Nat /\ Len(m) >= 1
      BY <2>1
    <3>5. Cardinality(1..Len(m)) = Len(m)
      <4>1. 1 \in Int /\ Len(m) \in Int /\ ~(1 > Len(m)) /\ Len(m) - 1 + 1 = Len(m)
        BY <3>4
      <4>2. Cardinality(1..Len(m)) = IF 1 > Len(m) THEN 0 ELSE Len(m) - 1 + 1
        BY <4>1, FS_Interval, Zenon
      <4> QED BY <4>1, <4>2
    <3>6. Cardinality(Run) \in Nat
      BY FS_CardinalityType DEF EnoughMemory
    <3> QED BY <3>3, <3>4, <3>5, <3>6, AgentAssumption DEF EnoughMemory
  <2>5. Remember(s, r) = m
    BY <2>4, <2>1, <1>2, AgentAssumption DEF Remember, m
  <2>6. Contains(m, r) /\ \A q \in Run : Contains(s, q) => Contains(m, q)
    BY <2>1 DEF Contains
  <2> QED BY <2>3, <2>5, <2>6
<1> QED BY <1>1, <1>2

(* The finally of a task.                                                   *)
LEMMA FinishTables ==
    ASSUME NEW k, NEW h, NEW s, Tables(k, h, s), NEW t \in Task, k[t].phase # "free", NEW k2, NEW h2,
           \A u \in Task : k2[u] = IF u = t THEN FreeTask
                                   ELSE IF u = h[k[t].run] THEN WithToken(k[u], "disposed")
                                   ELSE k[u],
           \A r \in Run : h2[r] = IF r = k[t].run THEN None ELSE h[r]
    PROVE  /\ HandlesAgree(k, h) => HandlesAgree(k2, h2)
           /\ /\ EnoughMemory /\ HandlesAgree(k, h) /\ OrphansRemembered(k, h, s) /\ OneEach(k)
              => OrphansRemembered(k2, h2, Remember(s, k[t].run)) /\ OneEach(k2)
<1> DEFINE r == k[t].run
<1>1. r \in Run /\ h[r] \in Task \cup {None} /\ \A q \in Run : h[q] \in Task \cup {None}
  BY DEF Tables
<1>2. k2[t].phase = "free"
  BY DEF FreeTask
<1>3. ASSUME NEW u \in Task, u # t
      PROVE  /\ k2[u].phase = k[u].phase /\ k2[u].run = k[u].run
             /\ k2[u].token = IF u = h[r] THEN "disposed" ELSE k[u].token
  <2>1. k2[u] = IF u = h[r] THEN WithToken(k[u], "disposed") ELSE k[u]
    BY <1>3
  <2> QED BY <2>1 DEF WithToken
<1>4. \A u \in Task : k[u].phase # "free" => k[u].run \in Run
  BY DEF Tables
<1>5. h2[r] = None /\ \A q \in Run : q # r => h2[q] = h[q]
  BY <1>1
<1> HIDE DEF r
<1>6. ASSUME HandlesAgree(k, h) PROVE HandlesAgree(k2, h2)
  <2>1. ASSUME NEW u \in Task, k2[u].phase # "free", k2[u].token = "live"
        PROVE  h2[k2[u].run] = u
    <3>1. u # t /\ u # h[r] /\ k[u].phase # "free" /\ k[u].token = "live" /\ k2[u].run = k[u].run
      BY <2>1, <1>2, <1>3
    <3>2. h[k[u].run] = u /\ k[u].run \in Run
      BY <3>1, <1>4, <1>6 DEF HandlesAgree
    <3> QED BY <3>1, <3>2, <1>5
  <2>2. ASSUME NEW q \in Run, h2[q] # None
        PROVE  k2[h2[q]].phase # "free" /\ k2[h2[q]].run = q /\ k2[h2[q]].token = "live"
    <3>1. q # r /\ h2[q] = h[q] /\ h[q] \in Task /\ h[q] # None
      BY <2>2, <1>1, <1>5
    <3>2. k[h[q]].phase # "free" /\ k[h[q]].run = q /\ k[h[q]].token = "live"
      BY <3>1, <1>6 DEF HandlesAgree
    <3>3. h[q] # t
      BY <3>1, <3>2 DEF r
    <3>4. h[q] # h[r]
      BY <3>1, <3>2, <1>1, <1>6 DEF HandlesAgree
    <3> QED BY <3>1, <3>2, <3>3, <3>4, <1>3
  <2> QED BY <2>1, <2>2 DEF HandlesAgree
<1>7. ASSUME EnoughMemory, HandlesAgree(k, h), OrphansRemembered(k, h, s), OneEach(k)
      PROVE  OrphansRemembered(k2, h2, Remember(s, r)) /\ OneEach(k2)
  <2> DEFINE m == Remember(s, r)
  <2>1. s \in Seq(Run) /\ \A i, j \in 1..Len(s) : s[i] = s[j] => i = j
    BY <1>7 DEF Tables, OrphansRemembered
  <2>2. /\ \A q \in Run : Contains(s, q) => Contains(m, q)
        /\ Contains(m, r)
        /\ \A i, j \in 1..Len(m) : m[i] = m[j] => i = j
    BY <2>1, <1>1, <1>7, MemoryKeeps
  <2> HIDE DEF m
  <2>3. ASSUME NEW u \in Task, k2[u].phase # "free", k2[u].token = "disposed"
        PROVE  h2[k2[u].run] = None /\ Contains(m, k2[u].run)
    <3>1. u # t /\ k[u].phase # "free" /\ k2[u].run = k[u].run /\ k[u].run \in Run
      BY <2>3, <1>2, <1>3, <1>4
    <3>2. CASE u = h[r]
      <4>1. k[u].run = r
        BY <3>2, <1>1, <1>7, AgentAssumption DEF HandlesAgree
      <4> QED BY <4>1, <3>1, <2>2, <1>5
    <3>3. CASE u # h[r]
      <4>1. k[u].token = "disposed"
        BY <3>1, <3>3, <2>3, <1>3
      <4>2. h[k[u].run] = None /\ Contains(s, k[u].run)
        BY <4>1, <3>1, <1>7 DEF OrphansRemembered
      <4> QED BY <4>2, <3>1, <2>2, <1>5
    <3> QED BY <3>2, <3>3
  <2>4. OrphansRemembered(k2, h2, m)
    BY <2>2, <2>3 DEF OrphansRemembered
  <2>5. OneEach(k2)
    <3>1. ASSUME NEW u \in Task, k2[u].phase # "free", k2[u].token # "cancelled"
          PROVE  k[u].phase # "free" /\ k[u].token # "cancelled" /\ k2[u].run = k[u].run
      <4>1. u # t /\ k[u].phase # "free" /\ k2[u].run = k[u].run
        BY <3>1, <1>2, <1>3
      <4>2. k[u].token # "cancelled"
        <5>1. CASE u = h[r]
          BY <5>1, <1>1, <1>7, AgentAssumption DEF HandlesAgree
        <5>2. CASE u # h[r]
          BY <5>2, <4>1, <3>1, <1>3
        <5> QED BY <5>1, <5>2
      <4> QED BY <4>1, <4>2
    <3> QED BY <3>1, <1>7 DEF OneEach
  <2> QED BY <2>4, <2>5 DEF m
<1> QED BY <1>6, <1>7 DEF r

(* The tables of every agent are as the types and OwnTasks say.             *)
LEMMA TablesHold ==
    ASSUME Inv, NEW a \in Agent
    PROVE  Tables(task[a], handle[a], recent[a])
BY DEF Inv, TypeOK, AgentTypeOK, Own, OwnTasks, OwnRun, Tables

(* Every step of an agent keeps its table and its tasks in agreement, and,  *)
(* when its memory is large enough, never starts a second task of a run.    *)
LEMMA AgentTableStep ==
    ASSUME Inv, NEW a \in Agent, AgentStep(a), HandlesAgree(task[a], handle[a])
    PROVE  /\ HandlesAgree(task'[a], handle'[a])
           /\ /\ EnoughMemory
              /\ OrphansRemembered(task[a], handle[a], recent[a]) /\ OneEach(task[a])
              => OrphansRemembered(task'[a], handle'[a], recent'[a]) /\ OneEach(task'[a])
<1> DEFINE Kept2 == /\ HandlesAgree(task'[a], handle'[a])
                    /\ /\ EnoughMemory
                       /\ OrphansRemembered(task[a], handle[a], recent[a]) /\ OneEach(task[a])
                       => OrphansRemembered(task'[a], handle'[a], recent'[a]) /\ OneEach(task'[a])
<1> SUFFICES Kept2
  OBVIOUS
<1>t. Tables(task[a], handle[a], recent[a])
  BY TablesHold
<1>d. /\ task \in [Agent -> [Task -> TaskRecord]] /\ handle \in [Agent -> [Run -> Task \cup {None}]]
      /\ recent \in [Agent -> Seq(Run)] /\ inbox \in [Agent -> Seq(ControlFrame)]
  BY DEF Inv, TypeOK, AgentTypeOK, WireTypeOK
<1>r. ASSUME NEW type, Receives(a, type), type # "shutdown" PROVE Head(inbox[a]).run \in Run
  <2>1. Head(inbox[a]) \in ControlFrame /\ Head(inbox[a]).type = type
    BY <1>r, <1>d DEF Receives
  <2> QED BY <2>1, <1>r DEF ControlFrame
<1>1. CASE HandleAssignRun(a)
  <2> DEFINE r == Head(inbox[a]).run
             n == [phase |-> "waiting", run |-> r, conn |-> conn[a], token |-> "live"]
  <2>1. r \in Run /\ recent' = recent
    BY <1>1, <1>r DEF HandleAssignRun
  <2>2. CASE UNCHANGED <<task, handle>>
    BY <2>1, <2>2
  <2>3. ASSUME ~Seen(a, r), NEW t \in Task, task[a][t].phase = "free",
               task' = [task EXCEPT ![a][t] = n], handle' = [handle EXCEPT ![a][r] = t]
        PROVE  Kept2
    <3>1. task'[a] = [task[a] EXCEPT ![t] = n] /\ handle'[a] = [handle[a] EXCEPT ![r] = t]
      BY <2>3, <1>d
    <3>2. handle[a][r] = None /\ ~Contains(recent[a], r)
      BY <2>3 DEF Seen
    <3>3. n.phase # "free" /\ n.run = r /\ n.token = "live"
      OBVIOUS
    <3> HIDE DEF n, r
    <3> QED BY <3>1, <3>2, <3>3, <2>1, <2>3, <1>t, AcceptTables
  <2> QED BY <2>2, <2>3, <1>1, Zenon DEF HandleAssignRun
<1>2. ASSUME NEW R \in SUBSET Run, recent' = recent,
             task'[a] \in [Task -> TaskRecord],
             \A u \in Task : (\E r \in R : handle[a][r] = u)
                                => task'[a][u] = WithToken(task[a][u], "cancelled"),
             \A u \in Task : (\A r \in R : handle[a][r] # u) => task'[a][u] = task[a][u],
             \A r \in Run : handle'[a][r] = IF r \in R THEN None ELSE handle[a][r]
      PROVE  Kept2
  <2> DEFINE k == task[a]
             h == handle[a]
             s == recent[a]
             k2 == task'[a]
             h2 == handle'[a]
  <2>1. /\ Tables(k, h, s) /\ R \in SUBSET Run
        /\ \A u \in Task : (\E r \in R : h[r] = u) => k2[u] = WithToken(k[u], "cancelled")
        /\ \A u \in Task : (\A r \in R : h[r] # u) => k2[u] = k[u]
        /\ \A r \in Run : h2[r] = IF r \in R THEN None ELSE h[r]
    BY <1>2, <1>t
  <2>2. HandlesAgree(k, h) /\ recent'[a] = s
    BY <1>2
  <2>3. Kept2 <=> /\ HandlesAgree(k2, h2)
                  /\ EnoughMemory /\ OrphansRemembered(k, h, s) /\ OneEach(k)
                       => OrphansRemembered(k2, h2, s) /\ OneEach(k2)
    BY <2>2
  <2> HIDE DEF Kept2, k, h, s, k2, h2
  <2>4. /\ HandlesAgree(k, h) => HandlesAgree(k2, h2)
        /\ OrphansRemembered(k, h, s) => OrphansRemembered(k2, h2, s)
        /\ OneEach(k) => OneEach(k2)
    BY <2>1, TripTables
  <2> QED BY <2>2, <2>3, <2>4
<1>3. CASE HandleCancelRun(a)
  <2> DEFINE r == Head(inbox[a]).run
  <2>1. r \in Run /\ recent' = recent
    BY <1>3, <1>r DEF HandleCancelRun
  <2>2. \A q \in Run : handle'[a][q] = IF q \in {r} THEN None ELSE handle[a][q]
    BY <2>1, <1>3, <1>d DEF HandleCancelRun
  <2>3. \A u \in Task :
          /\ (\E q \in {r} : handle[a][q] = u) => task'[a][u] = WithToken(task[a][u], "cancelled")
          /\ (\A q \in {r} : handle[a][q] # u) => task'[a][u] = task[a][u]
    <3>1. CASE handle[a][r] = None
      <4>1. task' = task /\ \A u \in Task : handle[a][r] # u
        BY <3>1, <1>3, AgentAssumption DEF HandleCancelRun
      <4> QED BY <4>1
    <3>2. CASE handle[a][r] # None
      <4>1. handle[a][r] \in Task
        BY <2>1, <3>2, <1>d
      <4>2. task' = [task EXCEPT ![a][handle[a][r]] = WithToken(@, "cancelled")]
        BY <3>2, <1>3 DEF HandleCancelRun
      <4> HIDE DEF r
      <4> QED BY <4>1, <4>2, <1>d
    <3> QED BY <3>1, <3>2
  <2>4. AgentTypeOK'
    BY AgentTypeStep DEF Inv, Own
  <2> QED BY <2>1, <2>2, <2>3, <2>4, <1>2 DEF AgentTypeOK
<1>4. CASE CancelAllRuns(a)
  <2>1. \A q \in Run : handle'[a][q] = IF q \in Run THEN None ELSE handle[a][q]
    BY <1>4, <1>d DEF CancelAllRuns
  <2>2. \A u \in Task :
          /\ (\E q \in Run : handle[a][q] = u) => task'[a][u] = WithToken(task[a][u], "cancelled")
          /\ (\A q \in Run : handle[a][q] # u) => task'[a][u] = task[a][u]
    BY <1>4, <1>d DEF CancelAllRuns
  <2>3. AgentTypeOK'
    BY AgentTypeStep DEF Inv, Own
  <2> QED BY <2>1, <2>2, <2>3, <1>2, <1>4 DEF AgentTypeOK, CancelAllRuns
<1>5. ASSUME NEW t \in Task, TaskStep(a, t) PROVE Kept2
  <2>a. ASSUME NEW n, task[a][t].phase # "free", task' = [task EXCEPT ![a][t] = n],
               UNCHANGED <<handle, recent>>,
               \/ n.phase # "free" /\ n.run = task[a][t].run /\ n.token = task[a][t].token
               \/ n.phase = "free" /\ task[a][t].token # "live"
        PROVE  Kept2
    <3>1. task'[a] = [task[a] EXCEPT ![t] = n] /\ handle'[a] = handle[a] /\ recent'[a] = recent[a]
      BY <2>a, <1>d
    <3> QED BY <3>1, <2>a, <1>t, AdvanceTables
  <2>b. ASSUME NEW ph, ph # "free", task[a][t].phase # "free", UNCHANGED <<handle, recent>>,
               task' = [task EXCEPT ![a][t] = InPhase(@, ph)]
        PROVE  Kept2
    <3> DEFINE n == InPhase(task[a][t], ph)
    <3>1. n.phase = ph /\ n.run = task[a][t].run /\ n.token = task[a][t].token
      BY DEF InPhase
    <3>2. task' = [task EXCEPT ![a][t] = n]
      BY <2>b, <1>d
    <3> HIDE DEF n, Kept2
    <3> QED BY <3>1, <3>2, <2>b, <2>a
  <2>1. CASE AcquireSlot(a, t)
    BY <2>1, <2>b DEF AcquireSlot
  <2>2. CASE AbandonWait(a, t)
    BY <2>2, <2>a DEF AbandonWait, FreeTask
  <2>3. CASE FinishTask(a, t)
    <3> DEFINE r == task[a][t].run
    <3>1. r \in Run /\ task[a][t].phase # "free"
      BY <2>3, <1>t DEF FinishTask, Tables
    <3>2. \A q \in Run : handle'[a][q] = IF q = r THEN None ELSE handle[a][q]
      BY <2>3, <3>1, <1>d DEF FinishTask
    <3>3. \A u \in Task : task'[a][u] =
            IF u = t THEN FreeTask
            ELSE IF u = handle[a][r] THEN WithToken(task[a][u], "disposed")
            ELSE task[a][u]
      BY <2>3, <1>d DEF FinishTask
    <3>4. recent'[a] = Remember(recent[a], r)
      BY <2>3, <1>d DEF FinishTask
    <3> DEFINE k2 == task'[a]
               h2 == handle'[a]
    <3>5. /\ HandlesAgree(task[a], handle[a]) => HandlesAgree(k2, h2)
          /\ /\ EnoughMemory /\ HandlesAgree(task[a], handle[a])
             /\ OrphansRemembered(task[a], handle[a], recent[a]) /\ OneEach(task[a])
             => OrphansRemembered(k2, h2, Remember(recent[a], task[a][t].run)) /\ OneEach(k2)
      BY <3>1, <3>2, <3>3, <1>t, FinishTables
    <3> QED BY <3>4, <3>5
  <2>4. ASSUME NEW sends, NEW ph, ph # "free", task[a][t].phase # "free", Reports(a, t, sends, ph)
        PROVE  Kept2
    BY <2>4, <2>b DEF Reports
  <2> HIDE DEF Kept2
  <2> QED
    BY <1>5, <2>1, <2>2, <2>3, <2>4
       DEF TaskStep, BeginExecute, RelayProgress, ExecuteCompleted, ExecuteFailed, ExecuteCancelled
<1> HIDE DEF Kept2
<1> QED BY <1>1, <1>3, <1>4, <1>5 DEF AgentStep, Teardown, HandleShutdown

(* Every step of the run system keeps table and tasks in agreement.         *)
LEMMA TableStep ==
    ASSUME Inv, TableInv, [Next]_vars
    PROVE  TableInv' /\ (EnoughMemory /\ DedupeInv => DedupeInv')
<1>1. CASE UNCHANGED agentVars
  BY <1>1 DEF TableInv, DedupeInv, agentVars
<1>2. ASSUME NEW a \in Agent, AgentStep(a) PROVE TableInv' /\ (EnoughMemory /\ DedupeInv => DedupeInv')
  <2>1. ASSUME NEW b \in Agent, b # a
        PROVE  task'[b] = task[b] /\ handle'[b] = handle[b] /\ recent'[b] = recent[b]
    BY <2>1, <1>2, OtherAgents, OtherTables DEF Inv
  <2>2. HandlesAgree(task[a], handle[a])
    BY DEF TableInv
  <2>3. TableInv'
    BY <2>1, <2>2, <1>2, AgentTableStep DEF TableInv
  <2>4. ASSUME EnoughMemory, DedupeInv PROVE DedupeInv'
    <3>1. OrphansRemembered(task[a], handle[a], recent[a]) /\ OneEach(task[a])
      BY <2>4 DEF DedupeInv
    <3>2. OrphansRemembered(task'[a], handle'[a], recent'[a]) /\ OneEach(task'[a])
      BY <3>1, <2>2, <2>4, <1>2, AgentTableStep
    <3> QED BY <3>2, <2>1, <2>4 DEF DedupeInv
  <2> QED BY <2>3, <2>4
<1>3. ASSUME NEW a \in Agent, AgentDies(a)
      PROVE  TableInv' /\ (EnoughMemory /\ DedupeInv => DedupeInv')
  <2>d. /\ task \in [Agent -> [Task -> TaskRecord]] /\ recent \in [Agent -> Seq(Run)]
        /\ handle \in [Agent -> [Run -> Task \cup {None}]]
    BY DEF Inv, TypeOK, AgentTypeOK
  <2>1. ASSUME NEW b \in Agent, b # a
        PROVE  task'[b] = task[b] /\ handle'[b] = handle[b] /\ recent'[b] = recent[b]
    BY <2>1, <2>d, <1>3 DEF AgentDies, AgentCrash
  <2>2. /\ \A t \in Task : task'[a][t].phase = "free"
        /\ \A r \in Run : handle'[a][r] = None
        /\ recent'[a] = <<>>
    BY <2>d, <1>3 DEF AgentDies, AgentCrash, FreeTask
  <2>3. HandlesAgree(task'[a], handle'[a]) /\ OrphansRemembered(task'[a], handle'[a], recent'[a])
        /\ OneEach(task'[a])
    BY <2>2 DEF HandlesAgree, OrphansRemembered, OneEach
  <2> QED BY <2>1, <2>3 DEF TableInv, DedupeInv
<1> QED
  BY <1>1, <1>2, <1>3, Zenon
     DEF Next, SystemStep, vars, Connect, Disconnect, LinkBreaks, ControlPlaneRestarts,
         StampFails, KeyRotated

(* Initially there are no tasks.                                            *)
LEMMA TableInit == Init => TableInv /\ DedupeInv
BY DEF Init, AgentInit, FreeTask, TableInv, DedupeInv, HandlesAgree, OrphansRemembered, OneEach

(* In every reachable state, whatever faults happen, the assignment table   *)
(* of an agent holds exactly the tasks whose source can still be tripped.   *)
THEOREM TablesAgree == Spec => []TableInv
<1>1. Inv /\ TableInv /\ [Next]_vars => TableInv'
  BY TableStep
<1> QED BY <1>1, TableInit, Invariance, PTL DEF Spec

(* As long as the runs fit into the dedupe memory, no mixture of repeated   *)
(* assign_run, cancel_run and shutdown frames, reconnects, restarts and     *)
(* crashes makes an agent execute a run twice at the same time.             *)
THEOREM OneTaskEach ==
    ASSUME EnoughMemory
    PROVE  Spec => []OneTaskPerRun
<1>1. Inv /\ TableInv /\ DedupeInv /\ [Next]_vars => DedupeInv'
  BY TableStep
<1>2. DedupeInv => OneTaskPerRun
  BY DEF DedupeInv, OneEach, OneTaskPerRun
<1> QED BY <1>1, <1>2, TableInit, TablesAgree, Invariance, PTL DEF Spec

(* A step of the control plane neither opens nor closes a connection.       *)
LEMMA ControlLinks ==
    ASSUME ControlStep
    PROVE  UNCHANGED <<conn, open>>
BY Zenon DEF ControlStep, Launch, Cancel, CancelFanOut, Elapse, TryAssignSelect, TryAssignSend,
   TryAssignStamp, RedispatchQuery, RedispatchNext, HandleFrame, OnRunStarted, OnRunProgress,
   OnRunFinished, OnError, Inbound, WatchdogScanRunning, WatchdogReapRunning, WatchdogScanQueued,
   WatchdogReapQueued, wireVars

(* A step of an agent leaves it without a live task, or with the live tasks *)
(* it had, over the same open connection, and perhaps a new one over it.    *)
LEMMA AgentConnectionStep ==
    ASSUME Inv, TableInv, NoneOutlivesItsConnection, NEW a \in Agent, AgentStep(a)
    PROVE  NoneOutlivesItsConnection'
<1>d. /\ task \in [Agent -> [Task -> TaskRecord]] /\ handle \in [Agent -> [Run -> Task \cup {None}]]
      /\ conn \in [Agent -> 0..MaxConns] /\ open \in [Agent -> BOOLEAN]
  BY DEF Inv, TypeOK, AgentTypeOK, WireTypeOK
<1>c. conn' = conn
  BY Zenon DEF AgentStep, HandleAssignRun, HandleCancelRun, HandleShutdown, Teardown, Receives,
     TaskStep, AcquireSlot, AbandonWait, BeginExecute, RelayProgress, ExecuteCompleted,
     ExecuteFailed, ExecuteCancelled, FinishTask, Reports, wireVars
<1> DEFINE Belongs(b, t) == task'[b][t].phase # "free" /\ task'[b][t].token = "live"
                              => open'[b] /\ task'[b][t].conn = conn[b]
<1>o. ASSUME NEW b \in Agent, b # a, NEW t \in Task PROVE Belongs(b, t)
  <2>1. task'[b] = task[b]
    BY <1>o, OtherAgents DEF Inv
  <2>2. open'[b] = open[b]
    <3>1. open' = open \/ open' = [open EXCEPT ![a] = FALSE]
      BY Zenon DEF AgentStep, HandleAssignRun, HandleCancelRun, HandleShutdown, Teardown, Receives,
         TaskStep, AcquireSlot, AbandonWait, BeginExecute, RelayProgress, ExecuteCompleted,
         ExecuteFailed, ExecuteCancelled, FinishTask, Reports, wireVars
    <3> QED BY <3>1, <1>o, <1>d
  <2> QED BY <2>1, <2>2 DEF NoneOutlivesItsConnection
<1>s. SUFFICES ASSUME NEW t \in Task PROVE Belongs(a, t)
  BY <1>o, <1>c DEF NoneOutlivesItsConnection
<1>k. ASSUME open' = open,
             \/ task'[a][t].phase = "free"
             \/ task'[a][t].token # "live"
             \/ /\ task[a][t].phase # "free"
                /\ task'[a][t].token = task[a][t].token /\ task'[a][t].conn = task[a][t].conn
      PROVE  Belongs(a, t)
  BY <1>k DEF NoneOutlivesItsConnection
<1>1. CASE HandleAssignRun(a)
  <2>1. open[a] /\ open' = open
    BY <1>1 DEF HandleAssignRun, Receives
  <2>2. CASE task' = task
    BY <2>1, <2>2 DEF NoneOutlivesItsConnection
  <2>3. ASSUME NEW u \in Task, NEW r,
               task' = [task EXCEPT ![a][u] = [phase |-> "waiting", run |-> r,
                                               conn |-> conn[a], token |-> "live"]]
        PROVE  Belongs(a, t)
    <3>1. CASE t = u
      BY <3>1, <2>1, <2>3, <1>d
    <3>2. CASE t # u
      <4>1. task'[a][t] = task[a][t]
        BY <3>2, <2>3, <1>d
      <4> QED BY <4>1, <2>1 DEF NoneOutlivesItsConnection
    <3> QED BY <3>1, <3>2
  <2> QED BY <1>1, <2>2, <2>3, Zenon DEF HandleAssignRun
<1>2. CASE HandleCancelRun(a)
  <2>1. open' = open
    BY <1>2 DEF HandleCancelRun, Receives
  <2>2. \/ task'[a][t] = task[a][t]
        \/ task'[a][t] = WithToken(task[a][t], "cancelled")
    BY <1>2, <1>d DEF HandleCancelRun
  <2> QED BY <2>1, <2>2 DEF WithToken, NoneOutlivesItsConnection
<1>3. CASE CancelAllRuns(a)
  <2>1. task'[a][t] = IF \E r \in Run : handle[a][r] = t
                      THEN WithToken(task[a][t], "cancelled") ELSE task[a][t]
    BY <1>3, <1>d DEF CancelAllRuns
  <2>2. task[a][t].phase # "free" /\ task[a][t].token = "live"
          => task[a][t].run \in Run /\ handle[a][task[a][t].run] = t
    BY TablesHold DEF TableInv, HandlesAgree, Tables
  <2>3. ~(task'[a][t].phase # "free" /\ task'[a][t].token = "live")
    BY <2>1, <2>2 DEF WithToken
  <2> QED BY <2>3
<1>4. ASSUME NEW u \in Task, TaskStep(a, u) PROVE Belongs(a, t)
  <2>1. open' = open
    BY <1>4, Zenon DEF TaskStep, AcquireSlot, AbandonWait, BeginExecute, RelayProgress,
       ExecuteCompleted, ExecuteFailed, ExecuteCancelled, FinishTask, Reports, wireVars
  <2>a. ASSUME NEW ph, task[a][u].phase # "free", task' = [task EXCEPT ![a][u] = InPhase(@, ph)]
        PROVE  Belongs(a, t)
    <3>1. \/ task'[a][t] = task[a][t]
          \/ u = t /\ task'[a][t] = InPhase(task[a][t], ph)
      BY <2>a, <1>d
    <3> QED BY <3>1, <2>1, <2>a DEF InPhase, NoneOutlivesItsConnection
  <2>2. CASE AcquireSlot(a, u)
    BY <2>2, <2>a DEF AcquireSlot
  <2>3. CASE AbandonWait(a, u)
    <3>1. task'[a][t] = task[a][t] \/ task'[a][t].phase = "free"
      BY <2>3, <1>d DEF AbandonWait, FreeTask
    <3> QED BY <3>1, <2>1 DEF NoneOutlivesItsConnection
  <2>4. CASE FinishTask(a, u)
    <3>1. \/ task'[a][t] = task[a][t]
          \/ task'[a][t].phase = "free"
          \/ task'[a][t].token = "disposed"
      BY <2>4, <1>d DEF FinishTask, FreeTask, WithToken
    <3> QED BY <3>1, <2>1 DEF NoneOutlivesItsConnection
  <2>5. ASSUME NEW sends, NEW ph, task[a][u].phase # "free", Reports(a, u, sends, ph)
        PROVE  Belongs(a, t)
    BY <2>5, <2>a DEF Reports
  <2> HIDE DEF Belongs
  <2> QED
    BY <1>4, <2>2, <2>3, <2>4, <2>5
       DEF TaskStep, BeginExecute, RelayProgress, ExecuteCompleted, ExecuteFailed, ExecuteCancelled
<1> HIDE DEF Belongs
<1> QED BY <1>1, <1>2, <1>3, <1>4 DEF AgentStep, Teardown, HandleShutdown

(* Whatever faults happen, an execution that is not tripped is one that the *)
(* agent's present connection brought: a disconnect aborts them all before  *)
(* the agent dials again, which is why a row that still says running is     *)
(* left to the watchdog.                                                    *)
THEOREM RunsEndWithConnection == Spec => []NoneOutlivesItsConnection
<1>1. Init => NoneOutlivesItsConnection
  BY DEF Init, AgentInit, FreeTask, NoneOutlivesItsConnection
<1>2. Inv /\ TableInv /\ NoneOutlivesItsConnection /\ [Next]_vars => NoneOutlivesItsConnection'
  <2> SUFFICES ASSUME Inv, TableInv, NoneOutlivesItsConnection, [Next]_vars
               PROVE  NoneOutlivesItsConnection'
    OBVIOUS
  <2>d. /\ task \in [Agent -> [Task -> TaskRecord]]
        /\ conn \in [Agent -> 0..MaxConns] /\ open \in [Agent -> BOOLEAN]
    BY DEF Inv, TypeOK, AgentTypeOK, WireTypeOK
  <2>1. CASE UNCHANGED <<task, conn, open>>
    BY <2>1 DEF NoneOutlivesItsConnection
  <2>2. ASSUME NEW a \in Agent, AgentStep(a) PROVE NoneOutlivesItsConnection'
    BY <2>2, AgentConnectionStep
  <2>3. ASSUME NEW a \in Agent, Connect(a) PROVE NoneOutlivesItsConnection'
    BY <2>3, <2>d DEF Connect, agentVars, NoneOutlivesItsConnection
  <2>4. ASSUME NEW a \in Agent, AgentDies(a) PROVE NoneOutlivesItsConnection'
    BY <2>4, <2>d DEF AgentDies, AgentCrash, FreeTask, NoneOutlivesItsConnection
  <2>5. ASSUME ControlStep, UNCHANGED <<agentVars, faults>> PROVE NoneOutlivesItsConnection'
    BY <2>1, <2>5, ControlLinks DEF agentVars
  <2> QED
    BY <2>1, <2>2, <2>3, <2>4, <2>5, Zenon
       DEF Next, SystemStep, vars, wireVars, agentVars, Disconnect, LinkBreaks,
           ControlPlaneRestarts, StampFails, TryAssignStampFails, KeyRotated, RotateKey
<1> QED BY <1>1, <1>2, TablesAgree, Invariance, PTL DEF Spec

-----------------------------------------------------------------------------
(* The frame that assigns r.                                                *)
AssignFrame(r) == [type |-> "assign_run", run |-> r]

(* The places a run can be in at agent a.                                   *)
InTransit(a, r) == \E i \in 1..Len(inbox[a]) : inbox[a][i] = AssignFrame(r)
HasTask(a, r) == \E t \in Task : task[a][t].phase # "free" /\ task[a][t].run = r
Reported(a, r) == \E c \in Conn : \E i \in 1..Len(outbox[a][c]) : outbox[a][c][i].run = r

AtAgent(a, r) == InTransit(a, r) \/ HasTask(a, r) \/ Reported(a, r)

(* The assignment was sent and the row is about to be claimed.              *)
Stamping(r) == \E x \in Dispatcher : op[x].phase = "stamp" /\ op[x].run = r

(* A dispatcher is or may yet be about to assign the run.                   *)
Assignable(r) ==
    \/ run[r].status = "absent"
    \/ run[r].status = "queued" /\ run[r].worker = None /\ ~Stamping(r)
    \/ \E x \in Dispatcher : op[x].phase \in {"select", "send"} /\ op[x].run = r
    \/ \E c \in sweep : c.run = r

(* The inline dispatch and the redispatcher never work on the same run, nor *)
(* does the redispatcher meet a run twice in one sweep.                     *)
DispatchOnce ==
    /\ \A r \in Run : op[r].phase # "idle" =>
         op[r].run = r /\ ~run[r].aged /\ run[r].status # "absent"
    /\ op["redispatch"].phase # "idle" =>
         /\ run[op["redispatch"].run].aged
         /\ run[op["redispatch"].run].status # "absent"
         /\ \A c \in sweep : c.run # op["redispatch"].run
    /\ \A c \in sweep : run[c.run].aged /\ run[c.run].status # "absent"
    /\ \A c, d \in sweep : c.run = d.run => c = d

(* A run that is at an agent cannot be assigned again, is at no other       *)
(* agent, and is or will be claimed by that agent only.                     *)
OnePlace ==
    \A a \in Agent, r \in Run : AtAgent(a, r) =>
        /\ ~Assignable(r)
        /\ \A b \in Agent : AtAgent(b, r) => b = a
        /\ run[r].worker \in {None, a}
        /\ \A x \in Dispatcher : op[x].phase = "stamp" /\ op[x].run = r => op[x].target = a

(* The frames q hold at most one assignment of r.                           *)
Once(q, r) ==
    \A i, j \in 1..Len(q) : q[i] = AssignFrame(r) /\ q[j] = AssignFrame(r) => i = j

(* An agent has a run once: as one frame or as one task.                    *)
OneCopy ==
    \A a \in Agent, r \in Run :
        /\ Once(inbox[a], r)
        /\ InTransit(a, r) => ~HasTask(a, r)
        /\ \A t, u \in Task : /\ task[a][t].phase # "free" /\ task[a][t].run = r
                              /\ task[a][u].phase # "free" /\ task[a][u].run = r
                              => t = u

(* No task has lost its token source.                                       *)
NoOrphans == \A a \in Agent, t \in Task :
    task[a][t].phase # "free" => task[a][t].token # "disposed"

(* While a run can be assigned, nobody has claimed it.                      *)
Unclaimed == \A r \in Run : Assignable(r) => run[r].worker = None

(* The inductive invariant.                                                 *)
PlaceInv == DispatchOnce /\ Unclaimed /\ OnePlace /\ OneCopy /\ NoOrphans

-----------------------------------------------------------------------------
(* Distinct dispatchers at work have distinct runs, and none of them is     *)
(* still a candidate of the sweep.                                          *)
LEMMA UniqueOps ==
    ASSUME Inv, DispatchOnce, NEW x \in Dispatcher, op[x].phase # "idle"
    PROVE  /\ op[x].run \in Run /\ run[op[x].run].status # "absent"
           /\ \A y \in Dispatcher : op[y].phase # "idle" /\ op[y].run = op[x].run => y = x
           /\ \A c \in sweep : c.run # op[x].run
<1>1. op[x].run \in Run
  BY DEF Inv, Own, OwnOps
<1>2. CASE x \in Run
  BY <1>1, <1>2 DEF DispatchOnce, Dispatcher
<1>3. CASE x = "redispatch"
  BY <1>1, <1>3 DEF DispatchOnce, Dispatcher
<1> QED BY <1>2, <1>3 DEF Dispatcher

(* What a step must do for DispatchOnce to be kept when it leaves the       *)
(* requests in progress alone or only ends or advances one of them.         *)
LEMMA DispatchKept ==
    ASSUME Inv, DispatchOnce, sweep' \subseteq sweep,
           \A r \in Run : /\ run'[r].aged = run[r].aged \/ (run'[r].aged /\ op[r].phase = "idle")
                          /\ run[r].status # "absent" => run'[r].status # "absent",
           \A x \in Dispatcher : op'[x].phase # "idle" =>
                                   op[x].phase # "idle" /\ op'[x].run = op[x].run
    PROVE  DispatchOnce'
<1>1. \A x \in Dispatcher : op[x].phase # "idle" => op[x].run \in Run
  BY DEF Inv, Own, OwnOps
<1>2. \A c \in sweep : c.run \in Run
  BY DEF Inv, TypeOK, ControlTypeOK, Candidate
<1>3. "redispatch" \in Dispatcher /\ \A r \in Run : r \in Dispatcher
  BY DEF Dispatcher
<1>4. \A r \in Run : op'[r].phase # "idle" =>
         op'[r].run = r /\ ~run'[r].aged /\ run'[r].status # "absent"
  BY <1>3 DEF DispatchOnce
<1>a. \A r \in Run : run[r].aged => run'[r].aged
  OBVIOUS
<1>5. op'["redispatch"].phase # "idle" =>
         /\ run'[op'["redispatch"].run].aged
         /\ run'[op'["redispatch"].run].status # "absent"
         /\ \A c \in sweep' : c.run # op'["redispatch"].run
  BY <1>1, <1>3, <1>a DEF DispatchOnce
<1>6. /\ \A c \in sweep' : run'[c.run].aged /\ run'[c.run].status # "absent"
      /\ \A c, d \in sweep' : c.run = d.run => c = d
  BY <1>2, <1>a DEF DispatchOnce
<1> QED BY <1>4, <1>5, <1>6 DEF DispatchOnce

(* A control-plane step keeps DispatchOnce when an inline dispatch always   *)
(* ends before its run counts as aged.                                      *)
LEMMA ControlDispatchStep ==
    ASSUME Inv, PromptDispatch, DispatchOnce, ControlStep
    PROVE  DispatchOnce'
<1>t. /\ run \in [Run -> RunRow] /\ op \in [Dispatcher -> Op] /\ sweep \subseteq Candidate
      /\ "redispatch" \in Dispatcher /\ \A r \in Run : r \in Dispatcher /\ r # "redispatch"
  BY ControlAssumption DEF Inv, TypeOK, ControlTypeOK, Dispatcher
<1>k. ASSUME UNCHANGED <<op, sweep>>,
             \A r \in Run : /\ run'[r].aged = run[r].aged
                            /\ run[r].status # "absent" => run'[r].status # "absent"
      PROVE  DispatchOnce'
  BY <1>k, DispatchKept
<1>e. ASSUME NEW r \in Run, NEW s, s # "absent", run' = [run EXCEPT ![r].status = s],
             UNCHANGED <<op, sweep>>
      PROVE  DispatchOnce'
  <2>1. \A q \in Run : /\ run'[q].aged = run[q].aged
                       /\ run[q].status # "absent" => run'[q].status # "absent"
    BY <1>e, <1>t DEF RunRow
  <2> QED BY <2>1, <1>e, <1>k
<1>u. ASSUME UNCHANGED <<run, op, sweep>> PROVE DispatchOnce'
  BY <1>u, <1>k
<1>i. ASSUME NEW x \in Dispatcher, op[x].phase # "idle", NEW o, op' = [op EXCEPT ![x] = o],
             o.phase = "idle" \/ o.run = op[x].run, UNCHANGED <<run, sweep>>
      PROVE  DispatchOnce'
  BY <1>i, <1>t, DispatchKept
<1>1. ASSUME NEW r \in Run, Launch(r) PROVE DispatchOnce'
  <2>1. /\ run'[r].status # "absent" /\ ~run'[r].aged /\ sweep' = sweep
        /\ \A q \in Run : q # r => run'[q] = run[q]
    BY <1>1, <1>t DEF Launch, QueuedRow
  <2>2. /\ op'[r] = op[r] \/ (op'[r].phase = "select" /\ op'[r].run = r)
        /\ \A x \in Dispatcher : x # r => op'[x] = op[x]
    BY <1>1, <1>t DEF Launch, Attempt
  <2>3. run[r].status = "absent"
    BY <1>1 DEF Launch
  <2>4. op[r].phase = "idle" /\ \A c \in sweep : c.run # r
    BY <2>3 DEF DispatchOnce
  <2>5. op["redispatch"].phase # "idle" => op["redispatch"].run # r /\ op["redispatch"].run \in Run
    BY <2>3, <1>t DEF DispatchOnce, Inv, Own, OwnOps
  <2>6. op'["redispatch"] = op["redispatch"] /\ \A c \in sweep : c.run \in Run
    BY <2>2, <1>t DEF Candidate
  <2>7. \A q \in Run : op'[q].phase # "idle" =>
          op'[q].run = q /\ ~run'[q].aged /\ run'[q].status # "absent"
    BY <2>1, <2>2, <2>4, <1>t DEF DispatchOnce
  <2>8. op'["redispatch"].phase # "idle" =>
          /\ run'[op'["redispatch"].run].aged
          /\ run'[op'["redispatch"].run].status # "absent"
          /\ \A c \in sweep' : c.run # op'["redispatch"].run
    BY <2>1, <2>5, <2>6 DEF DispatchOnce
  <2>9. /\ \A c \in sweep' : run'[c.run].aged /\ run'[c.run].status # "absent"
        /\ \A c, d \in sweep' : c.run = d.run => c = d
    BY <2>1, <2>4, <2>6 DEF DispatchOnce
  <2> QED BY <2>7, <2>8, <2>9 DEF DispatchOnce
<1>2. ASSUME NEW r \in Run, Elapse(r) PROVE DispatchOnce'
  <2>1. UNCHANGED <<op, sweep>>
    BY <1>2 DEF Elapse
  <2>2. \A q \in Run : /\ run'[q].aged = run[q].aged \/ (run'[q].aged /\ op[q].phase = "idle")
                       /\ run[q].status # "absent" => run'[q].status # "absent"
    BY <1>2, <1>t DEF Elapse, RunRow
  <2> QED BY <2>1, <2>2, DispatchKept
<1>3. ASSUME NEW x \in Dispatcher, TryAssignSelect(x) PROVE DispatchOnce'
  BY <1>3, <1>i DEF TryAssignSelect, Idle, Chosen
<1>4. ASSUME NEW x \in Dispatcher, TryAssignSend(x) PROVE DispatchOnce'
  <2>1. \A y \in Dispatcher : op'[y].phase # "idle" => op[y].phase # "idle" /\ op'[y].run = op[y].run
    BY <1>4, <1>t DEF TryAssignSend, Idle, Op
  <2> QED BY <2>1, <1>4, DispatchKept DEF TryAssignSend
<1>5. ASSUME NEW x \in Dispatcher, TryAssignStamp(x) PROVE DispatchOnce'
  <2>1. \A y \in Dispatcher : op'[y].phase # "idle" => op[y].phase # "idle" /\ op'[y].run = op[y].run
    BY <1>5, <1>t DEF TryAssignStamp, Idle, Op
  <2>2. \A q \in Run : /\ run'[q].aged = run[q].aged
                       /\ run[q].status # "absent" => run'[q].status # "absent"
    BY <1>5, <1>t DEF TryAssignStamp, ClaimedBy
  <2> QED BY <2>1, <2>2, <1>5, DispatchKept DEF TryAssignStamp
<1>6. ASSUME RedispatchQuery PROVE DispatchOnce'
  <2>1. \A c \in sweep' : c.run \in Run /\ run[c.run].aged /\ run[c.run].status = "queued"
                          /\ c = [run |-> c.run, tester |-> run[c.run].tester]
    BY <1>6 DEF RedispatchQuery
  <2>2. UNCHANGED <<run, op>> /\ op["redispatch"].phase = "idle"
    BY <1>6 DEF RedispatchQuery
  <2> QED BY <2>1, <2>2 DEF DispatchOnce
<1>7. ASSUME RedispatchNext PROVE DispatchOnce'
  <2>1. PICK c \in sweep : sweep' = sweep \ {c} /\ op' = [op EXCEPT !["redispatch"] = Attempt(c)]
    BY <1>7 DEF RedispatchNext
  <2>2. op'["redispatch"].run = c.run /\ \A r \in Run : op'[r] = op[r]
    BY <2>1, <1>t DEF Attempt
  <2>3. run' = run
    BY <1>7 DEF RedispatchNext
  <2> QED BY <2>1, <2>2, <2>3 DEF DispatchOnce
<1>8. ASSUME NEW a \in Agent, NEW c \in Conn, HandleFrame(a, c) PROVE DispatchOnce'
  <2> DEFINE f == Head(outbox[a][c])
  <2>1. f \in AgentFrame
    <3>1. outbox[a][c] # <<>>
      BY <1>8, Zenon
         DEF HandleFrame, OnRunStarted, OnRunProgress, OnRunFinished, OnError, Inbound
    <3>2. outbox[a][c] \in Seq(AgentFrame)
      BY DEF Inv, TypeOK, WireTypeOK
    <3> QED BY <3>1, <3>2
  <2>2. f.run \in Run
    BY <2>1 DEF AgentFrame
  <2>3. CASE OnRunStarted(a, c)
    <3>1. \A q \in Run : /\ run'[q].aged = run[q].aged
                         /\ run[q].status # "absent" => run'[q].status # "absent"
      BY <2>3, <2>2, <1>t DEF OnRunStarted, StartedBy
    <3> QED BY <3>1, <2>3, <1>k DEF OnRunStarted, Inbound
  <2>4. CASE OnRunProgress(a, c)
    <3>1. \A q \in Run : /\ run'[q].aged = run[q].aged
                         /\ run[q].status # "absent" => run'[q].status # "absent"
      BY <2>4, <2>2, <1>t DEF OnRunProgress, RunRow
    <3> QED BY <3>1, <2>4, <1>k DEF OnRunProgress, Inbound
  <2>5. CASE OnRunFinished(a, c)
    BY <2>5, <2>2, <1>e, <1>u DEF OnRunFinished, Inbound, TerminalStatus
  <2>6. CASE OnError(a, c)
    BY <2>6, <2>2, <1>e, <1>u DEF OnError, Inbound
  <2> QED BY <2>3, <2>4, <2>5, <2>6, <1>8 DEF HandleFrame
<1>9. ASSUME NEW s \in stale, WatchdogReapRunning(s) PROVE DispatchOnce'
  <2>1. s.run \in Run
    BY DEF Inv, TypeOK, ControlTypeOK, Snapshot
  <2> QED BY <2>1, <1>9, <1>e, <1>u DEF WatchdogReapRunning
<1>10. ASSUME NEW r \in stuck, WatchdogReapQueued(r) PROVE DispatchOnce'
  <2>1. r \in Run
    BY DEF Inv, TypeOK, ControlTypeOK
  <2> QED BY <2>1, <1>10, <1>e, <1>u DEF WatchdogReapQueued
<1>11. ASSUME NEW r \in Run, Cancel(r) PROVE DispatchOnce'
  BY <1>11, <1>e DEF Cancel
<1> QED
  BY <1>1, <1>2, <1>3, <1>4, <1>5, <1>6, <1>7, <1>8, <1>9, <1>10, <1>11, <1>u, Zenon
     DEF ControlStep, CancelFanOut, WatchdogScanRunning, WatchdogScanQueued

(* How worker_id may change in a step: a launch leaves it empty, a claim    *)
(* writes the target and ends the last attempt on the run, a run_started    *)
(* writes the agent it came from.                                           *)
WorkerMove(r) ==
    \/ run'[r].worker = run[r].worker
    \/ run[r].status = "absent" /\ run'[r].worker = None
    \/ /\ ~Assignable(r)'
       /\ \E x \in Dispatcher : /\ op[x].phase = "stamp" /\ op[x].run = r
                                /\ run'[r].worker = op[x].target
    \/ \E a \in Agent : Reported(a, r) /\ run'[r].worker = a

(* A claim is due for a run only where its assignment has just been sent.   *)
StampMove(r) ==
    \A x \in Dispatcher : op'[x].phase = "stamp" /\ op'[x].run = r =>
        op[x].phase \in {"send", "stamp"} /\ op[x].run = r /\ op'[x].target = op[x].target

(* No step makes a run assignable again.                                    *)
DispatchEffect(r) == (Assignable(r)' => Assignable(r)) /\ WorkerMove(r) /\ StampMove(r)

(* The effect of steps that leave the requests in progress alone.           *)
LEMMA RowEffect ==
    ASSUME NEW r \in Run, UNCHANGED <<op, sweep>>,
           run'[r].status = "absent" => run[r].status = "absent",
           run'[r].status = "queued" => run[r].status = "queued",
           run'[r].worker = run[r].worker \/ (run'[r].worker # None /\ WorkerMove(r))
    PROVE  DispatchEffect(r)
<1>1. Stamping(r)' = Stamping(r)
  BY DEF Stamping
<1>2. Assignable(r)' => Assignable(r)
  BY <1>1 DEF Assignable
<1> QED BY <1>2 DEF DispatchEffect, StampMove, WorkerMove

(* Every step of the control plane has that effect on every run.            *)
LEMMA ControlDispatchEffect ==
    ASSUME Inv, DispatchOnce, ControlStep, NEW r \in Run
    PROVE  DispatchEffect(r)
<1>t. /\ run \in [Run -> RunRow] /\ op \in [Dispatcher -> Op] /\ sweep \subseteq Candidate
      /\ "redispatch" \in Dispatcher /\ \A q \in Run : q \in Dispatcher /\ q # "redispatch"
  BY ControlAssumption DEF Inv, TypeOK, ControlTypeOK, Dispatcher
<1>u. ASSUME UNCHANGED <<run, op, sweep>> PROVE DispatchEffect(r)
  BY <1>u, RowEffect
<1>e. ASSUME NEW q \in Run, NEW s, s \notin {"absent", "queued"}, run' = [run EXCEPT ![q].status = s],
             UNCHANGED <<op, sweep>>
      PROVE  DispatchEffect(r)
  <2>1. /\ run'[r].status = "absent" => run[r].status = "absent"
        /\ run'[r].status = "queued" => run[r].status = "queued"
        /\ run'[r].worker = run[r].worker
    BY <1>e, <1>t DEF RunRow
  <2> QED BY <2>1, <1>e, RowEffect
<1>o. ASSUME NEW x \in Dispatcher, NEW o, op' = [op EXCEPT ![x] = o], UNCHANGED <<run, sweep>>,
             op[x].phase \in {"select", "send"},
             o.phase = "idle" \/ (o.run = op[x].run /\ o.phase = "send")
      PROVE  DispatchEffect(r)
  <2>1. /\ op'[x] = o /\ \A y \in Dispatcher : y # x => op'[y] = op[y]
    BY <1>o, <1>t
  <2>2. Stamping(r)' = Stamping(r)
    BY <2>1, <1>o DEF Stamping
  <2>3. Assignable(r)' => Assignable(r)
    BY <2>1, <2>2, <1>o DEF Assignable
  <2>4. StampMove(r)
    BY <2>1, <1>o DEF StampMove
  <2> QED BY <2>3, <2>4, <1>o DEF DispatchEffect, WorkerMove
<1>1. ASSUME NEW q \in Run, Launch(q) PROVE DispatchEffect(r)
  <2>1. /\ run'[q].worker = None /\ sweep' = sweep /\ run[q].status = "absent"
        /\ \A p \in Run : p # q => run'[p] = run[p]
    BY <1>1, <1>t DEF Launch, QueuedRow
  <2>2. /\ op'[q] = op[q] \/ (op'[q].phase = "select" /\ op'[q].run = q)
        /\ \A x \in Dispatcher : x # q => op'[x] = op[x]
    BY <1>1, <1>t DEF Launch, Attempt
  <2>3. op[q].phase = "idle"
    BY <2>1 DEF DispatchOnce
  <2>4. WorkerMove(r)
    BY <2>1 DEF WorkerMove
  <2>5. StampMove(r)
    BY <2>2 DEF StampMove
  <2>6. CASE r = q
    BY <2>6, <2>1, <2>4, <2>5 DEF Assignable, DispatchEffect
  <2>7. CASE r # q
    <3>1. Stamping(r)' = Stamping(r)
      BY <2>2, <2>3 DEF Stamping
    <3>2. Assignable(r)' => Assignable(r)
      BY <3>1, <2>1, <2>2, <2>7 DEF Assignable
    <3> QED BY <3>2, <2>4, <2>5 DEF DispatchEffect
  <2> QED BY <2>6, <2>7
<1>2. ASSUME NEW q \in Run, Elapse(q) PROVE DispatchEffect(r)
  <2>1. run'[r].status = run[r].status /\ run'[r].worker = run[r].worker
    BY <1>2, <1>t DEF Elapse, RunRow
  <2> QED BY <2>1, <1>2, RowEffect DEF Elapse
<1>3. ASSUME NEW x \in Dispatcher, TryAssignSelect(x) PROVE DispatchEffect(r)
  BY <1>3, <1>o DEF TryAssignSelect, Idle, Chosen
<1>4. ASSUME NEW x \in Dispatcher, TryAssignSend(x) PROVE DispatchEffect(r)
  <2>1. CASE op' = [op EXCEPT ![x] = Idle]
    BY <2>1, <1>4, <1>o DEF TryAssignSend, Idle
  <2>2. CASE op' = [op EXCEPT ![x].phase = "stamp"]
    <3>1. /\ op'[x].phase = "stamp" /\ op'[x].run = op[x].run /\ op'[x].target = op[x].target
          /\ \A y \in Dispatcher : y # x => op'[y] = op[y]
      BY <2>2, <1>t DEF Op
    <3>2. op[x].phase = "send" /\ UNCHANGED <<run, sweep>>
      BY <1>4 DEF TryAssignSend
    <3>3. Stamping(r) => Stamping(r)'
      BY <3>1 DEF Stamping
    <3>4. Assignable(r)' => Assignable(r)
      BY <3>1, <3>2, <3>3 DEF Assignable
    <3>5. StampMove(r)
      BY <3>1, <3>2 DEF StampMove
    <3> QED BY <3>2, <3>4, <3>5 DEF DispatchEffect, WorkerMove
  <2> QED BY <2>1, <2>2, <1>4 DEF TryAssignSend
<1>5. ASSUME NEW x \in Dispatcher, TryAssignStamp(x) PROVE DispatchEffect(r)
  <2>1. /\ op'[x].phase = "idle" /\ \A y \in Dispatcher : y # x => op'[y] = op[y]
        /\ sweep' = sweep /\ op[x].phase = "stamp"
    BY <1>5, <1>t DEF TryAssignStamp, Idle
  <2>2. op[x].target \in Agent /\ op[x].run \in Run /\ None \notin Agent
    BY <2>1, WireAssumption DEF Inv, Own, OwnOps
  <2>3. StampMove(r)
    BY <2>1 DEF StampMove
  <2>4. CASE r = op[x].run
    <3>1. \/ run'[r].worker = op[x].target /\ run'[r].status = run[r].status
          \/ run' = run /\ run[r].status # "queued"
      BY <2>2, <2>4, <1>5, <1>t DEF TryAssignStamp, ClaimedBy, Live
    <3>2. /\ run[r].status # "absent" /\ \A c \in sweep : c.run # r
          /\ \A y \in Dispatcher : op[y].phase # "idle" /\ op[y].run = r => y = x
      BY <2>1, <2>4, UniqueOps
    <3>3. ~Assignable(r)'
      BY <3>1, <3>2, <2>1, <2>2 DEF Assignable
    <3>4. WorkerMove(r)
      BY <3>1, <3>3, <2>1, <2>4 DEF WorkerMove
    <3> QED BY <3>3, <3>4, <2>3 DEF DispatchEffect
  <2>5. CASE r # op[x].run
    <3>1. run'[r] = run[r]
      BY <2>2, <2>5, <1>5, <1>t DEF TryAssignStamp
    <3>2. Stamping(r)' = Stamping(r)
      BY <2>1, <2>5 DEF Stamping
    <3>3. Assignable(r)' => Assignable(r)
      BY <3>1, <3>2, <2>1 DEF Assignable
    <3> QED BY <3>1, <3>3, <2>3 DEF DispatchEffect, WorkerMove
  <2> QED BY <2>4, <2>5
<1>6. ASSUME RedispatchQuery PROVE DispatchEffect(r)
  <2>1. \A c \in sweep' : c.run \in Run /\ run[c.run].aged /\ run[c.run].status = "queued"
                          /\ run[c.run].worker = None
    BY <1>6 DEF RedispatchQuery
  <2>2. UNCHANGED <<run, op>> /\ op["redispatch"].phase = "idle"
    BY <1>6 DEF RedispatchQuery
  <2>3. ASSUME NEW c \in sweep', c.run = r PROVE Assignable(r)
    <3>1. ~Stamping(r)
      BY <2>1, <2>2, <2>3, <1>t DEF Stamping, DispatchOnce, Dispatcher
    <3> QED BY <3>1, <2>1, <2>3 DEF Assignable
  <2>4. Stamping(r)' = Stamping(r)
    BY <2>2 DEF Stamping
  <2>5. Assignable(r)' => Assignable(r)
    BY <2>2, <2>3, <2>4 DEF Assignable
  <2> QED BY <2>2, <2>5 DEF DispatchEffect, WorkerMove, StampMove
<1>7. ASSUME RedispatchNext PROVE DispatchEffect(r)
  <2>1. PICK c \in sweep : sweep' = sweep \ {c} /\ op' = [op EXCEPT !["redispatch"] = Attempt(c)]
    BY <1>7 DEF RedispatchNext
  <2>2. op'["redispatch"].run = c.run /\ op'["redispatch"].phase = "select"
        /\ \A x \in Dispatcher : x # "redispatch" => op'[x] = op[x]
    BY <2>1, <1>t DEF Attempt
  <2>3. run' = run /\ op["redispatch"].phase = "idle"
    BY <1>7 DEF RedispatchNext
  <2>4. Stamping(r)' = Stamping(r)
    BY <2>2, <2>3 DEF Stamping
  <2>5. Assignable(r)' => Assignable(r)
    BY <2>1, <2>2, <2>3, <2>4 DEF Assignable
  <2>6. StampMove(r)
    BY <2>2 DEF StampMove
  <2> QED BY <2>3, <2>5, <2>6 DEF DispatchEffect, WorkerMove
<1>8. ASSUME NEW a \in Agent, NEW c \in Conn, HandleFrame(a, c) PROVE DispatchEffect(r)
  <2> DEFINE f == Head(outbox[a][c])
  <2>1. outbox[a][c] \in Seq(AgentFrame) /\ outbox[a][c] # <<>>
    <3>1. outbox[a][c] # <<>>
      BY <1>8, Zenon
         DEF HandleFrame, OnRunStarted, OnRunProgress, OnRunFinished, OnError, Inbound
    <3> QED BY <3>1 DEF Inv, TypeOK, WireTypeOK
  <2>2. f \in AgentFrame /\ f = outbox[a][c][1] /\ 1 \in 1..Len(outbox[a][c])
    BY <2>1
  <2>3. f.run \in Run /\ Reported(a, f.run)
    BY <2>2 DEF AgentFrame, Reported
  <2>4. UNCHANGED <<op, sweep>>
    BY <1>8, Zenon
       DEF HandleFrame, OnRunStarted, OnRunProgress, OnRunFinished, OnError, Inbound
  <2>5. CASE OnRunStarted(a, c)
    <3>1. \/ run'[r] = run[r]
          \/ r = f.run /\ run'[r].worker = a /\ run'[r].status = "running"
      BY <2>5, <2>3, <1>t DEF OnRunStarted, StartedBy
    <3>2. CASE run'[r] = run[r]
      BY <3>2, <2>4, RowEffect
    <3>3. CASE r = f.run /\ run'[r].worker = a /\ run'[r].status = "running"
      <4>1. WorkerMove(r) /\ run'[r].worker # None
        BY <3>3, <2>3, WireAssumption DEF WorkerMove
      <4> QED BY <4>1, <3>3, <2>4, RowEffect
    <3> QED BY <3>1, <3>2, <3>3
  <2>6. CASE OnRunProgress(a, c)
    <3>1. run'[r].status = run[r].status /\ run'[r].worker = run[r].worker
      BY <2>6, <2>3, <1>t, SMTT(20) DEF OnRunProgress, RunRow
    <3> QED BY <3>1, <2>4, RowEffect
  <2>7. CASE OnRunFinished(a, c)
    BY <2>7, <2>3, <2>4, <1>e, <1>u, SMTT(20) DEF OnRunFinished, TerminalStatus
  <2>8. CASE OnError(a, c)
    BY <2>8, <2>3, <2>4, <1>e, <1>u DEF OnError
  <2> QED BY <2>5, <2>6, <2>7, <2>8, <1>8 DEF HandleFrame
<1>9. ASSUME NEW s \in stale, WatchdogReapRunning(s) PROVE DispatchEffect(r)
  <2>1. s.run \in Run
    BY DEF Inv, TypeOK, ControlTypeOK, Snapshot
  <2> QED BY <2>1, <1>9, <1>e, <1>u DEF WatchdogReapRunning
<1>10. ASSUME NEW q \in stuck, WatchdogReapQueued(q) PROVE DispatchEffect(r)
  <2>1. q \in Run
    BY DEF Inv, TypeOK, ControlTypeOK
  <2> QED BY <2>1, <1>10, <1>e, <1>u DEF WatchdogReapQueued
<1>11. ASSUME NEW q \in Run, Cancel(q) PROVE DispatchEffect(r)
  <2>1. run' = [run EXCEPT ![q].status = "cancelled"] /\ UNCHANGED <<op, sweep>>
    BY <1>11 DEF Cancel
  <2>2. "cancelled" \notin {"absent", "queued"}
    OBVIOUS
  <2> QED BY <2>1, <2>2, <1>e
<1> QED
  BY <1>1, <1>2, <1>3, <1>4, <1>5, <1>6, <1>7, <1>8, <1>9, <1>10, <1>11, <1>u, Zenon
     DEF ControlStep, CancelFanOut, WatchdogScanRunning, WatchdogScanQueued

(* Once its assign_run is on the way, nothing can assign the run again.     *)
LEMMA SentIsAssigned ==
    ASSUME Inv, DispatchOnce, NEW x \in Dispatcher, TryAssignSend(x),
           op' = [op EXCEPT ![x].phase = "stamp"],
           NEW r \in Run, r = op[x].run
    PROVE  ~Assignable(r)'
<1>t. op \in [Dispatcher -> Op]
  BY DEF Inv, TypeOK, ControlTypeOK
<1>1. /\ op'[x].phase = "stamp" /\ op'[x].run = r /\ \A y \in Dispatcher : y # x => op'[y] = op[y]
      /\ UNCHANGED <<run, sweep>> /\ op[x].phase = "send"
  BY <1>t DEF TryAssignSend, Op
<1>2. /\ run[r].status # "absent" /\ \A c \in sweep : c.run # r
      /\ \A y \in Dispatcher : op[y].phase # "idle" /\ op[y].run = r => y = x
  BY <1>1, UniqueOps
<1>3. Stamping(r)'
  BY <1>1 DEF Stamping
<1> QED BY <1>1, <1>2, <1>3 DEF Assignable

-----------------------------------------------------------------------------
(* The elements of the sequences that a step builds from a sequence.        *)
LEMMA AppendElements ==
    ASSUME NEW S, NEW q \in Seq(S), NEW e \in S, NEW i \in 1..Len(Append(q, e))
    PROVE  \/ i \in 1..Len(q) /\ Append(q, e)[i] = q[i]
           \/ i = Len(q) + 1 /\ Append(q, e)[i] = e
OBVIOUS

(* What is left of a queue after its head was taken.                        *)
LEMMA TailElements ==
    ASSUME NEW S, NEW q \in Seq(S), q # <<>>, NEW i \in 1..Len(Tail(q))
    PROVE  i + 1 \in 1..Len(q) /\ Tail(q)[i] = q[i + 1]
OBVIOUS

(* What a connection that breaks still delivers.                            *)
LEMMA PrefixElements ==
    ASSUME NEW S, NEW q \in Seq(S), NEW p \in Prefixes(q), NEW i \in 1..Len(p)
    PROVE  i \in 1..Len(q) /\ p[i] = q[i]
BY DEF Prefixes

(* What several frames sent at once add to a queue.                         *)
LEMMA ConcatElements ==
    ASSUME NEW S, NEW q \in Seq(S), NEW p \in Seq(S), NEW i \in 1..Len(q \o p)
    PROVE  \/ i \in 1..Len(q) /\ (q \o p)[i] = q[i]
           \/ i - Len(q) \in 1..Len(p) /\ (q \o p)[i] = p[i - Len(q)]
OBVIOUS

(* This step sends the assignment of r to a.                                *)
Sending(a, r) ==
    \E x \in Dispatcher : /\ TryAssignSend(x) /\ op[x].run = r /\ op[x].target = a
                          /\ op' = [op EXCEPT ![x].phase = "stamp"]

(* A frame sent to b brings a run to b only when it is its assign_run.      *)
LEMMA SendPlace ==
    ASSUME Inv, NEW b \in Agent, NEW f \in ControlFrame, Send(b, f), NEW a \in Agent, NEW r \in Run
    PROVE  InTransit(a, r)' => InTransit(a, r) \/ (a = b /\ f = AssignFrame(r))
<1>1. inbox \in [Agent -> Seq(ControlFrame)]
  BY DEF Inv, TypeOK, WireTypeOK
<1>2. CASE inbox'[a] = inbox[a]
  BY <1>2 DEF InTransit
<1>3. CASE a = b /\ inbox'[a] = Append(inbox[a], f)
  BY <1>1, <1>3, AppendElements DEF InTransit
<1> QED BY <1>1, <1>2, <1>3 DEF Send

(* Processing a frame leaves only frames that were there before.            *)
LEMMA InboundPlace ==
    ASSUME Inv, NEW b \in Agent, NEW c \in Conn, NEW type, Inbound(b, c, type),
           NEW a \in Agent, NEW r \in Run
    PROVE  Reported(a, r)' => Reported(a, r)
<1>1. outbox \in [Agent -> [Conn -> Seq(AgentFrame)]]
  BY DEF Inv, TypeOK, WireTypeOK
<1>2. outbox' = [outbox EXCEPT ![b][c] = Tail(outbox[b][c])] /\ outbox[b][c] # <<>>
  BY <1>1 DEF Inbound
<1>3. ASSUME NEW d \in Conn, NEW i \in 1..Len(outbox'[a][d]), outbox'[a][d][i].run = r
      PROVE  Reported(a, r)
  <2>1. CASE outbox'[a][d] = outbox[a][d]
    BY <1>3, <2>1 DEF Reported
  <2>2. CASE a = b /\ d = c /\ outbox'[a][d] = Tail(outbox[a][d])
    <3>1. i + 1 \in 1..Len(outbox[a][d]) /\ outbox'[a][d][i] = outbox[a][d][i + 1]
      BY <1>1, <1>2, <1>3, <2>2, TailElements
    <3> QED BY <3>1, <1>3 DEF Reported
  <2> QED BY <1>1, <1>2, <2>1, <2>2
<1> QED BY <1>3 DEF Reported

(* Only TryAssignAsync's send brings a run to an agent.                     *)
LEMMA ControlPlace ==
    ASSUME Inv, ControlStep, UNCHANGED agentVars, NEW a \in Agent, NEW r \in Run
    PROVE  AtAgent(a, r)' => AtAgent(a, r) \/ Sending(a, r)
<1>k. HasTask(a, r)' = HasTask(a, r)
  BY DEF HasTask, agentVars
<1>u. ASSUME UNCHANGED wireVars PROVE AtAgent(a, r)' => AtAgent(a, r)
  BY <1>u, <1>k DEF AtAgent, InTransit, Reported, wireVars
<1>o. ASSUME UNCHANGED outbox PROVE Reported(a, r)' = Reported(a, r)
  BY <1>o DEF Reported
<1>1. ASSUME NEW x \in Dispatcher, TryAssignSend(x)
      PROVE  AtAgent(a, r)' => AtAgent(a, r) \/ Sending(a, r)
  <2>1. op[x].target \in Agent /\ op[x].run \in Run
    BY <1>1 DEF TryAssignSend, Inv, Own, OwnOps
  <2>2. AssignFrame(op[x].run) \in ControlFrame
    BY <2>1 DEF AssignFrame, ControlFrame
  <2>3. CASE UNCHANGED inbox
    BY <2>3, <1>1, <1>u DEF TryAssignSend, wireVars
  <2>4. CASE /\ Send(op[x].target, AssignFrame(op[x].run))
             /\ op' = [op EXCEPT ![x].phase = "stamp"]
    <3>1. Send(op[x].target, AssignFrame(op[x].run)) /\ outbox' = outbox
      BY <2>4, <1>1 DEF TryAssignSend, AssignFrame
    <3>2. InTransit(a, r)' =>
            InTransit(a, r) \/ (a = op[x].target /\ AssignFrame(op[x].run) = AssignFrame(r))
      BY <3>1, <2>1, <2>2, SendPlace
    <3>3. AssignFrame(op[x].run) = AssignFrame(r) => op[x].run = r
      BY DEF AssignFrame
    <3>4. InTransit(a, r)' => InTransit(a, r) \/ Sending(a, r)
      BY <3>2, <3>3, <2>4, <1>1 DEF Sending
    <3> QED BY <3>1, <3>4, <1>k, <1>o DEF AtAgent
  <2> QED BY <2>3, <2>4, <1>1 DEF TryAssignSend, AssignFrame
<1>2. ASSUME NEW q \in Run, CancelFanOut(q) PROVE AtAgent(a, r)' => AtAgent(a, r)
  <2>1. CASE UNCHANGED inbox
    BY <2>1, <1>2, <1>k, <1>o DEF CancelFanOut, AtAgent, InTransit
  <2>2. ASSUME NEW b \in CancelTargets(q), Send(b, [type |-> "cancel_run", run |-> q])
        PROVE  AtAgent(a, r)' => AtAgent(a, r)
    <3>1. b \in Agent /\ [type |-> "cancel_run", run |-> q] \in ControlFrame
      BY DEF CancelTargets, SelectTargetAgent, Eligible, OnlineAgents, ControlFrame
    <3>2. [type |-> "cancel_run", run |-> q] # AssignFrame(r)
      BY DEF AssignFrame
    <3>3. InTransit(a, r)' => InTransit(a, r)
      BY <3>1, <3>2, <2>2, SendPlace
    <3> QED BY <3>3, <1>2, <1>k, <1>o DEF CancelFanOut, AtAgent
  <2> QED BY <2>1, <2>2, <1>2 DEF CancelFanOut
<1>3. ASSUME NEW b \in Agent, NEW c \in Conn, NEW type, Inbound(b, c, type)
      PROVE  AtAgent(a, r)' => AtAgent(a, r)
  BY <1>3, <1>k, InboundPlace DEF AtAgent, InTransit, Inbound
<1> QED
  BY <1>1, <1>2, <1>3, <1>u, Zenon
     DEF ControlStep, Launch, Cancel, Elapse, TryAssignSelect, TryAssignStamp, RedispatchQuery,
         RedispatchNext, HandleFrame, OnRunStarted, OnRunProgress, OnRunFinished, OnError,
         WatchdogScanRunning, WatchdogReapRunning, WatchdogScanQueued, WatchdogReapQueued

(* The frames about one run.                                                *)
FrameOf(r) == {f \in AgentFrame : f.run = r}

(* A task that reports: it was and stays busy, and sends about its run.     *)
TaskReports(a, t) ==
    \E sends \in SUBSET Seq(FrameOf(task[a][t].run)), ph \in Phase \ {"free"} :
        task[a][t].phase # "free" /\ Reports(a, t, sends, ph)

(* Whatever RunExecutor sends about a run is about that run.                *)
LEMMA RunSends ==
    ASSUME NEW r \in Run
    PROVE  /\ TrySend(Started(r)) \subseteq Seq(FrameOf(r))
           /\ TrySend(Progress(r)) \subseteq Seq(FrameOf(r))
           /\ SendFailure(r) \subseteq Seq(FrameOf(r))
           /\ \A s \in TerminalStatus : TrySendCritical(Finished(r, s)) \subseteq Seq(FrameOf(r))
<1>1. /\ Started(r) \in FrameOf(r) /\ Progress(r) \in FrameOf(r) /\ Error(r) \in FrameOf(r)
      /\ \A s \in TerminalStatus : Finished(r, s) \in FrameOf(r)
  BY DEF Started, Progress, Error, Finished, AgentFrame, FrameOf
<1>2. \A f \in FrameOf(r) : TrySend(f) \subseteq Seq(FrameOf(r)) /\ TrySendCritical(f) \subseteq Seq(FrameOf(r))
  BY SequenceClosure DEF TrySend, TrySendCritical
<1>3. "failed" \in TerminalStatus
  BY DEF TerminalStatus
<1>4. SendFailure(r) \subseteq Seq(FrameOf(r))
  BY <1>1, <1>2, <1>3, ThenType DEF SendFailure
<1> QED BY <1>1, <1>2, <1>4

(* The steps of a task: three that change its slot, the others report.      *)
LEMMA TaskStepKinds ==
    ASSUME Inv, NEW a \in Agent, NEW t \in Task, TaskStep(a, t)
    PROVE  AcquireSlot(a, t) \/ AbandonWait(a, t) \/ FinishTask(a, t) \/ TaskReports(a, t)
<1> DEFINE r == task[a][t].run
<1>1. task[a][t].phase # "free" => r \in Run
  BY DEF Inv, Own, OwnTasks, OwnRun
<1>2. ASSUME NEW sends, sends \subseteq Seq(FrameOf(r)), NEW ph \in Phase \ {"free"},
             task[a][t].phase # "free", Reports(a, t, sends, ph)
      PROVE  TaskReports(a, t)
  BY <1>2 DEF TaskReports
<1>3. {"executing", "done"} \subseteq Phase \ {"free"}
  BY DEF Phase
<1> HIDE DEF r
<1>4. CASE BeginExecute(a, t)
  <2>1. r \in Run /\ task[a][t].phase # "free"
    BY <1>1, <1>4 DEF BeginExecute
  <2> QED BY <2>1, <1>2, <1>3, <1>4, RunSends DEF BeginExecute, r
<1>5. CASE RelayProgress(a, t)
  <2>1. r \in Run /\ task[a][t].phase # "free"
    BY <1>1, <1>5 DEF RelayProgress
  <2> QED BY <2>1, <1>2, <1>3, <1>5, RunSends DEF RelayProgress, r
<1>6. CASE ExecuteCompleted(a, t)
  <2>1. r \in Run /\ task[a][t].phase # "free"
    BY <1>1, <1>6 DEF ExecuteCompleted
  <2>2. Then(TrySend(Progress(r)), TrySendCritical(Finished(r, "completed"))) \subseteq Seq(FrameOf(r))
    BY <2>1, RunSends, ThenType DEF TerminalStatus
  <2> QED BY <2>1, <2>2, <1>2, <1>3, <1>6 DEF ExecuteCompleted, r
<1>7. CASE ExecuteFailed(a, t)
  <2>1. r \in Run /\ task[a][t].phase # "free"
    BY <1>1, <1>7 DEF ExecuteFailed
  <2> QED BY <2>1, <1>2, <1>3, <1>7, RunSends DEF ExecuteFailed, r
<1>8. CASE ExecuteCancelled(a, t)
  <2>1. r \in Run /\ task[a][t].phase # "free"
    BY <1>1, <1>8 DEF ExecuteCancelled
  <2>2. {<<>>} \cup TrySendCritical(Finished(r, "cancelled")) \subseteq Seq(FrameOf(r))
    BY <2>1, RunSends, SequenceClosure DEF TerminalStatus
  <2> QED BY <2>1, <2>2, <1>2, <1>3, <1>8 DEF ExecuteCancelled, r
<1> QED BY <1>4, <1>5, <1>6, <1>7, <1>8 DEF TaskStep

(* What an agent's step leaves at that agent was there before.              *)
LEMMA AgentPlace ==
    ASSUME Inv, NEW b \in Agent, AgentStep(b), NEW a \in Agent, NEW r \in Run
    PROVE  AtAgent(a, r)' => AtAgent(a, r)
<1>t. /\ task \in [Agent -> [Task -> TaskRecord]]
      /\ inbox \in [Agent -> Seq(ControlFrame)]
      /\ outbox \in [Agent -> [Conn -> Seq(AgentFrame)]]
  BY DEF Inv, TypeOK, AgentTypeOK, WireTypeOK
<1>o. CASE a # b
  <2>1. task'[a] = task[a] /\ inbox'[a] = inbox[a] /\ outbox'[a] = outbox[a]
    BY <1>o, OtherAgents DEF Inv
  <2> QED BY <2>1 DEF AtAgent, InTransit, HasTask, Reported
<1>s. CASE a = b
  <2>i. ASSUME inbox' = inbox PROVE InTransit(a, r)' = InTransit(a, r)
    BY <2>i DEF InTransit
  <2>o. ASSUME outbox' = outbox PROVE Reported(a, r)' = Reported(a, r)
    BY <2>o DEF Reported
  <2>k. ASSUME \A u \in Task : task'[a][u].phase = "free"
                   \/ (task[a][u].phase # "free" /\ task'[a][u].run = task[a][u].run)
        PROVE  HasTask(a, r)' => HasTask(a, r)
    BY <2>k DEF HasTask
  <2>r. ASSUME NEW type, Receives(a, type)
        PROVE  (InTransit(a, r)' => InTransit(a, r)) /\ outbox' = outbox
    <3>1. inbox'[a] = Tail(inbox[a]) /\ inbox[a] # <<>> /\ outbox' = outbox
      BY <2>r, <1>t DEF Receives
    <3>2. ASSUME NEW i \in 1..Len(inbox'[a]), inbox'[a][i] = AssignFrame(r) PROVE InTransit(a, r)
      <4>1. i + 1 \in 1..Len(inbox[a]) /\ inbox'[a][i] = inbox[a][i + 1]
        BY <3>1, <3>2, <1>t, TailElements
      <4> QED BY <4>1, <3>2 DEF InTransit
    <3> QED BY <3>1, <3>2 DEF InTransit
  <2>1. CASE HandleAssignRun(a)
    <3> DEFINE q == Head(inbox[a]).run
    <3>1. (InTransit(a, r)' => InTransit(a, r)) /\ (Reported(a, r)' = Reported(a, r))
      BY <2>1, <2>r, <2>o DEF HandleAssignRun
    <3>2. CASE UNCHANGED task
      BY <3>1, <3>2, <2>k DEF AtAgent, HasTask
    <3>3. ASSUME NEW t \in Task, NEW n, task' = [task EXCEPT ![a][t] = n], n.run = q
          PROVE  AtAgent(a, r)' => AtAgent(a, r)
      <4>1. inbox[a] \in Seq(ControlFrame) /\ inbox[a] # <<>> /\ Head(inbox[a]).type = "assign_run"
        BY <2>1, <1>t DEF HandleAssignRun, Receives
      <4>2. inbox[a][1] = AssignFrame(q) /\ 1 \in 1..Len(inbox[a])
        <5>1. inbox[a][1] \in ControlFrame /\ inbox[a][1] = Head(inbox[a]) /\ 1 \in 1..Len(inbox[a])
          BY <4>1
        <5> QED BY <5>1, <4>1 DEF ControlFrame, AssignFrame
      <4>3. ASSUME HasTask(a, r)' PROVE HasTask(a, r) \/ r = q
        BY <3>3, <4>3, <1>t DEF HasTask
      <4>4. r = q => InTransit(a, r)
        BY <4>2 DEF InTransit
      <4> QED BY <4>3, <4>4, <3>1 DEF AtAgent
    <3> QED BY <3>2, <3>3, <2>1 DEF HandleAssignRun
  <2>2. CASE HandleCancelRun(a)
    <3>1. HasTask(a, r)' => HasTask(a, r)
      <4>1. \A u \in Task : task'[a][u].phase = task[a][u].phase /\ task'[a][u].run = task[a][u].run
        BY <2>2, <1>t DEF HandleCancelRun, WithToken
      <4> QED BY <4>1, SMTT(20) DEF HasTask
    <3> QED BY <3>1, <2>2, <2>r, <2>o DEF HandleCancelRun, AtAgent
  <2>a. ASSUME CancelAllRuns(a) PROVE HasTask(a, r)' => HasTask(a, r)
    <3>1. \A u \in Task : task'[a][u].phase = task[a][u].phase /\ task'[a][u].run = task[a][u].run
      BY <2>a, <1>t DEF CancelAllRuns, WithToken
    <3> QED BY <3>1 DEF HasTask
  <2>3. CASE HandleShutdown(a)
    BY <2>3, <2>a, <2>r, <2>o DEF HandleShutdown, AtAgent
  <2>4. CASE Teardown(a)
    <3>1. inbox'[a] = <<>> /\ outbox' = outbox
      BY <2>4, <1>t DEF Teardown
    <3>2. ~InTransit(a, r)'
      BY <3>1 DEF InTransit
    <3> QED BY <3>1, <3>2, <2>4, <2>a, <2>o DEF Teardown, AtAgent
  <2>5. ASSUME NEW t \in Task, TaskReports(a, t) PROVE AtAgent(a, r)' => AtAgent(a, r)
    <3>1. PICK fs \in Seq(FrameOf(task[a][t].run)), ph \in Phase \ {"free"} :
            /\ task[a][t].phase # "free" /\ Emit(a, task[a][t].conn, fs) /\ inbox' = inbox
            /\ task' = [task EXCEPT ![a][t] = InPhase(@, ph)]
      BY <2>5 DEF TaskReports, Reports
    <3>2. HasTask(a, r)' => HasTask(a, r)
      <4>1. \A u \in Task : task'[a][u].phase = "free"
                   \/ (task[a][u].phase # "free" /\ task'[a][u].run = task[a][u].run)
        BY <3>1, <1>t DEF InPhase
      <4> QED BY <4>1, <2>k
    <3>3. Reported(a, r)' => Reported(a, r) \/ HasTask(a, r)
      <4>1. ASSUME NEW c \in Conn, NEW i \in 1..Len(outbox'[a][c]), outbox'[a][c][i].run = r
            PROVE  Reported(a, r) \/ HasTask(a, r)
        <5>1. CASE outbox'[a][c] = outbox[a][c]
          BY <4>1, <5>1 DEF Reported
        <5>2. CASE outbox'[a][c] = outbox[a][c] \o fs
          <6>1. fs \in Seq(AgentFrame) /\ \A j \in 1..Len(fs) : fs[j].run = task[a][t].run
            BY DEF FrameOf
          <6>2. \/ i \in 1..Len(outbox[a][c]) /\ outbox'[a][c][i] = outbox[a][c][i]
                \/ i - Len(outbox[a][c]) \in 1..Len(fs)
                   /\ outbox'[a][c][i] = fs[i - Len(outbox[a][c])]
            BY <6>1, <5>2, <4>1, <1>t, ConcatElements
          <6> QED BY <6>1, <6>2, <4>1, <3>1 DEF Reported, HasTask
        <5> QED BY <5>1, <5>2, <3>1, <1>t DEF Emit
      <4> QED BY <4>1 DEF Reported
    <3> QED BY <3>1, <3>2, <3>3, <2>i DEF AtAgent
  <2>6. ASSUME NEW t \in Task, AcquireSlot(a, t) \/ AbandonWait(a, t) \/ FinishTask(a, t)
        PROVE  AtAgent(a, r)' => AtAgent(a, r)
    <3>1. UNCHANGED <<inbox, outbox>>
      BY <2>6 DEF AcquireSlot, AbandonWait, FinishTask, wireVars
    <3>2. \A u \in Task : task'[a][u].phase = "free"
                   \/ (task[a][u].phase # "free" /\ task'[a][u].run = task[a][u].run)
      <4>1. CASE AcquireSlot(a, t)
        BY <4>1, <1>t DEF AcquireSlot, InPhase
      <4>2. CASE AbandonWait(a, t)
        BY <4>2, <1>t DEF AbandonWait, FreeTask
      <4>3. CASE FinishTask(a, t)
        BY <4>3, <1>t DEF FinishTask, FreeTask, WithToken
      <4> QED BY <2>6, <4>1, <4>2, <4>3
    <3> QED BY <3>1, <3>2, <2>i, <2>o, <2>k DEF AtAgent
  <2> QED BY <1>s, <2>1, <2>2, <2>3, <2>4, <2>5, <2>6, TaskStepKinds DEF AgentStep
<1> QED BY <1>o, <1>s

(* Nor do connections, breaks, crashes and key rotations bring a run to an  *)
(* agent.                                                                   *)
LEMMA SystemPlace ==
    ASSUME Inv, NEW b \in Agent, NEW a \in Agent, NEW r \in Run,
           \/ Connect(b) \/ Disconnect(b) \/ LinkBreaks(b) \/ AgentDies(b) \/ KeyRotated(b)
    PROVE  AtAgent(a, r)' => AtAgent(a, r)
<1>t. /\ task \in [Agent -> [Task -> TaskRecord]] /\ conn \in [Agent -> 0..MaxConns]
      /\ inbox \in [Agent -> Seq(ControlFrame)]
      /\ outbox \in [Agent -> [Conn -> Seq(AgentFrame)]]
  BY DEF Inv, TypeOK, AgentTypeOK, WireTypeOK
<1>k. ASSUME UNCHANGED agentVars PROVE HasTask(a, r)' = HasTask(a, r)
  BY <1>k DEF HasTask, agentVars
<1>o. ASSUME NEW c, NEW p \in Prefixes(outbox[b][c]), outbox' = [outbox EXCEPT ![b][c] = p]
      PROVE  Reported(a, r)' => Reported(a, r)
  <2>1. ASSUME NEW d \in Conn, NEW i \in 1..Len(outbox'[a][d]), outbox'[a][d][i].run = r
        PROVE  Reported(a, r)
    <3>1. CASE outbox'[a][d] = outbox[a][d]
      BY <2>1, <3>1 DEF Reported
    <3>2. CASE a = b /\ d = c /\ outbox'[a][d] = p
      <4>1. i \in 1..Len(outbox[a][d]) /\ p[i] = outbox[a][d][i]
        BY <2>1, <3>2, <1>t, PrefixElements
      <4> QED BY <4>1, <2>1, <3>2 DEF Reported
    <3> QED BY <3>1, <3>2, <1>o, <1>t
  <2> QED BY <2>1 DEF Reported
<1>1. CASE UNCHANGED <<inbox, outbox, agentVars>>
  BY <1>1, <1>k DEF AtAgent, InTransit, Reported
<1>2. CASE LinkBreaks(b)
  <2>1. Reported(a, r)' => Reported(a, r)
    <3>1. CASE UNCHANGED outbox
      BY <3>1 DEF Reported
    <3>2. CASE conn[b] # 0
      BY <3>2, <1>2, <1>o DEF LinkBreaks, Break
    <3> QED BY <3>1, <3>2, <1>2 DEF LinkBreaks, Break
  <2>2. PICK p \in Prefixes(inbox[b]) : inbox' = [inbox EXCEPT ![b] = p]
    BY <1>2 DEF LinkBreaks, Break
  <2>3. InTransit(a, r)' => InTransit(a, r)
    <3>1. CASE inbox'[a] = inbox[a]
      BY <3>1 DEF InTransit
    <3>2. CASE a = b /\ inbox'[a] = p
      BY <3>2, <1>t, PrefixElements DEF InTransit
    <3> QED BY <3>1, <3>2, <2>2, <1>t
  <2> QED BY <2>1, <2>3, <1>2, <1>k DEF LinkBreaks, AtAgent
<1>3. CASE AgentDies(b)
  <2>1. Reported(a, r)' => Reported(a, r)
    BY <1>3, <1>o DEF AgentDies, AgentCrash
  <2>2. /\ inbox'[a] = inbox[a] \/ inbox'[a] = <<>>
        /\ task'[a] = task[a] \/ \A t \in Task : task'[a][t].phase = "free"
    BY <1>3, <1>t DEF AgentDies, AgentCrash, FreeTask
  <2>3. InTransit(a, r)' => InTransit(a, r)
    BY <2>2 DEF InTransit
  <2>4. HasTask(a, r)' => HasTask(a, r)
    BY <2>2 DEF HasTask
  <2> QED BY <2>1, <2>3, <2>4 DEF AtAgent
<1>4. CASE KeyRotated(b)
  <2>1. Shutdown \in ControlFrame /\ Shutdown # AssignFrame(r)
    BY DEF Shutdown, ControlFrame, AssignFrame
  <2>2. Send(b, Shutdown) /\ UNCHANGED <<outbox, agentVars>>
    BY <1>4 DEF KeyRotated, RotateKey
  <2>3. InTransit(a, r)' => InTransit(a, r)
    BY <2>1, <2>2, SendPlace
  <2> QED BY <2>2, <2>3, <1>k DEF AtAgent, Reported
<1> QED BY <1>1, <1>2, <1>3, <1>4 DEF Connect, Disconnect, wireVars

-----------------------------------------------------------------------------
(* The faults that leave a request in progress alone: links break, agents   *)
(* die and keys are rotated; the control plane does not restart and its     *)
(* claims do not fail.                                                      *)
Calm == PromptDispatch /\ Faults \cap {"restart", "stamp"} = {}

(* A step of the run system under these faults.                             *)
LEMMA CalmStep ==
    ASSUME Calm, [Next]_vars
    PROVE  \/ ControlStep /\ UNCHANGED agentVars
           \/ UNCHANGED <<run, op, sweep>> /\ \E b \in Agent : AgentStep(b)
           \/ UNCHANGED <<run, op, sweep>> /\ \E b \in Agent :
                Connect(b) \/ Disconnect(b) \/ LinkBreaks(b) \/ AgentDies(b) \/ KeyRotated(b)
           \/ UNCHANGED <<wireVars, agentVars, run, op, sweep>>
<1>1. ~ControlPlaneRestarts /\ \A x : ~StampFails(x)
  BY DEF Calm, ControlPlaneRestarts, StampFails, Fault
<1>2. ASSUME NEW b \in Agent,
             Connect(b) \/ Disconnect(b) \/ LinkBreaks(b) \/ AgentDies(b) \/ KeyRotated(b)
      PROVE  UNCHANGED <<run, op, sweep>>
  BY <1>2 DEF Connect, Disconnect, LinkBreaks, AgentDies, KeyRotated, RotateKey, controlVars
<1>3. UNCHANGED controlVars => UNCHANGED <<run, op, sweep>>
  BY DEF controlVars
<1>4. UNCHANGED vars => UNCHANGED <<wireVars, agentVars, run, op, sweep>>
  BY DEF vars, controlVars
<1> QED BY <1>1, <1>2, <1>3, <1>4 DEF Next, SystemStep

(* The dispatch of a run stays with one dispatcher, the run at one agent.   *)
LEMMA OnePlaceStep ==
    ASSUME Calm, Inv, DispatchOnce, Unclaimed, OnePlace, [Next]_vars
    PROVE  DispatchOnce' /\ Unclaimed' /\ OnePlace'
<1>u. ASSUME UNCHANGED <<run, op, sweep>> PROVE DispatchOnce' /\ \A r \in Run : DispatchEffect(r)
  <2>1. DispatchOnce'
    BY <1>u DEF DispatchOnce
  <2>2. \A r \in Run : DispatchEffect(r)
    BY <1>u, RowEffect
  <2> QED BY <2>1, <2>2
<1>1. DispatchOnce'
  BY <1>u, CalmStep, ControlDispatchStep DEF Calm
<1>2. \A r \in Run : DispatchEffect(r)
  BY <1>u, CalmStep, ControlDispatchEffect
<1>3. \A a \in Agent, r \in Run : AtAgent(a, r)' => AtAgent(a, r) \/ Sending(a, r)
  <2>1. CASE UNCHANGED <<wireVars, agentVars>>
    BY <2>1 DEF AtAgent, InTransit, HasTask, Reported, wireVars, agentVars
  <2> QED BY <2>1, CalmStep, ControlPlace, AgentPlace, SystemPlace
<1>4. ASSUME NEW a \in Agent, NEW r \in Run, Sending(a, r)
      PROVE  /\ Assignable(r) /\ ~Assignable(r)' /\ UNCHANGED run
             /\ \A x \in Dispatcher : op[x].phase # "idle" /\ op[x].run = r => op[x].target = a
  <2>1. PICK x \in Dispatcher : /\ TryAssignSend(x) /\ op[x].run = r /\ op[x].target = a
                                /\ op' = [op EXCEPT ![x].phase = "stamp"]
    BY <1>4 DEF Sending
  <2>2. op[x].phase = "send" /\ UNCHANGED run
    BY <2>1 DEF TryAssignSend
  <2>3. Assignable(r) /\ ~Assignable(r)'
    BY <2>1, <2>2, SentIsAssigned DEF Assignable
  <2>4. \A y \in Dispatcher : op[y].phase # "idle" /\ op[y].run = r => y = x
    BY <2>1, <2>2, UniqueOps
  <2> QED BY <2>1, <2>2, <2>3, <2>4
<1>5. \A a \in Agent, r \in Run : Reported(a, r) => AtAgent(a, r)
  BY DEF AtAgent
<1>6. Unclaimed'
  <2> SUFFICES ASSUME NEW r \in Run, Assignable(r)' PROVE run'[r].worker = None
    BY DEF Unclaimed
  <2>1. Assignable(r) /\ run[r].worker = None /\ WorkerMove(r)
    BY <1>2 DEF DispatchEffect, Unclaimed
  <2>2. \A a \in Agent : ~Reported(a, r)
    BY <2>1, <1>5 DEF OnePlace
  <2> QED BY <2>1, <2>2 DEF WorkerMove
<1>7. OnePlace'
  <2> SUFFICES ASSUME NEW a \in Agent, NEW r \in Run, AtAgent(a, r)'
               PROVE  /\ ~Assignable(r)'
                      /\ \A b \in Agent : AtAgent(b, r)' => b = a
                      /\ run'[r].worker \in {None, a}
                      /\ \A x \in Dispatcher :
                            op'[x].phase = "stamp" /\ op'[x].run = r => op'[x].target = a
    BY DEF OnePlace
  <2>e. (Assignable(r)' => Assignable(r)) /\ WorkerMove(r) /\ StampMove(r)
    BY <1>2 DEF DispatchEffect
  <2>1. CASE AtAgent(a, r)
    <3>1. /\ ~Assignable(r) /\ run[r].worker \in {None, a}
          /\ \A b \in Agent : AtAgent(b, r) => b = a
          /\ \A x \in Dispatcher : op[x].phase = "stamp" /\ op[x].run = r => op[x].target = a
      BY <2>1 DEF OnePlace
    <3>2. \A b \in Agent : AtAgent(b, r)' => b = a
      BY <3>1, <1>3, <1>4
    <3>3. run[r].status # "absent"
          /\ \A x \in Dispatcher : op[x].phase = "send" => op[x].run # r
      BY <3>1 DEF Assignable
    <3>4. run'[r].worker \in {None, a}
      BY <3>1, <3>3, <2>e, <1>5 DEF WorkerMove
    <3>5. \A x \in Dispatcher : op'[x].phase = "stamp" /\ op'[x].run = r => op'[x].target = a
      BY <3>1, <3>3, <2>e DEF StampMove
    <3> QED BY <3>1, <3>2, <3>4, <3>5, <2>e
  <2>2. CASE ~AtAgent(a, r)
    <3>1. Sending(a, r)
      BY <2>2, <1>3
    <3>2. /\ Assignable(r) /\ ~Assignable(r)' /\ UNCHANGED run
          /\ \A x \in Dispatcher : op[x].phase # "idle" /\ op[x].run = r => op[x].target = a
      BY <3>1, <1>4
    <3>3. \A b \in Agent : Sending(b, r) => b = a
      <4>1. PICK x \in Dispatcher : op[x].phase = "send" /\ op[x].run = r /\ op[x].target = a
        BY <3>1 DEF Sending, TryAssignSend
      <4> QED BY <4>1, <1>4
    <3>4. \A b \in Agent : AtAgent(b, r)' => b = a
      BY <3>2, <3>3, <1>3 DEF OnePlace
    <3>5. run'[r].worker = None
      BY <3>2 DEF Unclaimed
    <3>6. \A x \in Dispatcher : op'[x].phase = "stamp" /\ op'[x].run = r => op'[x].target = a
      BY <3>2, <2>e DEF StampMove
    <3> QED BY <3>2, <3>4, <3>5, <3>6
  <2> QED BY <2>1, <2>2
<1> QED BY <1>1, <1>6, <1>7

(* What an agent has of a run: the frames q of its inbox and the tasks k.   *)
Copies(q, k, r) ==
    /\ Once(q, r)
    /\ Contains(q, AssignFrame(r)) => ~ \E t \in Task : k[t].phase # "free" /\ k[t].run = r
    /\ \A t, u \in Task : /\ k[t].phase # "free" /\ k[t].run = r
                          /\ k[u].phase # "free" /\ k[u].run = r
                          => t = u

(* OneCopy says that of every agent and every run.                          *)
LEMMA CopiesEach == OneCopy <=> \A a \in Agent, r \in Run : Copies(inbox[a], task[a], r)
BY DEF OneCopy, Copies, InTransit, HasTask, Contains

(* Fewer frames and fewer tasks, or other frames, are no more copies.       *)
LEMMA CopiesKept ==
    ASSUME NEW q \in Seq(ControlFrame), NEW k, NEW r, NEW q2, NEW k2, Copies(q, k, r),
           \/ q2 = q
           \/ q # <<>> /\ q2 = Tail(q)
           \/ q2 \in Prefixes(q)
           \/ \E f \in ControlFrame : f # AssignFrame(r) /\ q2 = Append(q, f),
           \A t \in Task : k2[t].phase = "free" \/ (k[t].phase # "free" /\ k2[t].run = k[t].run)
    PROVE  Copies(q2, k2, r)
<1>1. Once(q2, r) /\ (Contains(q2, AssignFrame(r)) => Contains(q, AssignFrame(r)))
  <2>1. CASE q2 = q
    BY <2>1 DEF Copies
  <2>2. CASE q # <<>> /\ q2 = Tail(q)
    <3>1. \A i \in 1..Len(q2) : i + 1 \in 1..Len(q) /\ q2[i] = q[i + 1]
      BY <2>2, TailElements
    <3>2. Once(q, r)
      BY DEF Copies
    <3>3. ASSUME NEW i \in 1..Len(q2), NEW j \in 1..Len(q2),
                 q2[i] = AssignFrame(r), q2[j] = AssignFrame(r)
          PROVE  i = j
      <4>1. i + 1 = j + 1
        BY <3>1, <3>2, <3>3 DEF Once
      <4> QED BY <4>1
    <3>4. Contains(q2, AssignFrame(r)) => Contains(q, AssignFrame(r))
      BY <3>1 DEF Contains
    <3> QED BY <3>3, <3>4 DEF Once
  <2>3. CASE q2 \in Prefixes(q)
    <3>1. \A i \in 1..Len(q2) : i \in 1..Len(q) /\ q2[i] = q[i]
      BY <2>3, PrefixElements
    <3> QED BY <3>1 DEF Once, Contains, Copies
  <2>4. ASSUME NEW f \in ControlFrame, f # AssignFrame(r), q2 = Append(q, f)
        PROVE  Once(q2, r) /\ (Contains(q2, AssignFrame(r)) => Contains(q, AssignFrame(r)))
    <3>1. \A i \in 1..Len(q2) : q2[i] = AssignFrame(r) => i \in 1..Len(q) /\ q2[i] = q[i]
      BY <2>4, AppendElements
    <3> QED BY <3>1 DEF Once, Contains, Copies
  <2> QED BY <2>1, <2>2, <2>3, <2>4
<1> QED BY <1>1 DEF Copies

(* A step of the control plane adds a copy only of a run that is at no      *)
(* agent yet.                                                               *)
LEMMA ControlCopies ==
    ASSUME Inv, OnePlace, OneCopy, ControlStep, UNCHANGED agentVars
    PROVE  OneCopy'
<1>t. inbox \in [Agent -> Seq(ControlFrame)] /\ task' = task
  BY DEF Inv, TypeOK, WireTypeOK, agentVars
<1>c. \A a \in Agent, r \in Run : Copies(inbox[a], task[a], r)
  BY CopiesEach
<1>p. (\A a \in Agent, r \in Run : Copies(inbox'[a], task[a], r)) => OneCopy'
  <2>1. OneCopy' <=> \A a \in Agent, r \in Run : Copies(inbox'[a], task'[a], r)
    BY DEF OneCopy, Copies, InTransit, HasTask, Contains
  <2> QED BY <2>1, <1>t
<1>u. ASSUME UNCHANGED inbox PROVE OneCopy'
  BY <1>u, <1>c, <1>p
<1>1. ASSUME NEW x \in Dispatcher, TryAssignSend(x) PROVE OneCopy'
  <2>1. op[x].target \in Agent /\ op[x].run \in Run
    BY <1>1 DEF TryAssignSend, Inv, Own, OwnOps
  <2>2. AssignFrame(op[x].run) \in ControlFrame
    BY <2>1 DEF AssignFrame, ControlFrame
  <2>3. CASE inbox' = inbox
    BY <2>3, <1>u
  <2>4. CASE inbox' = [inbox EXCEPT ![op[x].target] = Append(@, AssignFrame(op[x].run))]
    <3> SUFFICES ASSUME NEW a \in Agent, NEW r \in Run PROVE Copies(inbox'[a], task[a], r)
      BY <1>p
    <3>1. CASE a # op[x].target
      BY <3>1, <2>4, <1>c, <1>t
    <3>2. CASE a = op[x].target /\ r # op[x].run
      <4>1. AssignFrame(op[x].run) # AssignFrame(r)
        BY <3>2 DEF AssignFrame
      <4>2. inbox'[a] = Append(inbox[a], AssignFrame(op[x].run))
        BY <3>2, <2>4, <1>t
      <4>3. Copies(inbox[a], task[a], r) /\ inbox[a] \in Seq(ControlFrame)
        BY <1>c, <1>t
      <4> QED BY <4>1, <4>2, <4>3, <2>2, CopiesKept
    <3>3. CASE a = op[x].target /\ r = op[x].run
      <4>1. inbox'[a] = Append(inbox[a], AssignFrame(r)) /\ inbox[a] \in Seq(ControlFrame)
        BY <3>3, <2>4, <1>t
      <4>2. ~AtAgent(a, r)
        BY <3>3, <1>1 DEF TryAssignSend, OnePlace, Assignable
      <4>3. \A i \in 1..Len(inbox[a]) : inbox[a][i] # AssignFrame(r)
        BY <4>2 DEF AtAgent, InTransit
      <4>4. Once(inbox'[a], r)
        BY <4>1, <4>3, <3>3, <2>2, AppendElements DEF Once
      <4>5. ~ \E t \in Task : task[a][t].phase # "free" /\ task[a][t].run = r
        BY <4>2 DEF AtAgent, HasTask
      <4> QED BY <4>4, <4>5 DEF Copies
    <3> QED BY <3>1, <3>2, <3>3
  <2> QED BY <2>3, <2>4, <1>1 DEF TryAssignSend, Send, AssignFrame
<1>2. ASSUME NEW q \in Run, CancelFanOut(q) PROVE OneCopy'
  <2>1. ASSUME NEW b \in CancelTargets(q), Send(b, [type |-> "cancel_run", run |-> q]),
               inbox' # inbox
        PROVE  OneCopy'
    <3> DEFINE f == [type |-> "cancel_run", run |-> q]
    <3>1. b \in Agent /\ f \in ControlFrame
      BY DEF CancelTargets, SelectTargetAgent, Eligible, OnlineAgents, ControlFrame
    <3>2. ASSUME NEW a \in Agent, NEW r \in Run PROVE Copies(inbox'[a], task[a], r)
      <4>1. f # AssignFrame(r)
        BY DEF AssignFrame
      <4>2. inbox'[a] = inbox[a] \/ inbox'[a] = Append(inbox[a], f)
        BY <2>1, <3>1, <1>t DEF Send
      <4>3. Copies(inbox[a], task[a], r) /\ inbox[a] \in Seq(ControlFrame)
        BY <1>c, <1>t
      <4> QED BY <4>1, <4>2, <4>3, <3>1, CopiesKept
    <3> QED BY <3>2, <1>p
  <2> QED BY <2>1, <1>2, <1>u DEF CancelFanOut
<1> QED
  BY <1>1, <1>2, <1>u, ZenonT(40)
     DEF ControlStep, Launch, Cancel, Elapse, TryAssignSelect, TryAssignStamp, RedispatchQuery,
         RedispatchNext, HandleFrame, Inbound, OnRunStarted, OnRunProgress, OnRunFinished, OnError,
         WatchdogScanRunning, WatchdogReapRunning, WatchdogScanQueued, WatchdogReapQueued, wireVars

(* How tasks may change without becoming more.                              *)
NoNewTask(a) ==
    \A u \in Task : task'[a][u].phase = "free"
                   \/ (task[a][u].phase # "free" /\ task'[a][u].run = task[a][u].run)

(* An agent's step turns a frame into a task, or adds neither.              *)
LEMMA AgentCopies ==
    ASSUME Inv, OneCopy, NEW b \in Agent, AgentStep(b)
    PROVE  OneCopy'
<1>t. /\ task \in [Agent -> [Task -> TaskRecord]]
      /\ inbox \in [Agent -> Seq(ControlFrame)]
  BY DEF Inv, TypeOK, AgentTypeOK, WireTypeOK
<1>c. \A a \in Agent, r \in Run : Copies(inbox[a], task[a], r)
  BY CopiesEach
<1>p. OneCopy' <=> \A a \in Agent, r \in Run : Copies(inbox'[a], task'[a], r)
  BY DEF OneCopy, Copies, InTransit, HasTask, Contains
<1> SUFFICES ASSUME NEW r \in Run PROVE Copies(inbox'[b], task'[b], r)
  <2>1. \A a \in Agent : a # b => task'[a] = task[a] /\ inbox'[a] = inbox[a]
    BY OtherAgents DEF Inv
  <2> QED BY <2>1, <1>c, <1>p
<1> DEFINE q == inbox[b]
<1>q. q \in Seq(ControlFrame) /\ Copies(q, task[b], r)
  BY <1>t, <1>c
<1>n. ASSUME NoNewTask(b), inbox'[b] = q \/ (q # <<>> /\ inbox'[b] = Tail(q)) \/ inbox'[b] = <<>>
      PROVE  Copies(inbox'[b], task'[b], r)
  <2>1. CASE inbox'[b] = <<>>
    <3>1. Copies(q, task'[b], r)
      BY <1>n, <1>q, CopiesKept DEF NoNewTask
    <3> QED BY <3>1, <2>1 DEF Copies, Once, Contains
  <2>2. CASE inbox'[b] = q \/ (q # <<>> /\ inbox'[b] = Tail(q))
    <3> DEFINE q2 == inbox'[b]
               k2 == task'[b]
    <3>1. /\ q2 = q \/ (q # <<>> /\ q2 = Tail(q))
          /\ \A t \in Task : k2[t].phase = "free" \/ (task[b][t].phase # "free" /\ k2[t].run = task[b][t].run)
      BY <2>2, <1>n DEF NoNewTask
    <3> HIDE DEF q, q2, k2
    <3>2. Copies(q2, k2, r)
      BY <3>1, <1>q, CopiesKept
    <3> QED BY <3>2 DEF q2, k2
  <2> QED BY <1>n, <2>1, <2>2
<1>r. ASSUME NEW type, Receives(b, type) PROVE q # <<>> /\ inbox'[b] = Tail(q) /\ Head(q).type = type
  BY <1>r, <1>t DEF Receives
<1>1. CASE HandleAssignRun(b)
  <2> DEFINE p == Head(q).run
  <2>1. q # <<>> /\ inbox'[b] = Tail(q) /\ Head(q).type = "assign_run"
    BY <1>1, <1>r DEF HandleAssignRun
  <2>2. CASE UNCHANGED task
    BY <2>1, <2>2, <1>n DEF NoNewTask
  <2>3. ASSUME NEW t \in Task, NEW n, task' = [task EXCEPT ![b][t] = n], n.run = p,
               task[b][t].phase = "free"
        PROVE  Copies(inbox'[b], task'[b], r)
    <3>1. q[1] = AssignFrame(p) /\ 1 \in 1..Len(q)
      <4>1. q[1] \in ControlFrame /\ q[1] = Head(q) /\ 1 \in 1..Len(q)
        BY <2>1, <1>q
      <4> QED BY <4>1, <2>1 DEF ControlFrame, AssignFrame
    <3>2. task'[b][t] = n /\ \A u \in Task : u # t => task'[b][u] = task[b][u]
      BY <2>3, <1>t
    <3>3. \A i \in 1..Len(Tail(q)) : i + 1 \in 1..Len(q) /\ Tail(q)[i] = q[i + 1]
      BY <2>1, <1>q, TailElements
    <3>4. Len(Tail(q)) \in Nat
      BY <2>1, <1>q
    <3>5. Once(Tail(q), r)
      BY <3>3, <3>4, <1>q DEF Copies, Once
    <3>6. Contains(Tail(q), AssignFrame(r)) => Contains(q, AssignFrame(r))
      BY <3>3 DEF Contains
    <3>7. CASE r = p
      <4>1. \A i \in 1..Len(Tail(q)) : Tail(q)[i] # AssignFrame(r)
        BY <3>1, <3>3, <3>4, <3>7, <1>q DEF Copies, Once
      <4>2. \A u \in Task : ~(task[b][u].phase # "free" /\ task[b][u].run = r)
        BY <3>1, <3>7, <1>q DEF Copies, Contains
      <4> QED BY <4>1, <4>2, <3>2, <3>5, <2>1 DEF Copies, Contains
    <3>8. CASE r # p
      <4> HIDE DEF q, p
      <4>1. \A u \in Task : task'[b][u].run = r => u # t /\ task'[b][u] = task[b][u]
        BY <3>2, <3>8, <2>3
      <4> QED BY <4>1, <3>5, <3>6, <2>1, <1>q DEF Copies
    <3> QED BY <3>7, <3>8
  <2> QED BY <2>2, <2>3, <1>1 DEF HandleAssignRun
<1>2. CASE HandleCancelRun(b)
  <2>1. NoNewTask(b)
    BY <1>2, <1>t DEF HandleCancelRun, WithToken, NoNewTask
  <2> QED BY <2>1, <1>2, <1>r, <1>n DEF HandleCancelRun
<1>a. ASSUME CancelAllRuns(b) PROVE NoNewTask(b)
  BY <1>a, <1>t DEF CancelAllRuns, WithToken, NoNewTask
<1>3. CASE HandleShutdown(b)
  BY <1>3, <1>a, <1>r, <1>n DEF HandleShutdown
<1>4. CASE Teardown(b)
  BY <1>4, <1>a, <1>n, <1>t DEF Teardown
<1>5. ASSUME NEW t \in Task, TaskStep(b, t) PROVE Copies(inbox'[b], task'[b], r)
  <2>1. CASE AcquireSlot(b, t)
    BY <2>1, <1>t, <1>n DEF AcquireSlot, InPhase, NoNewTask, wireVars
  <2>2. CASE AbandonWait(b, t)
    BY <2>2, <1>t, <1>n DEF AbandonWait, FreeTask, NoNewTask, wireVars
  <2>3. CASE FinishTask(b, t)
    <3>1. NoNewTask(b) /\ inbox' = inbox
      BY <2>3, <1>t DEF FinishTask, FreeTask, WithToken, NoNewTask, wireVars
    <3> QED BY <3>1, <1>n
  <2>4. CASE TaskReports(b, t)
    <3>1. NoNewTask(b) /\ inbox' = inbox
      BY <2>4, <1>t DEF TaskReports, Reports, InPhase, NoNewTask
    <3> QED BY <3>1, <1>n
  <2> QED BY <1>5, <2>1, <2>2, <2>3, <2>4, TaskStepKinds
<1> QED BY <1>1, <1>2, <1>3, <1>4, <1>5 DEF AgentStep

(* Nor does a connection, break, crash or key rotation add a copy.          *)
LEMMA SystemCopies ==
    ASSUME Inv, OneCopy, NEW b \in Agent,
           \/ Connect(b) \/ Disconnect(b) \/ LinkBreaks(b) \/ AgentDies(b) \/ KeyRotated(b)
    PROVE  OneCopy'
<1>t. /\ task \in [Agent -> [Task -> TaskRecord]]
      /\ inbox \in [Agent -> Seq(ControlFrame)]
  BY DEF Inv, TypeOK, AgentTypeOK, WireTypeOK
<1>c. \A a \in Agent, r \in Run : Copies(inbox[a], task[a], r)
  BY CopiesEach
<1>p. OneCopy' <=> \A a \in Agent, r \in Run : Copies(inbox'[a], task'[a], r)
  BY DEF OneCopy, Copies, InTransit, HasTask, Contains
<1>1. CASE UNCHANGED <<inbox, task>>
  BY <1>1, <1>c, <1>p
<1>2. CASE LinkBreaks(b)
  <2>1. PICK p \in Prefixes(inbox[b]) : inbox' = [inbox EXCEPT ![b] = p] /\ task' = task
    BY <1>2 DEF LinkBreaks, Break, agentVars
  <2>2. ASSUME NEW a \in Agent, NEW r \in Run PROVE Copies(inbox'[a], task[a], r)
    <3>1. inbox'[a] = inbox[a] \/ inbox'[a] \in Prefixes(inbox[a])
      BY <2>1, <1>t
    <3>2. Copies(inbox[a], task[a], r) /\ inbox[a] \in Seq(ControlFrame)
      BY <1>c, <1>t
    <3> QED BY <3>1, <3>2, CopiesKept
  <2> QED BY <2>1, <2>2, <1>p
<1>3. CASE AgentDies(b)
  <2>1. ASSUME NEW a \in Agent, NEW r \in Run PROVE Copies(inbox'[a], task'[a], r)
    <3>1. \/ inbox'[a] = inbox[a] /\ task'[a] = task[a]
          \/ inbox'[a] = <<>> /\ \A t \in Task : task'[a][t].phase = "free"
      BY <1>3, <1>t DEF AgentDies, AgentCrash, FreeTask
    <3> QED BY <3>1, <1>c DEF Copies, Once, Contains
  <2> QED BY <2>1, <1>p
<1>4. CASE KeyRotated(b)
  <2>1. Shutdown \in ControlFrame /\ Send(b, Shutdown) /\ task' = task
    BY <1>4 DEF KeyRotated, RotateKey, Shutdown, ControlFrame, agentVars
  <2>2. ASSUME NEW a \in Agent, NEW r \in Run PROVE Copies(inbox'[a], task[a], r)
    <3>1. inbox'[a] = inbox[a] \/ inbox'[a] = Append(inbox[a], Shutdown)
      BY <2>1, <1>t DEF Send
    <3>2. Copies(inbox[a], task[a], r) /\ inbox[a] \in Seq(ControlFrame)
      BY <1>c, <1>t
    <3>3. Shutdown # AssignFrame(r)
      BY DEF Shutdown, AssignFrame
    <3> QED BY <3>1, <3>2, <3>3, <2>1, CopiesKept
  <2> QED BY <2>1, <2>2, <1>p
<1> QED BY <1>1, <1>2, <1>3, <1>4 DEF Connect, Disconnect, agentVars, wireVars

(* A finally never disposes the source of another task of its run.          *)
LEMMA NoOrphansStep ==
    ASSUME Inv, TableInv, OneCopy, NoOrphans, [Next]_vars
    PROVE  NoOrphans'
<1>t. /\ task \in [Agent -> [Task -> TaskRecord]]
      /\ handle \in [Agent -> [Run -> Task \cup {None}]]
  BY DEF Inv, TypeOK, AgentTypeOK
<1>1. CASE UNCHANGED agentVars
  BY <1>1 DEF NoOrphans, agentVars
<1>2. ASSUME NEW a \in Agent, AgentStep(a) PROVE NoOrphans'
  <2> SUFFICES \A t \in Task : task'[a][t].phase # "free" => task'[a][t].token # "disposed"
    <3>1. \A b \in Agent : b # a => task'[b] = task[b]
      BY <1>2, OtherAgents DEF Inv
    <3> QED BY <3>1 DEF NoOrphans
  <2>u. \A t \in Task : task[a][t].phase # "free" => task[a][t].token # "disposed"
    BY DEF NoOrphans
  <2>1. CASE HandleAssignRun(a)
    BY <2>1, <2>u, <1>t DEF HandleAssignRun
  <2>2. CASE HandleCancelRun(a)
    BY <2>2, <2>u, <1>t DEF HandleCancelRun, WithToken
  <2>3. CASE CancelAllRuns(a)
    BY <2>3, <2>u, <1>t DEF CancelAllRuns, WithToken
  <2>4. ASSUME NEW t \in Task, AcquireSlot(a, t) PROVE NoOrphans'
    BY <2>4, <1>t DEF AcquireSlot, InPhase, NoOrphans
  <2>5. ASSUME NEW t \in Task, AbandonWait(a, t) PROVE NoOrphans'
    BY <2>5, <1>t DEF AbandonWait, FreeTask, NoOrphans
  <2>6. ASSUME NEW t \in Task, TaskReports(a, t) PROVE NoOrphans'
    BY <2>6, <1>t DEF TaskReports, Reports, InPhase, NoOrphans
  <2>7. ASSUME NEW t \in Task, FinishTask(a, t) PROVE NoOrphans'
    <3> DEFINE r == task[a][t].run
    <3>1. r \in Run /\ task[a][t].phase # "free"
      BY <2>7 DEF FinishTask, Inv, Own, OwnTasks, OwnRun
    <3>2. handle[a][r] # None => handle[a][r] = t
      <4>1. ASSUME handle[a][r] # None PROVE handle[a][r] = t
        <5>1. handle[a][r] \in Task
          BY <4>1, <3>1, <1>t
        <5>2. task[a][handle[a][r]].phase # "free" /\ task[a][handle[a][r]].run = r
          BY <4>1, <3>1 DEF TableInv, HandlesAgree
        <5> QED BY <5>1, <5>2, <3>1 DEF OneCopy
      <4> QED BY <4>1
    <3>3. \A u \in Task : u # t => u # handle[a][r]
      BY <3>2, AgentAssumption
    <3>4. task' = [task EXCEPT ![a] = [u \in Task |-> IF u = t THEN FreeTask
                     ELSE IF u = handle[a][r] THEN WithToken(task[a][u], "disposed")
                     ELSE task[a][u]]]
      BY <2>7 DEF FinishTask
    <3>5. \A u \in Task : u # t => task'[a][u] = task[a][u]
      BY <3>3, <3>4, <1>t
    <3>6. task'[a][t].phase = "free" /\ \A b \in Agent : b # a => task'[b] = task[b]
      BY <3>4, <1>t DEF FreeTask
    <3> QED BY <3>5, <3>6 DEF NoOrphans
  <2>8. NoOrphans' => \A t \in Task : task'[a][t].phase # "free" => task'[a][t].token # "disposed"
    BY DEF NoOrphans
  <2> QED
    BY <1>2, <2>1, <2>2, <2>3, <2>4, <2>5, <2>6, <2>7, <2>8, TaskStepKinds
       DEF AgentStep, Teardown, HandleShutdown
<1>3. ASSUME NEW a \in Agent, AgentDies(a) PROVE NoOrphans'
  BY <1>3, <1>t DEF AgentDies, AgentCrash, FreeTask, NoOrphans
<1> QED
  BY <1>1, <1>2, <1>3, Zenon
     DEF Next, SystemStep, vars, Connect, Disconnect, LinkBreaks, ControlPlaneRestarts,
         StampFails, KeyRotated

(* Every step under these faults keeps every run in one place.              *)
LEMMA PlaceStep ==
    ASSUME Calm, Inv, TableInv, PlaceInv, [Next]_vars
    PROVE  PlaceInv'
<1>1. DispatchOnce' /\ Unclaimed' /\ OnePlace'
  BY OnePlaceStep DEF PlaceInv
<1>2. OneCopy'
  <2>1. CASE UNCHANGED <<wireVars, agentVars>>
    BY <2>1 DEF PlaceInv, OneCopy, InTransit, HasTask, wireVars, agentVars
  <2> QED BY <2>1, CalmStep, ControlCopies, AgentCopies, SystemCopies DEF PlaceInv
<1>3. NoOrphans'
  BY NoOrphansStep DEF PlaceInv
<1> QED BY <1>1, <1>2, <1>3 DEF PlaceInv

(* Before the first launch no run is anywhere.                              *)
LEMMA PlaceInit == Init => PlaceInv
<1> SUFFICES ASSUME Init PROVE PlaceInv
  OBVIOUS
<1> USE DEF Init, WireInit, AgentInit, ControlInit
<1>1. \A a \in Agent, r \in Run : ~AtAgent(a, r) /\ ~InTransit(a, r)
  BY DEF AtAgent, InTransit, HasTask, Reported, FreeTask
<1>2. DispatchOnce
  BY DEF DispatchOnce, Idle, Dispatcher
<1>3. Unclaimed
  BY DEF Unclaimed, NoRow
<1>4. OnePlace
  BY <1>1 DEF OnePlace
<1>5. OneCopy /\ NoOrphans
  BY <1>1 DEF OneCopy, Once, NoOrphans, FreeTask
<1> QED BY <1>2, <1>3, <1>4, <1>5 DEF PlaceInv

(* As long as the control plane neither restarts nor fails to write a claim *)
(* and an inline dispatch ends within QueuedMinAgeSecs, every run is in one *)
(* place, whatever links break, agents die or keys are rotated.             *)
THEOREM RunsInOnePlace ==
    ASSUME Calm
    PROVE  Spec => []PlaceInv
<1>1. Inv /\ TableInv /\ PlaceInv /\ [Next]_vars => PlaceInv'
  BY PlaceStep
<1> QED BY <1>1, PlaceInit, TablesAgree, Invariance, PTL DEF Spec

(* Then redispatch, launch and late claims never put two agents on a run,   *)
(* and a live row never names another agent than the one that executes it.  *)
THEOREM OneExecutorOnly ==
    ASSUME Calm
    PROVE  Spec => []SingleExecutor
<1>1. PlaceInv => SingleExecutor
  <2> SUFFICES ASSUME OnePlace PROVE SingleExecutor
    BY DEF PlaceInv
  <2>1. \A a \in Agent, r \in Run : Executes(a, r) => AtAgent(a, r)
    BY DEF Executes, AtAgent, HasTask
  <2> QED BY <2>1 DEF SingleExecutor, OnePlace
<1> QED BY <1>1, RunsInOnePlace, PTL

(* And every task that has not been tripped can be: its handle is in        *)
(* _running, where cancel_run, shutdown and a disconnect look for it.       *)
THEOREM TasksAreCancellable ==
    ASSUME Calm
    PROVE  Spec => []TasksCancellable
<1>1. Inv /\ TableInv /\ PlaceInv => TasksCancellable
  <2> SUFFICES ASSUME Inv, TableInv, NoOrphans, NEW a \in Agent, NEW t \in Task,
                      task[a][t].phase # "free", task[a][t].token # "cancelled"
               PROVE  handle[a][task[a][t].run] = t
    BY DEF TasksCancellable, PlaceInv
  <2>1. task[a][t].token \in Token
    BY DEF Inv, TypeOK, AgentTypeOK, TaskRecord
  <2>2. task[a][t].token = "live"
    BY <2>1 DEF NoOrphans, Token
  <2> QED BY <2>2 DEF TableInv, HandlesAgree
<1> QED BY <1>1, RunsInOnePlace, TablesAgree, Invariance, PTL
=============================================================================
