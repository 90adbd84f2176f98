----------------------------- MODULE RunControl -----------------------------
(***************************************************************************)
(* The control plane's side of a run: the test_run rows, the in-memory     *)
(* AgentConnectionRegistry, RunDispatcher (launch, redispatch, cancel),    *)
(* the inbound handlers of AgentMessageProcessor and the run sweeps of     *)
(* WatchdogService.  Every await that reads a row, talks to an agent or    *)
(* writes a row ends an action, so what was read is stale when it is used. *)
(*                                                                         *)
(* Clocks.  aged: created_at is QueuedMinAgeSecs (15s) in the past.        *)
(* quiet: how long COALESCE(last_heartbeat, created_at) lies back, in the  *)
(* levels the sweeps tell apart: 1 RunningStaleCutoff (120s), 2            *)
(* QueuedCutoff (300s), 3 NoProgressCutoff (15 min by default).            *)
(***************************************************************************)
EXTENDS RunWire

CONSTANTS
    Tester,         \* project_tester ids
    RunProject,     \* RunProject[r]: project of the run's config
    AgentProject,   \* AgentProject[a]: agent.project_id
    PinnedTester,   \* PinnedTester[r]: tester_id given at launch, or None
    AgentTester,    \* AgentTester[a]: agent.tester_id, or None
    Compatible,     \* agents whose version passes AgentVersionGate
    PendingRun,     \* runs whose config has endpoint_kind = 'pending'
    NoProgressReap, \* FALSE: DASHBOARD_RUN_NO_PROGRESS_SECS=0
    PromptDispatch, \* TRUE: an inline dispatch ends within QueuedMinAgeSecs
    MaxQuiet        \* bound: level of silence a run can reach

ASSUME ControlAssumption ==
    /\ None \notin Tester
    /\ "redispatch" \notin Run
    /\ PinnedTester \in [Run -> Tester \cup {None}]
    /\ AgentTester \in [Agent -> Tester \cup {None}]
    /\ Compatible \subseteq Agent
    /\ PendingRun \subseteq Run
    /\ NoProgressReap \in BOOLEAN
    /\ PromptDispatch \in BOOLEAN
    /\ MaxQuiet \in 0..3

VARIABLES
    run,        \* run[r]: the test_run row
    registry,   \* registry[a]: connection registered for a, 0 when none
    op,         \* op[x]: TryAssignAsync in progress for dispatcher x
    sweep,      \* candidates RedispatchQueuedAsync still has to try
    cancelling, \* CancelAsync calls that updated the row, not yet fanned out
    stale,      \* WatchdogService: snapshots of stale running runs
    stuck       \* WatchdogService: ids of stuck queued runs

controlVars == <<run, registry, op, sweep, cancelling, stale, stuck>>

RunStatus == {"absent", "queued", "running"} \cup TerminalStatus

RunRow == [status : RunStatus, worker : Agent \cup {None},
           tester : Tester \cup {None}, aged : BOOLEAN, quiet : 0..3]

NoRow == [status |-> "absent", worker |-> None, tester |-> None,
          aged |-> FALSE, quiet |-> 0]

QueuedRow(tester) == [status |-> "queued", worker |-> None, tester |-> tester,
                      aged |-> FALSE, quiet |-> 0]

(* worker_id and tester_id are written together, from the agent's row.      *)
ClaimedBy(w, a) == [status |-> w.status, worker |-> a, tester |-> AgentTester[a],
                    aged |-> w.aged, quiet |-> w.quiet]

StartedBy(w, a) == [status |-> "running", worker |-> a, tester |-> AgentTester[a],
                    aged |-> w.aged, quiet |-> 0]

Live(r) == run[r].status \in {"queued", "running"}

(* The launch of a run dispatches it inline; the redispatcher is one task.  *)
Dispatcher == Run \cup {"redispatch"}

Candidate == [run : Run, tester : Tester \cup {None}]

Op == [phase : {"idle", "select", "send", "stamp"}, run : Run \cup {None},
       tester : Tester \cup {None}, target : Agent \cup {None}]

Idle == [phase |-> "idle", run |-> None, tester |-> None, target |-> None]

Attempt(c) == [phase |-> "select", run |-> c.run, tester |-> c.tester, target |-> None]

Chosen(o, a) == [phase |-> "send", run |-> o.run, tester |-> o.tester, target |-> a]

Snapshot == [run : Run, worker : Agent \cup {None}, quiet : 1..3]

ControlInit ==
    /\ run = [r \in Run |-> NoRow]
    /\ registry = [a \in Agent |-> 0]
    /\ op = [x \in Dispatcher |-> Idle]
    /\ sweep = {}
    /\ cancelling = {}
    /\ stale = {}
    /\ stuck = {}

ControlTypeOK ==
    /\ run \in [Run -> RunRow]
    /\ registry \in [Agent -> 0..MaxConns]
    /\ op \in [Dispatcher -> Op]
    /\ sweep \subseteq Candidate
    /\ cancelling \subseteq Run
    /\ stale \subseteq Snapshot
    /\ stuck \subseteq Run

-----------------------------------------------------------------------------
(* AgentConnectionRegistry                                                  *)
IsOnline(a) == a # None /\ registry[a] # 0

OnlineAgents == {a \in Agent : IsOnline(a)}

(* The registered socket is the agent's current one and still works.        *)
Linked(a) == registry[a] = conn[a] /\ wire[a]

(* The sender enqueues on the registered socket; if the peer is gone        *)
(* without the server having noticed, the frame is accepted and lost.       *)
Send(a, f) ==
    inbox' = IF Linked(a)
             THEN [inbox EXCEPT ![a] = Append(@, f)]
             ELSE inbox

(* SelectTargetAgentAsync: same project, compatible; the agent bound to the *)
(* wanted tester, else the fewest queued and running claims.                *)
Load(a) == Cardinality({r \in Run : Live(r) /\ run[r].worker = a})

(* Variant: the project filter of the query is forgotten.                   *)
EligibleAnyProject(r) == {a \in OnlineAgents : a \in Compatible}

Eligible(r) ==
    {a \in OnlineAgents : AgentProject[a] = RunProject[r] /\ a \in Compatible}

SelectTargetAgent(r, tester) ==
    LET bound == {a \in Eligible(r) : tester # None /\ AgentTester[a] = tester}
    IN  IF bound # {} THEN bound
        ELSE {a \in Eligible(r) : \A b \in Eligible(r) : Load(a) <= Load(b)}

-----------------------------------------------------------------------------
(* RunDispatcher                                                            *)

(* LaunchAsync inserts the row and DispatchAsync starts the attempt, unless *)
(* the endpoint is still to be provisioned.                                 *)
Launch(r) ==
    /\ run[r].status = "absent"
    /\ run' = [run EXCEPT ![r] = QueuedRow(PinnedTester[r])]
    /\ op' = IF r \in PendingRun THEN op
             ELSE [op EXCEPT ![r] = Attempt([run |-> r, tester |-> PinnedTester[r]])]
    /\ UNCHANGED <<wireVars, registry, sweep, cancelling, stale, stuck>>

(* TryAssignAsync, first await: pick the agent; none leaves the run queued. *)
TryAssignSelect(x) ==
    /\ op[x].phase = "select"
    /\ LET targets == SelectTargetAgent(op[x].run, op[x].tester)
       IN  \/ /\ targets = {}
              /\ op' = [op EXCEPT ![x] = Idle]
           \/ \E a \in targets :
                op' = [op EXCEPT ![x] = Chosen(@, a)]
    /\ UNCHANGED <<wireVars, run, registry, sweep, cancelling, stale, stuck>>

(* Second await: assign_run to the chosen agent.  The send is refused if no *)
(* connection is registered, and by the sender if the registered socket is  *)
(* already being torn down; the run then stays unclaimed.  The status of    *)
(* the row is not read again.                                               *)
TryAssignSend(x) ==
    /\ op[x].phase = "send"
    /\ \/ /\ IsOnline(op[x].target)
          /\ Send(op[x].target, [type |-> "assign_run", run |-> op[x].run])
          /\ op' = [op EXCEPT ![x].phase = "stamp"]
       \/ /\ ~(IsOnline(op[x].target) /\ Linked(op[x].target))
          /\ op' = [op EXCEPT ![x] = Idle]
          /\ UNCHANGED inbox
    /\ UNCHANGED <<conn, open, wire, outbox, run, registry, sweep, cancelling, stale, stuck>>

(* Third await: claim the row for the agent unless it became terminal.      *)
TryAssignStamp(x) ==
    /\ op[x].phase = "stamp"
    /\ run' = IF Live(op[x].run)
              THEN [run EXCEPT ![op[x].run] = ClaimedBy(@, op[x].target)]
              ELSE run
    /\ op' = [op EXCEPT ![x] = Idle]
    /\ UNCHANGED <<wireVars, registry, sweep, cancelling, stale, stuck>>

(* The claim's UPDATE throws: the launch request, or the whole redispatch   *)
(* tick, ends with the assignment already sent.                             *)
TryAssignStampFails(x) ==
    /\ op[x].phase = "stamp"
    /\ op' = [op EXCEPT ![x] = Idle]
    /\ sweep' = IF x = "redispatch" THEN {} ELSE sweep
    /\ UNCHANGED <<wireVars, run, registry, cancelling, stale, stuck>>

(* Variants: claimed runs are not excluded; the age test is reversed.       *)
RedispatchQueryClaimedToo ==
    /\ op["redispatch"].phase = "idle"
    /\ sweep = {}
    /\ OnlineAgents # {}
    /\ sweep' = {[run |-> r, tester |-> run[r].tester] :
                   r \in {q \in Run \ PendingRun : run[q].status = "queued" /\ run[q].aged}}
    /\ UNCHANGED <<wireVars, run, registry, op, cancelling, stale, stuck>>

RedispatchQueryOnlyYoung ==
    /\ op["redispatch"].phase = "idle"
    /\ sweep = {}
    /\ OnlineAgents # {}
    /\ sweep' = {[run |-> r, tester |-> run[r].tester] :
                   r \in {q \in Run \ PendingRun :
                            /\ run[q].status = "queued"
                            /\ run[q].worker = None
                            /\ ~run[q].aged}}
    /\ UNCHANGED <<wireVars, run, registry, op, cancelling, stale, stuck>>

(* RedispatchQueuedAsync: one query for the candidates, then one attempt    *)
(* after the other from what that query returned.                           *)
RedispatchQuery ==
    /\ op["redispatch"].phase = "idle"
    /\ sweep = {}
    /\ OnlineAgents # {}
    /\ sweep' = {[run |-> r, tester |-> run[r].tester] :
                   r \in {q \in Run \ PendingRun :
                            /\ run[q].status = "queued"
                            /\ run[q].worker = None
                            /\ run[q].aged}}
    /\ UNCHANGED <<wireVars, run, registry, op, cancelling, stale, stuck>>

RedispatchNext ==
    /\ op["redispatch"].phase = "idle"
    /\ \E c \in sweep :
         /\ sweep' = sweep \ {c}
         /\ op' = [op EXCEPT !["redispatch"] = Attempt(c)]
    /\ UNCHANGED <<wireVars, run, registry, cancelling, stale, stuck>>

(* CancelAsync: guarded update, then a cancel frame to the agent that       *)
(* SelectTargetAgentAsync names for the run's project and tester.           *)
Cancel(r) ==
    /\ Live(r)
    /\ run' = [run EXCEPT ![r].status = "cancelled"]
    /\ cancelling' = cancelling \cup {r}
    /\ UNCHANGED <<wireVars, registry, op, sweep, stale, stuck>>

CancelTargets(r) == SelectTargetAgent(r, run[r].tester)

CancelFanOut(r) ==
    /\ r \in cancelling
    /\ cancelling' = cancelling \ {r}
    /\ \/ /\ CancelTargets(r) = {}
          /\ UNCHANGED inbox
       \/ \E a \in CancelTargets(r) : Send(a, [type |-> "cancel_run", run |-> r])
    /\ UNCHANGED <<conn, open, wire, outbox, run, registry, op, sweep, stale, stuck>>

(* The API-key rotation endpoint tells the agent of the rotated key to shut *)
(* down, so that it authenticates again.                                    *)
RotateKey(a) ==
    /\ IsOnline(a)
    /\ Send(a, Shutdown)
    /\ UNCHANGED <<conn, open, wire, outbox, controlVars>>

-----------------------------------------------------------------------------
(* AgentMessageProcessor: the next frame of connection c of agent a.        *)
Inbound(a, c, type) ==
    /\ outbox[a][c] # <<>>
    /\ Head(outbox[a][c]).type = type
    /\ outbox' = [outbox EXCEPT ![a][c] = Tail(@)]
    /\ UNCHANGED <<conn, open, wire, inbox, registry, op, sweep, cancelling, stale, stuck>>

(* Variants of two handlers without the guard on a terminal status.         *)
OnRunStartedUnguarded(a, c) ==
    /\ Inbound(a, c, "run_started")
    /\ run' = [run EXCEPT ![Head(outbox[a][c]).run].status = "running",
                         ![Head(outbox[a][c]).run].worker = a]

OnRunFinishedUnguarded(a, c) ==
    /\ Inbound(a, c, "run_finished")
    /\ run' = [run EXCEPT ![Head(outbox[a][c]).run].status = Head(outbox[a][c]).status]

OnRunStarted(a, c) ==
    /\ Inbound(a, c, "run_started")
    /\ LET r == Head(outbox[a][c]).run
       IN  run' = IF Live(r)
                  THEN [run EXCEPT ![r] = StartedBy(@, a)]
                  ELSE run

(* Neither run_progress nor attempt_event looks at the status.              *)
OnRunProgress(a, c) ==
    /\ Inbound(a, c, "run_progress")
    /\ run' = [run EXCEPT ![Head(outbox[a][c]).run].quiet = 0]

OnRunFinished(a, c) ==
    /\ Inbound(a, c, "run_finished")
    /\ LET f == Head(outbox[a][c])
       IN  run' = IF f.status \in TerminalStatus /\ Live(f.run)
                  THEN [run EXCEPT ![f.run].status = f.status]
                  ELSE run

OnError(a, c) ==
    /\ Inbound(a, c, "error")
    /\ LET r == Head(outbox[a][c]).run
       IN  run' = IF Live(r) THEN [run EXCEPT ![r].status = "failed"] ELSE run

HandleFrame(a, c) ==
    OnRunStarted(a, c) \/ OnRunProgress(a, c) \/ OnRunFinished(a, c) \/ OnError(a, c)

-----------------------------------------------------------------------------
(* WatchdogService.TickAsync                                                *)
WatchdogIdle == stale = {} /\ stuck = {}

(* Variant: the staleness precondition is forgotten.                        *)
WatchdogScanAnyRunning ==
    /\ WatchdogIdle
    /\ stale' = {[run |-> r, worker |-> run[r].worker, quiet |-> run[r].quiet] :
                   r \in {q \in Run : run[q].status = "running"}}
    /\ UNCHANGED <<wireVars, run, registry, op, sweep, cancelling, stuck>>

WatchdogScanRunning ==
    /\ WatchdogIdle
    /\ stale' = {[run |-> r, worker |-> run[r].worker, quiet |-> run[r].quiet] :
                   r \in {q \in Run : run[q].status = "running" /\ run[q].quiet >= 1}}
    /\ UNCHANGED <<wireVars, run, registry, op, sweep, cancelling, stuck>>

(* Variant: an agent that is online always spares its runs.                 *)
SparedWhenOnline(s) == IsOnline(s.worker)

(* The registry is asked when the row's turn comes, the silence is the one  *)
(* of the query; the UPDATE re-checks the status and nothing else.          *)
Spared(s) == IsOnline(s.worker) /\ ~(NoProgressReap /\ s.quiet = 3)

WatchdogReapRunning(s) ==
    /\ s \in stale
    /\ stale' = stale \ {s}
    /\ run' = IF ~Spared(s) /\ run[s.run].status = "running"
              THEN [run EXCEPT ![s.run].status = "failed"]
              ELSE run
    /\ UNCHANGED <<wireVars, registry, op, sweep, cancelling, stuck>>

(* A tick that finds a tester 'starting' within WakeInFlightGrace skips     *)
(* this part: the scan is then simply not taken.                            *)
WatchdogScanQueued ==
    /\ WatchdogIdle
    /\ OnlineAgents = {}
    /\ stuck' = {r \in Run \ PendingRun : run[r].status = "queued" /\ run[r].quiet >= 2}
    /\ UNCHANGED <<wireVars, run, registry, op, sweep, cancelling, stale>>

WatchdogReapQueued(r) ==
    /\ r \in stuck
    /\ stuck' = stuck \ {r}
    /\ run' = IF run[r].status = "queued"
              THEN [run EXCEPT ![r].status = "failed"]
              ELSE run
    /\ UNCHANGED <<wireVars, registry, op, sweep, cancelling, stale>>

-----------------------------------------------------------------------------
(* Time passes for a run that is not terminal.  The dispatcher takes it for *)
(* granted that the inline dispatch has ended when the run counts as aged.  *)
Elapse(r) ==
    /\ Live(r)
    /\ \/ /\ ~run[r].aged
          /\ PromptDispatch => op[r].phase = "idle"
          /\ run' = [run EXCEPT ![r].aged = TRUE]
       \/ /\ run[r].aged
          /\ run[r].quiet < MaxQuiet
          /\ run' = [run EXCEPT ![r].quiet = @ + 1]
    /\ UNCHANGED <<wireVars, registry, op, sweep, cancelling, stale, stuck>>

ControlStep ==
    \/ \E r \in Run : Launch(r) \/ Cancel(r) \/ CancelFanOut(r) \/ Elapse(r)
    \/ \E x \in Dispatcher : TryAssignSelect(x) \/ TryAssignSend(x) \/ TryAssignStamp(x)
    \/ RedispatchQuery
    \/ RedispatchNext
    \/ \E a \in Agent, c \in Conn : HandleFrame(a, c)
    \/ WatchdogScanRunning
    \/ \E s \in stale : WatchdogReapRunning(s)
    \/ WatchdogScanQueued
    \/ \E r \in stuck : WatchdogReapQueued(r)
=============================================================================
