----------------------------- MODULE RunSystem -----------------------------
(***************************************************************************)
(* Control plane and agents together, over connections that come and go:   *)
(* the life of test_runs from launch to a terminal status.                 *)
(***************************************************************************)
EXTENDS RunControl, AgentWorker

CONSTANTS
    Faults,     \* which disturbances occur: subset of FaultKind
    MaxFaults   \* bound: number of them in one behaviour

FaultKind == {"break", "crash", "restart", "stamp", "rotate"}

ASSUME FaultAssumption == Faults \subseteq FaultKind /\ MaxFaults \in Nat

VARIABLE faults  \* disturbances that happened so far

vars == <<wireVars, agentVars, controlVars, faults>>

Init == WireInit /\ AgentInit /\ ControlInit /\ faults = 0

-----------------------------------------------------------------------------
(* A dial that passes authentication: the agent enters its receive loop and *)
(* the endpoint registers the new connection over any older one.            *)
Connect(a) ==
    /\ ~open[a]
    /\ conn[a] < MaxConns
    /\ conn' = [conn EXCEPT ![a] = @ + 1]
    /\ open' = [open EXCEPT ![a] = TRUE]
    /\ wire' = [wire EXCEPT ![a] = TRUE]
    /\ registry' = [registry EXCEPT ![a] = conn[a] + 1]
    /\ UNCHANGED <<inbox, outbox, agentVars, run, op, sweep, cancelling, stale, stuck, faults>>

(* The endpoint's receive loop ended (close, error or idle timeout) after   *)
(* the frames that arrived: Unregister removes the entry if it is still     *)
(* that connection's, HandleDisconnect leaves the runs alone.               *)
Disconnect(a) ==
    /\ IsOnline(a)
    /\ registry[a] = conn[a]
    /\ ~wire[a]
    /\ outbox[a][registry[a]] = <<>>
    /\ registry' = [registry EXCEPT ![a] = 0]
    /\ UNCHANGED <<wireVars, agentVars, run, op, sweep, cancelling, stale, stuck, faults>>

Fault(kind) ==
    /\ kind \in Faults
    /\ faults < MaxFaults
    /\ faults' = faults + 1

LinkBreaks(a) ==
    /\ Fault("break")
    /\ wire[a]
    /\ Break(a)
    /\ UNCHANGED <<conn, open, agentVars, controlVars>>

AgentDies(a) ==
    /\ Fault("crash")
    /\ AgentCrash(a)
    /\ UNCHANGED controlVars

(* The control plane restarts: the rows survive; the registry, every        *)
(* request and tick in progress and all sockets do not.  Agents still get   *)
(* what was on its way to them.                                             *)
ControlPlaneRestarts ==
    /\ Fault("restart")
    /\ registry' = [a \in Agent |-> 0]
    /\ op' = [x \in Dispatcher |-> Idle]
    /\ sweep' = {}
    /\ cancelling' = {}
    /\ stale' = {}
    /\ stuck' = {}
    /\ wire' = [a \in Agent |-> FALSE]
    /\ \E s \in [Agent -> UNION {Prefixes(inbox[a]) : a \in Agent}] :
         /\ \A a \in Agent : s[a] \in Prefixes(inbox[a])
         /\ inbox' = s
    /\ outbox' = [a \in Agent |-> [c \in Conn |-> <<>>]]
    /\ UNCHANGED <<conn, open, agentVars, run>>

StampFails(x) ==
    /\ Fault("stamp")
    /\ TryAssignStampFails(x)
    /\ UNCHANGED agentVars

KeyRotated(a) ==
    /\ Fault("rotate")
    /\ RotateKey(a)
    /\ UNCHANGED agentVars

-----------------------------------------------------------------------------
SystemStep ==
    \/ \E a \in Agent : \/ Connect(a) \/ Disconnect(a)
                       \/ LinkBreaks(a) \/ AgentDies(a) \/ KeyRotated(a)
    \/ ControlPlaneRestarts
    \/ \E x \in Dispatcher : StampFails(x)

Next ==
    \/ ControlStep /\ UNCHANGED <<agentVars, faults>>
    \/ \E a \in Agent : AgentStep(a) /\ UNCHANGED <<controlVars, faults>>
    \/ SystemStep

Spec == Init /\ [][Next]_vars

(* What the program keeps doing: requests in progress run on, agents read   *)
(* their frames and redial, tester processes end by their deadline, waiters *)
(* get slots in turn, ticks recur (each tick runs both parts of the         *)
(* watchdog), a dead socket is noticed, and time passes.  Users and faults  *)
(* promise nothing.                                                         *)
Control(A) == A /\ UNCHANGED <<agentVars, faults>>
Agents(A) == A /\ UNCHANGED <<controlVars, faults>>

Fairness ==
    /\ \A x \in Dispatcher :
         WF_vars(Control(TryAssignSelect(x) \/ TryAssignSend(x) \/ TryAssignStamp(x)))
    /\ WF_vars(Control(RedispatchQuery)) /\ WF_vars(Control(RedispatchNext))
    /\ SF_vars(Control(WatchdogScanRunning)) /\ SF_vars(Control(WatchdogScanQueued))
    /\ WF_vars(Control(\E s \in stale : WatchdogReapRunning(s)))
    /\ WF_vars(Control(\E r \in stuck : WatchdogReapQueued(r)))
    /\ \A r \in Run : WF_vars(Control(CancelFanOut(r))) /\ WF_vars(Control(Elapse(r)))
    /\ \A a \in Agent :
         /\ WF_vars(Connect(a)) /\ WF_vars(Disconnect(a))
         /\ \A c \in Conn : WF_vars(Control(HandleFrame(a, c)))
         /\ WF_vars(Agents(HandleAssignRun(a) \/ HandleCancelRun(a) \/ HandleShutdown(a)))
         /\ WF_vars(Agents(Teardown(a)))
         /\ \A t \in Task :
              /\ SF_vars(Agents(AcquireSlot(a, t)))
              /\ WF_vars(Agents(AbandonWait(a, t) \/ BeginExecute(a, t) \/ FinishTask(a, t)))
              /\ WF_vars(Agents(\/ ExecuteCompleted(a, t) \/ ExecuteFailed(a, t)
                                \/ ExecuteCancelled(a, t)))

FairSpec == Spec /\ Fairness

-----------------------------------------------------------------------------
(* Every variable holds values of its kind: rows, frames, tasks, permits.   *)
TypeOK == WireTypeOK /\ AgentTypeOK /\ ControlTypeOK /\ faults \in 0..MaxFaults

(* No path through a task loses or duplicates a permit of _runSlots: the    *)
(* free permits and the tasks that hold one always add up, so an agent      *)
(* never runs more than MaxConcurrentRuns probes nor loses a slot for good. *)
PermitsConserved ==
    \A a \in Agent : permits[a] + Cardinality(Holding(a)) = MaxConcurrentRuns

Executes(a, r) ==
    \E t \in Task : /\ task[a][t].run = r
                   /\ task[a][t].phase \in {"acquired", "executing"}
                   /\ task[a][t].token # "cancelled"

(* A run is executed by one agent at a time, and while its row is live that *)
(* agent is the one worker_id names once the row is claimed: redispatch,    *)
(* launch and late claims never put two agents on the same run.             *)
SingleExecutor ==
    \A a \in Agent, r \in Run : Executes(a, r) =>
        /\ \A b \in Agent : Executes(b, r) => b = a
        /\ Live(r) => run[r].worker \in {a, None}

(* One agent never runs two uncancelled tasks of the same run, whatever     *)
(* mixture of repeated assign_run and cancel_run frames reaches it.         *)
OneTaskPerRun ==
    \A a \in Agent : \A t, u \in Task :
        /\ task[a][t].phase # "free" /\ task[a][t].token # "cancelled"
        /\ task[a][u].phase # "free" /\ task[a][u].token # "cancelled"
        /\ task[a][t].run = task[a][u].run
        => t = u

(* Every task that cancel_run, shutdown or a disconnect has not tripped is  *)
(* still reachable through its handle in _running.                          *)
TasksCancellable ==
    \A a \in Agent, t \in Task :
        /\ task[a][t].phase # "free"
        /\ task[a][t].token # "cancelled"
        => handle[a][task[a][t].run] = t

(* A run (and the project's secrets its assignment carries) reaches only    *)
(* agents of the run's own project.                                         *)
ProjectIsolation ==
    \A a \in Agent :
        /\ \A i \in 1..Len(inbox[a]) : inbox[a][i].type # "shutdown" =>
              AgentProject[a] = RunProject[inbox[a][i].run]
        /\ \A t \in Task : task[a][t].phase # "free" =>
              AgentProject[a] = RunProject[task[a][t].run]

(* A disconnect aborts what the connection brought (AgentWorker.cs:84): no  *)
(* execution outlives it untripped into the next connection, over which the *)
(* control plane may assign the run anew.  Exempt is a task whose source    *)
(* the finally of another task of its run disposed (AgentWorker.cs:261).    *)
NoneOutlivesItsConnection ==
    \A a \in Agent, t \in Task :
        /\ task[a][t].phase # "free"
        /\ task[a][t].token = "live"
        => open[a] /\ task[a][t].conn = conn[a]

(* Completed, failed and cancelled are final: no late, repeated or crossing *)
(* frame, claim, cancel or sweep moves a row out of a terminal status.      *)
TerminalIsFinal ==
    [][\A r \in Run : run[r].status \in TerminalStatus
                        => run'[r].status = run[r].status]_vars

(* The rows, as RunLifecycle sees them, only ever make the steps it allows: *)
(* no interleaving of launches, claims, frames, cancels, sweeps and faults  *)
(* revives a run, ends it twice, or lets a foreign agent claim or start it. *)
Lifecycle == INSTANCE RunLifecycle WITH
    row <- [r \in Run |-> [status |-> run[r].status, worker |-> run[r].worker]],
    MayExecute <- [r \in Run |-> {a \in Agent : AgentProject[a] = RunProject[r]}]

LifecycleSpec == Lifecycle!Spec

(* Every launched run reaches a terminal status: whatever agents refuse,    *)
(* lose or never finish, a frame, the redispatcher or a sweep ends it.      *)
LaunchedRunsEnd ==
    \A r \in Run : run[r].status = "queued" ~> run[r].status \in TerminalStatus

(* A run that was started is brought to an end even when its agent is lost, *)
(* dies or comes back without it.                                           *)
StartedRunsEnd ==
    \A r \in Run : run[r].status = "running" ~> run[r].status \in TerminalStatus

(* A queued run that an agent claimed is never silently stranded: it is     *)
(* started or brought to an end.                                            *)
ClaimedRunsMove ==
    \A r \in Run : (run[r].status = "queued" /\ run[r].worker # None)
                      ~> run[r].status # "queued"
=============================================================================
