---------------------------- MODULE AgentWorker ----------------------------
(***************************************************************************)
(* The runner process (Networker.Agent): AgentWorker's assignment table,   *)
(* run slots and dedupe memory, one task per accepted assign_run, and the  *)
(* frames RunExecutor sends from that task.                                *)
(*                                                                         *)
(* A task is the Task.Run body of HandleAssignRun.  Its token is the       *)
(* CancellationTokenSource of its RunHandle:                               *)
(*   live       linked to the connection, can still be tripped             *)
(*   cancelled  tripped (and disposed) by cancel_run or a disconnect       *)
(*   disposed   disposed without having been tripped: another task of the  *)
(*              same run id removed this task's handle in its finally      *)
(***************************************************************************)
EXTENDS RunWire

CONSTANTS
    Task,              \* bound: tasks an agent has in progress at a time
    MaxConcurrentRuns, \* permits of _runSlots
    RecentCapacity,    \* RecentlyFinishedCapacity
    OutboxBound        \* bound: run_progress frames queued on a connection

ASSUME AgentAssumption ==
    /\ None \notin Task
    /\ IsFiniteSet(Task)
    /\ MaxConcurrentRuns \in Nat \ {0}
    /\ RecentCapacity \in Nat
    /\ OutboxBound \in Nat

VARIABLES
    task,     \* task[a][t]: the tasks of agent a
    handle,   \* handle[a][r]: _running, the task whose handle r maps to
    permits,  \* permits[a]: _runSlots.CurrentCount
    recent    \* recent[a]: _recentlyFinished, oldest first

agentVars == <<task, handle, permits, recent>>

Phase == {"free", "waiting", "acquired", "executing", "done"}
Token == {"live", "cancelled", "disposed"}

TaskRecord == [phase : Phase, run : Run \cup {None}, conn : 0..MaxConns, token : Token]

FreeTask == [phase |-> "free", run |-> None, conn |-> 0, token |-> "live"]

(* A task as it is in another phase, or with another state of its token.    *)
InPhase(k, phase) == [phase |-> phase, run |-> k.run, conn |-> k.conn, token |-> k.token]
WithToken(k, token) == [phase |-> k.phase, run |-> k.run, conn |-> k.conn, token |-> token]

(* The tasks that hold a permit of _runSlots.                               *)
Holding(a) == {t \in Task : task[a][t].phase \in {"acquired", "executing", "done"}}

AgentInit ==
    /\ task = [a \in Agent |-> [t \in Task |-> FreeTask]]
    /\ handle = [a \in Agent |-> [r \in Run |-> None]]
    /\ permits = [a \in Agent |-> MaxConcurrentRuns]
    /\ recent = [a \in Agent |-> <<>>]

AgentTypeOK ==
    /\ task \in [Agent -> [Task -> TaskRecord]]
    /\ handle \in [Agent -> [Run -> Task \cup {None}]]
    /\ permits \in [Agent -> 0..MaxConcurrentRuns]
    /\ recent \in [Agent -> Seq(Run)]

-----------------------------------------------------------------------------
(* RecentRunSet.Add: keeps its place when present, else evicts the oldest.  *)
Remember(s, r) ==
    IF Contains(s, r) THEN s
    ELSE LET longer == Append(s, r)
         IN  IF Len(longer) > RecentCapacity THEN Tail(longer) ELSE longer

(* Variant: the assignment table is not consulted, only the finished ids.   *)
SeenFinishedOnly(a, r) == Contains(recent[a], r)

Seen(a, r) == Contains(recent[a], r) \/ handle[a][r] # None

Receives(a, type) ==
    /\ open[a]
    /\ inbox[a] # <<>>
    /\ Head(inbox[a]).type = type
    /\ inbox' = [inbox EXCEPT ![a] = Tail(@)]
    /\ UNCHANGED <<conn, open, wire, outbox>>

(* assign_run: dropped when the run finished here recently or has a handle, *)
(* else it gets a handle and a task that waits for a run slot.              *)
HandleAssignRun(a) ==
    /\ Receives(a, "assign_run")
    /\ UNCHANGED <<permits, recent>>
    /\ LET r == Head(inbox[a]).run
       IN  \/ /\ Seen(a, r)
              /\ UNCHANGED <<task, handle>>
           \/ /\ ~Seen(a, r)
              /\ \E t \in Task :
                    /\ task[a][t].phase = "free"
                    /\ task' = [task EXCEPT ![a][t] =
                         [phase |-> "waiting", run |-> r,
                          conn |-> conn[a], token |-> "live"]]
                    /\ handle' = [handle EXCEPT ![a][r] = t]

(* Variant: the handle is removed but never tripped.                        *)
HandleCancelRunUntripped(a) ==
    /\ Receives(a, "cancel_run")
    /\ handle' = [handle EXCEPT ![a][Head(inbox[a]).run] = None]
    /\ UNCHANGED <<task, permits, recent>>

(* cancel_run: the handle is taken out, tripped and disposed.               *)
HandleCancelRun(a) ==
    /\ Receives(a, "cancel_run")
    /\ UNCHANGED <<permits, recent>>
    /\ LET r == Head(inbox[a]).run
           t == handle[a][r]
       IN  /\ handle' = [handle EXCEPT ![a][r] = None]
           /\ task' = IF t = None THEN task
                      ELSE [task EXCEPT ![a][t] = WithToken(@, "cancelled")]

(* CancelAllRuns: every handle is tripped and removed.                      *)
CancelAllRuns(a) ==
    /\ task' = [task EXCEPT ![a] =
         [t \in Task |-> IF \E r \in Run : handle[a][r] = t
                         THEN WithToken(task[a][t], "cancelled")
                         ELSE task[a][t]]]
    /\ handle' = [handle EXCEPT ![a] = [r \in Run |-> None]]
    /\ UNCHANGED <<permits, recent>>

(* shutdown: all runs are aborted; the connection stays up.                 *)
HandleShutdown(a) ==
    /\ Receives(a, "shutdown")
    /\ CancelAllRuns(a)

(* Variant: the runs go on when the connection ends, and only their         *)
(* handles are dropped.                                                     *)
TeardownLettingRun(a) ==
    /\ open[a]
    /\ ~wire[a]
    /\ open' = [open EXCEPT ![a] = FALSE]
    /\ inbox' = [inbox EXCEPT ![a] = <<>>]
    /\ handle' = [handle EXCEPT ![a] = [r \in Run |-> None]]
    /\ UNCHANGED <<conn, wire, outbox, task, permits, recent>>

(* RunOnceAsync returned: the sink is closed and the runs are aborted.      *)
Teardown(a) ==
    /\ open[a]
    /\ ~wire[a]
    /\ open' = [open EXCEPT ![a] = FALSE]
    /\ inbox' = [inbox EXCEPT ![a] = <<>>]
    /\ CancelAllRuns(a)
    /\ UNCHANGED <<conn, wire, outbox>>

-----------------------------------------------------------------------------
(* _runSlots.WaitAsync, which is outside the task's try.                    *)
AcquireSlot(a, t) ==
    /\ task[a][t].phase = "waiting"
    /\ task[a][t].token # "cancelled"
    /\ permits[a] > 0
    /\ permits' = [permits EXCEPT ![a] = @ - 1]
    /\ task' = [task EXCEPT ![a][t] = InPhase(@, "acquired")]
    /\ UNCHANGED <<wireVars, handle, recent>>

(* Variant: the wait is inside the try, so the finally returns a permit     *)
(* that was never taken.                                                    *)
AbandonWaitReleasing(a, t) ==
    /\ task[a][t].phase = "waiting"
    /\ task[a][t].token # "live"
    /\ task' = [task EXCEPT ![a][t] = FreeTask]
    /\ permits' = [permits EXCEPT ![a] = @ + 1]
    /\ UNCHANGED <<wireVars, handle, recent>>

(* Cancelled while it waits, or its source disposed before it could wait:   *)
(* the task ends there, without its finally.                                *)
AbandonWait(a, t) ==
    /\ task[a][t].phase = "waiting"
    /\ task[a][t].token # "live"
    /\ task' = [task EXCEPT ![a][t] = FreeTask]
    /\ UNCHANGED <<wireVars, handle, permits, recent>>

(* Frames of a task, each through the sink of the connection that brought   *)
(* its assign_run, and the phase they leave the task in.                    *)
Reports(a, t, sends, phase) ==
    /\ \E fs \in sends : Emit(a, task[a][t].conn, fs)
    /\ task' = [task EXCEPT ![a][t] = InPhase(@, phase)]
    /\ UNCHANGED <<conn, open, wire, inbox, handle, permits, recent>>

Then(s1, s2) == {p[1] \o p[2] : p \in s1 \X s2}

SendFailure(r) ==
    Then(TrySendCritical(Error(r)), TrySendCritical(Finished(r, "failed")))

(* ExecuteAsync is entered with runCts.Token.  Reading the token of a       *)
(* disposed source throws, and the worker reports the run as failed.        *)
BeginExecute(a, t) ==
    /\ task[a][t].phase = "acquired"
    /\ \/ /\ task[a][t].token = "live"
          /\ Reports(a, t, TrySend(Started(task[a][t].run)), "executing")
       \/ /\ task[a][t].token # "live"
          /\ Reports(a, t, SendFailure(task[a][t].run), "done")

(* An attempt_event or run_progress relayed from the tester process.        *)
RelayProgress(a, t) ==
    /\ task[a][t].phase = "executing"
    /\ task[a][t].conn = conn[a]
    /\ Len(outbox[a][conn[a]]) < OutboxBound
    /\ Reports(a, t, TrySend(Progress(task[a][t].run)), "executing")

(* Every invocation ended well: last counts, then the terminal frame.       *)
ExecuteCompleted(a, t) ==
    /\ task[a][t].phase = "executing"
    /\ Reports(a, t, Then(TrySend(Progress(task[a][t].run)),
                          TrySendCritical(Finished(task[a][t].run, "completed"))),
               "done")

(* A configuration, spawn, exit-code or deadline failure.                   *)
ExecuteFailed(a, t) ==
    /\ task[a][t].phase = "executing"
    /\ Reports(a, t, SendFailure(task[a][t].run), "done")

(* The executor saw the tripped token: between invocations it reports the   *)
(* cancelled terminal, while locating the binary it unwinds silently.       *)
ExecuteCancelled(a, t) ==
    /\ task[a][t].phase = "executing"
    /\ task[a][t].token = "cancelled"
    /\ Reports(a, t, {<<>>} \cup TrySendCritical(Finished(task[a][t].run, "cancelled")),
               "done")

(* The finally: the id is remembered, the permit returned, and whatever     *)
(* handle the run id maps to NOW is removed and disposed.                   *)
FinishTask(a, t) ==
    /\ task[a][t].phase = "done"
    /\ LET r == task[a][t].run
           h == handle[a][r]
       IN  /\ recent' = [recent EXCEPT ![a] = Remember(@, r)]
           /\ permits' = [permits EXCEPT ![a] = @ + 1]
           /\ handle' = [handle EXCEPT ![a][r] = None]
           /\ task' = [task EXCEPT ![a] =
                [u \in Task |->
                   IF u = t THEN FreeTask
                   ELSE IF u = h THEN WithToken(task[a][u], "disposed")
                   ELSE task[a][u]]]
    /\ UNCHANGED wireVars

(* The process dies (or its VM stops): everything it held is gone.          *)
AgentCrash(a) ==
    /\ conn[a] # 0
    /\ wire' = [wire EXCEPT ![a] = FALSE]
    /\ open' = [open EXCEPT ![a] = FALSE]
    /\ inbox' = [inbox EXCEPT ![a] = <<>>]
    /\ \E s \in Prefixes(outbox[a][conn[a]]) :
           outbox' = [outbox EXCEPT ![a][conn[a]] = s]
    /\ task' = [task EXCEPT ![a] = [t \in Task |-> FreeTask]]
    /\ handle' = [handle EXCEPT ![a] = [r \in Run |-> None]]
    /\ permits' = [permits EXCEPT ![a] = MaxConcurrentRuns]
    /\ recent' = [recent EXCEPT ![a] = <<>>]
    /\ UNCHANGED conn

TaskStep(a, t) ==
    \/ AcquireSlot(a, t)
    \/ AbandonWait(a, t)
    \/ BeginExecute(a, t)
    \/ RelayProgress(a, t)
    \/ ExecuteCompleted(a, t)
    \/ ExecuteFailed(a, t)
    \/ ExecuteCancelled(a, t)
    \/ FinishTask(a, t)

AgentStep(a) ==
    \/ HandleAssignRun(a)
    \/ HandleCancelRun(a)
    \/ HandleShutdown(a)
    \/ Teardown(a)
    \/ \E t \in Task : TaskStep(a, t)
=============================================================================
