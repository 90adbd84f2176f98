---------------------------- MODULE RunLifecycle ----------------------------
(***************************************************************************)
(* What the control plane promises about a test_run row, without agents,   *)
(* frames or sweeps: a run is queued once, may be claimed and started (by  *)
(* an agent that may see it) while it is live, and ends once.              *)
(***************************************************************************)
CONSTANTS Run, Agent, None,
          MayExecute    \* MayExecute[r]: agents of the run's project

VARIABLE row            \* row[r]: status and worker_id of the row

LiveStatus == {"queued", "running"}
EndStatus == {"completed", "failed", "cancelled"}

Init == row = [r \in Run |-> [status |-> "absent", worker |-> None]]

Queue(r) ==
    /\ row[r].status = "absent"
    /\ row' = [row EXCEPT ![r] = [status |-> "queued", worker |-> None]]

Claim(r, a) ==
    /\ row[r].status \in LiveStatus
    /\ a \in MayExecute[r]
    /\ row' = [row EXCEPT ![r] = [status |-> row[r].status, worker |-> a]]

Start(r, a) ==
    /\ row[r].status \in LiveStatus
    /\ a \in MayExecute[r]
    /\ row' = [row EXCEPT ![r] = [status |-> "running", worker |-> a]]

End(r, s) ==
    /\ row[r].status \in LiveStatus
    /\ row' = [row EXCEPT ![r] = [status |-> s, worker |-> row[r].worker]]

Next ==
    \E r \in Run :
        \/ Queue(r)
        \/ \E a \in Agent : Claim(r, a) \/ Start(r, a)
        \/ \E s \in EndStatus : End(r, s)

Spec == Init /\ [][Next]_row
=============================================================================
