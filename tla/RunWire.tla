------------------------------ MODULE RunWire ------------------------------
(***************************************************************************)
(* The vocabulary that the control plane and the agents share: the frames  *)
(* of the raw WebSocket protocol that concern a test_run, and the          *)
(* connections that carry them.  An agent redials after every loss, so its *)
(* connections are numbered; a connection that broke can still hold frames *)
(* that the control plane has received and not yet processed while the     *)
(* next connection is already in use.                                      *)
(***************************************************************************)
EXTENDS Naturals, Sequences, FiniteSets, SequencesExt

CONSTANTS
    Run,        \* ids of the test_run rows that may be launched
    Agent,      \* ids of the agent rows
    None,       \* the null of worker_id, tester_id and absent references
    MaxConns,   \* bound: connections an agent opens in one behaviour
    Saturation  \* how full an agent's outbound channel gets: "none" never
                \* full, "burst" full at times, "stall" full for longer than
                \* a critical send waits

ASSUME WireAssumption ==
    /\ None \notin Run \cup Agent
    /\ MaxConns \in Nat \ {0}
    /\ Saturation \in {"none", "burst", "stall"}

VARIABLES
    conn,     \* conn[a]: number of the newest connection of a (0: none yet)
    open,     \* open[a]: a is inside RunOnceAsync, its frame sink is open
    wire,     \* wire[a]: connection conn[a] still carries frames
    inbox,    \* inbox[a]: control frames on their way to a
    outbox    \* outbox[a][c]: frames a sent on connection c, not processed

wireVars == <<conn, open, wire, inbox, outbox>>

Conn == 1..MaxConns

TerminalStatus == {"completed", "failed", "cancelled"}

ControlFrame ==
    [type : {"assign_run", "cancel_run"}, run : Run] \cup [type : {"shutdown"}, run : {None}]

(* status is the run status that the frame reports or implies *)
AgentFrame ==
    [type : {"run_started", "run_progress"}, run : Run, status : {"running"}]
        \cup [type : {"error"}, run : Run, status : {"failed"}]
        \cup [type : {"run_finished"}, run : Run, status : TerminalStatus]

Shutdown       == [type |-> "shutdown", run |-> None]
Started(r)     == [type |-> "run_started", run |-> r, status |-> "running"]
Progress(r)    == [type |-> "run_progress", run |-> r, status |-> "running"]
Error(r)       == [type |-> "error", run |-> r, status |-> "failed"]
Finished(r, s) == [type |-> "run_finished", run |-> r, status |-> s]

WireInit ==
    /\ conn = [a \in Agent |-> 0]
    /\ open = [a \in Agent |-> FALSE]
    /\ wire = [a \in Agent |-> FALSE]
    /\ inbox = [a \in Agent |-> <<>>]
    /\ outbox = [a \in Agent |-> [c \in Conn |-> <<>>]]

WireTypeOK ==
    /\ conn \in [Agent -> 0..MaxConns]
    /\ open \in [Agent -> BOOLEAN]
    /\ wire \in [Agent -> BOOLEAN]
    /\ inbox \in [Agent -> Seq(ControlFrame)]
    /\ outbox \in [Agent -> [Conn -> Seq(AgentFrame)]]

-----------------------------------------------------------------------------
(* ChannelFrameSink: what the sink of connection c accepts.  TrySend loses  *)
(* the frame when the channel is full; TrySendCriticalAsync waits for room  *)
(* and gives up after CriticalSendTimeout.  Both fail once the channel of   *)
(* that connection is completed, and nothing leaves on a broken connection. *)
TrySend(f) == {<<f>>} \cup (IF Saturation = "none" THEN {} ELSE {<<>>})

TrySendCritical(f) == {<<f>>} \cup (IF Saturation = "stall" THEN {<<>>} ELSE {})

Emit(a, c, fs) ==
    outbox' = IF c = conn[a] /\ open[a] /\ wire[a]
              THEN [outbox EXCEPT ![a][c] = @ \o fs]
              ELSE outbox

(* A connection breaks with any suffix of what it carries lost.             *)
Break(a) ==
    /\ wire' = [wire EXCEPT ![a] = FALSE]
    /\ \E s \in Prefixes(inbox[a]) : inbox' = [inbox EXCEPT ![a] = s]
    /\ IF conn[a] = 0
       THEN UNCHANGED outbox
       ELSE \E s \in Prefixes(outbox[a][conn[a]]) :
                outbox' = [outbox EXCEPT ![a][conn[a]] = s]
=============================================================================
