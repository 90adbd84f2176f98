--------------------------- MODULE AgentPresence ---------------------------
(***************************************************************************)
(* Who is online: the agent row's status, which is a cache, against the    *)
(* AgentConnectionRegistry, which is the truth.  One agent dials again and *)
(* again; each of its connections has a handler of its own in              *)
(* AgentSocketEndpoint (HandleAsync), and the handler of a lost connection *)
(* may take until the idle timeout to notice.  ReaperService reconciles.   *)
(*                                                                         *)
(* Row updates through EF's change tracker are a read and a save: the save *)
(* writes status only if it differs from the status that was read.         *)
(***************************************************************************)
EXTENDS Naturals

CONSTANTS
    MaxConns,      \* bound: connections the agent dials in one behaviour
    MaxRestarts,   \* bound: control-plane restarts in one behaviour
    PromptConnect  \* TRUE: a handler has registered its connection, or given
                   \* it up, before the agent can dial the next one

ASSUME PresenceAssumption ==
    /\ MaxConns \in Nat \ {0}
    /\ MaxRestarts \in Nat
    /\ PromptConnect \in BOOLEAN

VARIABLES
    dialed,    \* number of the newest connection, 0 before the first
    link,      \* link[c]: "up", or lost with ("draining") or without
               \* ("down") a heartbeat that the handler has yet to read
    handler,   \* handler[c]: how far HandleAsync of connection c has come
    seen,      \* seen[c]: row status in the handler's change tracker
    registry,  \* the registered connection, 0 when none
    row,       \* the agent row: status, and age of last_heartbeat
    reaper,    \* ReaperService.TickAsync: phase, and its registry snapshot
    restarts   \* control-plane restarts so far

vars == <<dialed, link, handler, seen, registry, row, reaper, restarts>>

Conn == 1..MaxConns
Link == {"up", "draining", "down"}
RowStatus == {"online", "offline", "retired"}

(* The awaits of HandleAsync, in order: HandleConnect's read and save, the  *)
(* receive loop with OnHeartbeat's read and save, and HandleDisconnect's    *)
(* read and save after Unregister.                                          *)
Connecting == {"accepted", "connectSave", "register"}
Serving == {"serving", "heartbeatSave"}
Handler == {"none", "ended"} \cup Connecting \cup Serving
              \cup {"closing", "offline", "offlineSave"}

(* beat: 0 fresh, 1 older than StaleAfter (90s), 2 than RetireAfter (30 d). *)
Row == [status : RowStatus, beat : 0..2]
Reaper == [phase : {"idle", "candidate", "update", "snapshot", "retire"}, online : BOOLEAN]

Init ==
    /\ dialed = 0
    /\ link = [c \in Conn |-> "down"]
    /\ handler = [c \in Conn |-> "none"]
    /\ seen = [c \in Conn |-> "offline"]
    /\ registry = 0
    /\ row \in [status : {"online", "offline", "retired"}, beat : {2}]
    /\ reaper = [phase |-> "idle", online |-> FALSE]
    /\ restarts = 0

TypeOK ==
    /\ dialed \in 0..MaxConns
    /\ link \in [Conn -> Link]
    /\ handler \in [Conn -> Handler]
    /\ seen \in [Conn -> RowStatus]
    /\ registry \in 0..MaxConns
    /\ row \in Row
    /\ reaper \in Reaper
    /\ restarts \in 0..MaxRestarts

IsOnline == registry # 0

-----------------------------------------------------------------------------
(* The agent and the network                                                *)

(* RunOnceAsync of the agent: a new connection once the last one is lost.   *)
(* The endpoint authenticates and accepts it.                               *)
Dial ==
    /\ dialed < MaxConns
    /\ dialed # 0 => link[dialed] # "up"
    /\ PromptConnect => \A c \in Conn : handler[c] \notin Connecting
    /\ dialed' = dialed + 1
    /\ link' = [link EXCEPT ![dialed + 1] = "up"]
    /\ handler' = [handler EXCEPT ![dialed + 1] = "accepted"]
    /\ UNCHANGED <<seen, registry, row, reaper, restarts>>

Break(c) ==
    /\ link[c] = "up"
    /\ \E l \in {"draining", "down"} : link' = [link EXCEPT ![c] = l]
    /\ UNCHANGED <<dialed, handler, seen, registry, row, reaper, restarts>>

(* The heartbeat grows old.  A connected agent beats every 30s, so only an  *)
(* agent that is away for long can be silent for RetireAfter.               *)
Elapse ==
    /\ row.beat < 2
    /\ row.beat = 1 => \A c \in Conn : link[c] # "up"
    /\ row' = [status |-> row.status, beat |-> row.beat + 1]
    /\ UNCHANGED <<dialed, link, handler, seen, registry, reaper, restarts>>

-----------------------------------------------------------------------------
(* AgentSocketEndpoint.HandleAsync of connection c                          *)

At(c, phase, next) ==
    /\ handler[c] = phase
    /\ handler' = [handler EXCEPT ![c] = next]
    /\ UNCHANGED <<dialed, link, reaper, restarts>>

ReadRow(c) == seen' = [seen EXCEPT ![c] = row.status]

(* SaveChangesAsync after status was set to s on the entity that was read.  *)
Saved(c, s) == IF seen[c] # s THEN s ELSE row.status

HandleConnectRead(c) ==
    /\ At(c, "accepted", "connectSave")
    /\ ReadRow(c)
    /\ UNCHANGED <<registry, row>>

HandleConnectSave(c) ==
    /\ At(c, "connectSave", "register")
    /\ row' = [status |-> Saved(c, "online"), beat |-> 0]
    /\ UNCHANGED <<seen, registry>>

(* RequestAborted fires before the connection is registered.                *)
HandleConnectAborted(c) ==
    /\ link[c] # "up"
    /\ At(c, "accepted", "closing") \/ At(c, "connectSave", "closing")
    /\ UNCHANGED <<seen, registry, row>>

(* Register overwrites whatever connection was registered.                  *)
Register(c) ==
    /\ At(c, "register", "serving")
    /\ registry' = c
    /\ UNCHANGED <<seen, row>>

(* OnHeartbeat; the frame was sent on a live link or was read before it     *)
(* was lost.                                                                *)
HeartbeatRead(c) ==
    /\ handler[c] = "serving"
    /\ link[c] \in {"up", "draining"}
    /\ handler' = [handler EXCEPT ![c] = "heartbeatSave"]
    /\ link' = IF link[c] = "draining" THEN [link EXCEPT ![c] = "down"] ELSE link
    /\ ReadRow(c)
    /\ UNCHANGED <<dialed, registry, row, reaper, restarts>>

(* Variant: only the heartbeat's time is written.                           *)
HeartbeatSaveTimeOnly(c) ==
    /\ At(c, "heartbeatSave", "serving")
    /\ row' = [status |-> row.status, beat |-> 0]
    /\ UNCHANGED <<seen, registry>>

HeartbeatSave(c) ==
    /\ At(c, "heartbeatSave", "serving")
    /\ row' = [status |-> Saved(c, "online"), beat |-> 0]
    /\ UNCHANGED <<seen, registry>>

(* The receive loop ends: close, error or idle timeout.                     *)
LoopEnds(c) ==
    /\ link[c] # "up"
    /\ At(c, "serving", "closing")
    /\ UNCHANGED <<seen, registry, row>>

(* Variant: the entry is removed without comparing the connection.          *)
UnregisterAny(c) ==
    /\ registry' = 0
    /\ At(c, "closing", "offline")
    /\ UNCHANGED <<seen, row>>

(* Compare-and-remove; the disconnect cleanup is skipped when a newer       *)
(* registration superseded this one.                                        *)
Unregister(c) ==
    /\ \/ /\ registry = c
          /\ registry' = 0
          /\ At(c, "closing", "offline")
       \/ /\ registry # c
          /\ UNCHANGED registry
          /\ At(c, "closing", "ended")
    /\ UNCHANGED <<seen, row>>

HandleDisconnectRead(c) ==
    /\ At(c, "offline", "offlineSave")
    /\ ReadRow(c)
    /\ UNCHANGED <<registry, row>>

HandleDisconnectSave(c) ==
    /\ At(c, "offlineSave", "ended")
    /\ row' = [status |-> Saved(c, "offline"), beat |-> row.beat]
    /\ UNCHANGED <<seen, registry>>

-----------------------------------------------------------------------------
(* ReaperService.TickAsync                                                  *)

Tick(phase, next) ==
    /\ reaper.phase = phase
    /\ reaper' = [phase |-> next, online |-> reaper.online]
    /\ UNCHANGED <<dialed, link, handler, seen, registry, restarts>>

(* Variant: the comparison with the staleness cutoff is the wrong way.      *)
ReaperQueryFresh ==
    /\ UNCHANGED row
    /\ \/ row.status = "online" /\ row.beat = 0 /\ Tick("idle", "candidate")
       \/ ~(row.status = "online" /\ row.beat = 0) /\ Tick("idle", "snapshot")

ReaperQuery ==
    /\ UNCHANGED row
    /\ \/ row.status = "online" /\ row.beat >= 1 /\ Tick("idle", "candidate")
       \/ ~(row.status = "online" /\ row.beat >= 1) /\ Tick("idle", "snapshot")

(* Registry membership is authoritative.                                    *)
ReaperCheck ==
    /\ UNCHANGED row
    /\ \/ IsOnline /\ Tick("candidate", "snapshot")
       \/ ~IsOnline /\ Tick("candidate", "update")

(* The UPDATE is guarded by the status only.                                *)
ReaperUpdate ==
    /\ Tick("update", "snapshot")
    /\ row' = [status |-> IF row.status = "online" THEN "offline" ELSE row.status,
               beat |-> row.beat]

ReaperSnapshot ==
    /\ reaper.phase = "snapshot"
    /\ reaper' = [phase |-> "retire", online |-> IsOnline]
    /\ UNCHANGED <<dialed, link, handler, seen, registry, row, restarts>>

ReaperRetire ==
    /\ Tick("retire", "idle")
    /\ row' = [status |-> IF row.status = "offline" /\ row.beat = 2 /\ ~reaper.online
                          THEN "retired" ELSE row.status,
               beat |-> row.beat]

-----------------------------------------------------------------------------
(* A restart: the row stays as it is; registry, handlers, sockets and the   *)
(* tick in progress are gone.                                               *)
Restart ==
    /\ restarts < MaxRestarts
    /\ restarts' = restarts + 1
    /\ registry' = 0
    /\ link' = [c \in Conn |-> "down"]
    /\ handler' = [c \in Conn |-> IF handler[c] = "none" THEN "none" ELSE "ended"]
    /\ reaper' = [phase |-> "idle", online |-> FALSE]
    /\ UNCHANGED <<dialed, seen, row>>

HandlerStep(c) ==
    \/ HandleConnectRead(c) \/ HandleConnectSave(c) \/ HandleConnectAborted(c)
    \/ Register(c)
    \/ HeartbeatRead(c) \/ HeartbeatSave(c)
    \/ LoopEnds(c) \/ Unregister(c)
    \/ HandleDisconnectRead(c) \/ HandleDisconnectSave(c)

ReaperStep ==
    ReaperQuery \/ ReaperCheck \/ ReaperUpdate \/ ReaperSnapshot \/ ReaperRetire

Next ==
    \/ Dial
    \/ Elapse
    \/ Restart
    \/ ReaperStep
    \/ \E c \in Conn : Break(c) \/ HandlerStep(c)

Spec == Init /\ [][Next]_vars

(* Handlers run on, live agents beat, lost connections are noticed at the   *)
(* idle timeout, ticks recur and time passes; dialling and losing promise   *)
(* nothing.                                                                 *)
FairSpec ==
    /\ Spec
    /\ WF_vars(ReaperStep)
    /\ WF_vars(Elapse)
    /\ \A c \in Conn : WF_vars(HandlerStep(c))

-----------------------------------------------------------------------------
(* The registry sends to the connection the agent is on: a connection in    *)
(* service that still works and is the agent's newest is the registered     *)
(* one.  No late cleanup or registration of an older connection cuts the    *)
(* agent off from assignments while both ends believe it connected.         *)
LiveConnectionRegistered ==
    \A c \in Conn :
        c = dialed /\ handler[c] \in Serving /\ link[c] = "up" => registry = c

(* However connects, cleanups, heartbeats and reaper ticks overwrite each   *)
(* other's row, an agent that stays connected comes to be shown online.     *)
ConnectedShownOnline ==
    \A c \in Conn : (registry = c /\ link[c] = "up")
                       ~> (row.status = "online" \/ link[c] # "up")

(* An agent that vanished (also through a restart, or with a heartbeat      *)
(* written after its cleanup) does not stay online in the row.              *)
VanishedShownOffline ==
    (row.status = "online" /\ ~IsOnline) ~> (row.status # "online" \/ IsOnline)

=============================================================================
