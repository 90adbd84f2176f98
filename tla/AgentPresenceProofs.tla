------------------------ MODULE AgentPresenceProofs ------------------------
(***************************************************************************)
(* Proofs about AgentPresence for any number of connections and restarts.  *)
(* The registry follows the agent because only the newest connection can   *)
(* still be on its way to Register (this is what PromptConnect gives), and *)
(* because Unregister compares before it removes.                          *)
(***************************************************************************)
EXTENDS AgentPresence, TLAPS

(* Only the newest connection may still register, and once it is served it  *)
(* is the registered one.                                                   *)
NewestRegisters ==
    \A c \in Conn :
        /\ handler[c] \in Connecting => c = dialed
        /\ handler[c] \in Serving /\ c = dialed => registry = c

(* Every step of a connection's handler, of the reaper, of the agent and a  *)
(* restart keeps rows, handlers and registry well typed.                    *)
LEMMA TypeStep == TypeOK /\ [Next]_vars => TypeOK'
<1> SUFFICES ASSUME TypeOK, [Next]_vars PROVE TypeOK'
  OBVIOUS
<1> USE PresenceAssumption DEF TypeOK, Conn, Link, RowStatus, Handler, Connecting, Serving, Row, Reaper
<1>1. CASE Dial
  BY <1>1 DEF Dial
<1>2. CASE Elapse
  BY <1>2 DEF Elapse
<1>3. CASE Restart
  BY <1>3 DEF Restart
<1>4. CASE ReaperStep
  <2>1. CASE ReaperQuery
    BY <2>1 DEF ReaperQuery, Tick
  <2>2. CASE ReaperCheck
    BY <2>2 DEF ReaperCheck, Tick
  <2>3. CASE ReaperUpdate
    BY <2>3 DEF ReaperUpdate, Tick
  <2>4. CASE ReaperSnapshot
    BY <2>4 DEF ReaperSnapshot, IsOnline
  <2>5. CASE ReaperRetire
    BY <2>5 DEF ReaperRetire, Tick
  <2> QED BY <1>4, <2>1, <2>2, <2>3, <2>4, <2>5 DEF ReaperStep
<1>5. ASSUME NEW c \in Conn, Break(c) PROVE TypeOK'
  BY <1>5 DEF Break
<1>6. ASSUME NEW c \in Conn, HandlerStep(c) PROVE TypeOK'
  <2> USE DEF At, ReadRow, Saved
  <2>1. CASE HandleConnectRead(c)
    BY <2>1 DEF HandleConnectRead
  <2>2. CASE HandleConnectSave(c)
    BY <2>2 DEF HandleConnectSave
  <2>3. CASE HandleConnectAborted(c)
    BY <2>3 DEF HandleConnectAborted
  <2>4. CASE Register(c)
    BY <2>4 DEF Register
  <2>5. CASE HeartbeatRead(c)
    BY <2>5 DEF HeartbeatRead
  <2>6. CASE HeartbeatSave(c)
    BY <2>6 DEF HeartbeatSave
  <2>7. CASE LoopEnds(c)
    BY <2>7 DEF LoopEnds
  <2>8. CASE Unregister(c)
    BY <2>8 DEF Unregister
  <2>9. CASE HandleDisconnectRead(c)
    BY <2>9 DEF HandleDisconnectRead
  <2>10. CASE HandleDisconnectSave(c)
    BY <2>10 DEF HandleDisconnectSave
  <2> QED
    BY <1>6, <2>1, <2>2, <2>3, <2>4, <2>5, <2>6, <2>7, <2>8, <2>9, <2>10 DEF HandlerStep
<1>7. CASE UNCHANGED vars
  BY <1>7 DEF vars
<1> QED BY <1>1, <1>2, <1>3, <1>4, <1>5, <1>6, <1>7 DEF Next

(* The agent row, the handlers of HandleAsync, the registry entry and the   *)
(* reaper's tick hold values of their kind.                                 *)
THEOREM PresenceTypeCorrect == Spec => []TypeOK
<1>1. Init => TypeOK
  BY PresenceAssumption
     DEF Init, TypeOK, Conn, Link, RowStatus, Handler, Connecting, Serving, Row, Reaper
<1> QED BY <1>1, TypeStep, PTL DEF Spec

(* No step lets an older connection register or takes the entry of the      *)
(* newest one away while it is served.                                      *)
LEMMA NewestRegistersStep ==
    ASSUME PromptConnect, TypeOK, NewestRegisters, [Next]_vars
    PROVE  NewestRegisters'
<1>t. /\ dialed \in 0..MaxConns /\ registry \in 0..MaxConns
      /\ handler \in [Conn -> Handler]
  BY DEF TypeOK
<1> USE DEF NewestRegisters, Connecting, Serving
<1>1. CASE Dial
  BY <1>1, <1>t, PresenceAssumption DEF Dial, Conn
<1>2. CASE Elapse \/ ReaperStep \/ UNCHANGED vars \/ \E c \in Conn : Break(c)
  BY <1>2 DEF Elapse, ReaperStep, ReaperQuery, ReaperCheck, ReaperUpdate, ReaperSnapshot,
              ReaperRetire, Tick, Break, vars
<1>3. CASE Restart
  BY <1>3, <1>t DEF Restart
<1>4. ASSUME NEW c \in Conn, HandlerStep(c) PROVE NewestRegisters'
  <2>1. CASE Register(c)
    BY <2>1, <1>t DEF Register, At
  <2>2. CASE Unregister(c)
    <3>1. c # dialed \/ handler[c] \notin Serving
      BY <2>2 DEF Unregister, At
    <3>2. \A d \in Conn : handler'[d] \in Connecting \cup Serving => d # c /\ handler'[d] = handler[d]
      BY <2>2, <1>t DEF Unregister, At
    <3>3. \A d \in Conn : d # c /\ registry = d => registry' = d
      BY <2>2 DEF Unregister
    <3> QED BY <2>2, <3>2, <3>3 DEF Unregister, At
  <2>3. CASE \/ HandleConnectRead(c) \/ HandleConnectSave(c) \/ HandleConnectAborted(c)
             \/ HeartbeatRead(c) \/ HeartbeatSave(c) \/ LoopEnds(c)
             \/ HandleDisconnectRead(c) \/ HandleDisconnectSave(c)
    BY <2>3, <1>t DEF HandleConnectRead, HandleConnectSave, HandleConnectAborted, HeartbeatRead,
         HeartbeatSave, LoopEnds, HandleDisconnectRead, HandleDisconnectSave, At
  <2> QED BY <1>4, <2>1, <2>2, <2>3 DEF HandlerStep
<1> QED BY <1>1, <1>2, <1>3, <1>4 DEF Next

(* If HandleConnect is prompt, no late cleanup of an older connection takes *)
(* a connected agent out of AgentConnectionRegistry.                        *)
THEOREM ConnectedIsRegistered ==
    ASSUME PromptConnect
    PROVE  Spec => []LiveConnectionRegistered
<1>1. Init => TypeOK /\ NewestRegisters
  BY PresenceAssumption DEF Init, NewestRegisters, TypeOK, Conn, Link, RowStatus, Handler,
     Connecting, Serving, Row, Reaper
<1>2. TypeOK /\ NewestRegisters /\ [Next]_vars => (TypeOK /\ NewestRegisters)'
  BY TypeStep, NewestRegistersStep
<1>3. NewestRegisters => LiveConnectionRegistered
  BY DEF NewestRegisters, LiveConnectionRegistered
<1> QED BY <1>1, <1>2, <1>3, PTL DEF Spec
=============================================================================
