-------------------------- MODULE WireProbesProofs ---------------------------
(***************************************************************************)
(* What a probe attempt reports is what happened on the wire, for trains,  *)
(* transfers, paths and payloads of any size and for a network that loses, *)
(* repeats and reorders without bound.                                     *)
(*                                                                         *)
(* FamilyInv keeps the probers apart: a mode only ever takes the steps of  *)
(* its own family, on datagrams of that family.  Each family then has an   *)
(* invariant of its own.                                                   *)
(***************************************************************************)
EXTENDS WireProbes, FiniteSetTheorems, SequenceTheorems, TLAPS

-----------------------------------------------------------------------------
(***************************************************************************)
(* The families.                                                           *)
(***************************************************************************)
\* Where the code of each family can be.
TransferPlaces == {"start", "ack", "recv", "drain", "upload", "report", "done"}
TrainPlaces == {"start", "send", "wait", "drain", "tally", "fallback", "done"}
PathPlaces == {"start", "floor", "search", "verdict", "trace", "reached", "blocked", "done"}

\* The datagrams of a transfer and of a train.
TransferPacket ==
  [kind : {"download", "upload", "ack", "done", "report"}, value : Nat, copy : Nat]
    \cup [kind : {"data"}, seq : Nat, copy : Nat]
Probe == [kind : {"probe"}, seq : Nat, copy : Nat]
Reply == [kind : {"reply"}, seq : Nat, rseq : Nat, copy : Nat]

\* Every family is in its own places, and only its datagrams are under way.
FamilyInv ==
  /\ mode \in TrainModes \cup TransferModes \cup PathModes \cup StreamModes
  /\ mode \in TransferModes =>
       /\ pc \in TransferPlaces /\ chunks \in Nat /\ next \in Nat /\ blasts \in Seq(Nat)
       /\ toServer \subseteq TransferPacket /\ toClient \subseteq TransferPacket
       /\ got \subseteq reached /\ IsFiniteSet(reached)
  /\ mode \notin TransferModes => ~upload /\ blasts = <<>>
  /\ mode \in TrainModes =>
       /\ pc \in TrainPlaces /\ seq \in Nat /\ nextSeq \in Nat
       /\ toServer \subseteq Probe /\ toClient \subseteq Reply
  /\ mode \in PathModes => pc \in PathPlaces
  /\ mode \in StreamModes => pc = "start" /\ result = NoResult
  /\ mode \in PathModes \cup StreamModes => toServer = {} /\ toClient = {}

\* The families exclude each other.
LEMMA FamiliesApart ==
  /\ TrainModes \cap TransferModes = {} /\ TrainModes \cap PathModes = {}
  /\ TrainModes \cap StreamModes = {} /\ TransferModes \cap PathModes = {}
  /\ TransferModes \cap StreamModes = {} /\ PathModes \cap StreamModes = {}
BY DEF TrainModes, TransferModes, PathModes, StreamModes, SizedModes

\* No step of a request-response prober changes the mode.
LEMMA StreamKeepsMode == ASSUME StreamStep PROVE mode' = mode /\ mode \in StreamModes
BY DEF StreamStep, Complete, Advance, LateEcho, Silence, Deadline, Abort, GiveUpWaiting, Capped,
       Finish, Fail, Swallow, Running

\* A step is one of the family the mode belongs to.
FamilyStep ==
  \/ /\ mode \in TransferModes
     /\ TransferStep \/ ThroughputServerStep \/ (NetworkStep /\ UNCHANGED transfer)
     /\ UNCHANGED <<train, search, streamVars>>
  \/ /\ mode \in TrainModes
     /\ TrainStep \/ ReflectorStep \/ (NetworkStep /\ UNCHANGED train)
     /\ UNCHANGED <<transfer, search, streamVars>>
  \/ mode \in PathModes /\ PathStep /\ UNCHANGED <<train, transfer, streamVars>>
  \/ mode \in StreamModes /\ StreamStep /\ UNCHANGED packet

\* In no other mode can a transfer step happen.
LEMMA TransferOnly ==
  ASSUME FamilyInv, TransferStep \/ ThroughputServerStep
  PROVE  mode \in TransferModes
<1> USE FamiliesApart DEF FamilyInv
<1>1. CASE TransferStep
  <2> SUFFICES ASSUME mode \notin TransferModes PROVE FALSE
    OBVIOUS
  <2>1. pc \notin {"ack", "upload", "report"}
    BY DEF TrainPlaces, PathPlaces
  <2> QED BY <1>1, <2>1 DEF TransferStep, SendCommand, SendCommandFails, AckTimeout, DownloadEnds,
                 SendChunk, SendUploadDone, ReportTimeout, RecvWhileAck, RecvDownload, RecvReport,
                 TransferModes
<1>2. CASE ThroughputServerStep
  <2> SUFFICES ASSUME mode \notin TransferModes PROVE FALSE
    OBVIOUS
  <2>1. \A p \in toServer : p.kind = "probe"
    BY DEF Probe
  <2> QED BY <1>2, <2>1 DEF ThroughputServerStep, ServerDownload, ServerUpload, ServerData,
                 ServerDone, SendDownload, ReapStaleUpload
<1> QED BY <1>1, <1>2

\* Nor a step of a train or of a path search.
LEMMA TrainOnly ==
  ASSUME FamilyInv, TrainStep \/ ReflectorStep
  PROVE  mode \in TrainModes
<1> USE FamiliesApart DEF FamilyInv
<1>1. pc = "fallback" => mode \in TrainModes
  BY DEF TransferPlaces, PathPlaces
<1>2. CASE TrainStep
  BY <1>1, <1>2 DEF TrainStep, TrainSetup, TrainSetupFails, TrainSent, WindowEnds,
            IcmpSendEchoError, TrainDone, FallbackDone, SendProbe, IcmpSendEcho, TcpRttProbe,
            RecvReply, TrainModes
<1>3. CASE ReflectorStep
  BY <1>3 DEF ReflectorStep, SweepIdleSession, UdpEcho, StampReflect, TrainModes
<1> QED BY <1>2, <1>3

LEMMA PathOnly ==
  ASSUME FamilyInv, PathStep
  PROVE  mode \in PathModes
<1> USE FamiliesApart DEF FamilyInv
<1>1. pc \in {"floor", "search", "trace"} => mode \in PathModes
  BY DEF TransferPlaces, TrainPlaces
<1> QED BY <1>1 DEF PathStep, PathSetupFails, SizeRefused, SendFatal, DrainLate, PmtudVerdict,
               TraceStart, ProbeTtlUnreachable, CapabilityProbe, ProbeSize, ProbeTtl,
               ProbeTtlPortable, TraceDone, PathModes

LEMMA FamilySteps ==
  ASSUME FamilyInv, [Next]_vars
  PROVE  FamilyStep \/ UNCHANGED vars
<1>1. CASE Train
  BY <1>1, TrainOnly DEF Train, FamilyStep
<1>2. CASE Transfer
  BY <1>2, TransferOnly DEF Transfer, FamilyStep
<1>3. CASE PathProbe
  BY <1>3, PathOnly DEF PathProbe, FamilyStep
<1>4. CASE Stream
  BY <1>4, StreamKeepsMode DEF Stream, FamilyStep
<1>5. CASE Endpoint
  BY <1>5, TrainOnly, TransferOnly DEF Endpoint, FamilyStep
<1>6. CASE Network
  <2>1. mode \in TrainModes \cup TransferModes
    BY <1>6 DEF FamilyInv, Network, NetworkStep
  <2> QED BY <1>6, <2>1 DEF Network, FamilyStep
<1> QED BY <1>1, <1>2, <1>3, <1>4, <1>5, <1>6 DEF Next

-----------------------------------------------------------------------------
\* The invariant holds before the first step.
LEMMA FamilyInit == Init => FamilyInv
<1> SUFFICES ASSUME Init PROVE FamilyInv
  OBVIOUS
<1>1. chunks \in Nat
  BY PayloadsAssumption DEF Init, TransferInit
<1>2. nextSeq \in Nat
  BY TrainAssumption DEF Init, TrainInit
<1>3. IsFiniteSet(reached)
  BY FS_EmptySet DEF Init, TransferInit
<1> QED BY <1>1, <1>2, <1>3, FamiliesApart
           DEF Init, FamilyInv, TransferInit, TrainInit, TransferPlaces, TrainPlaces, PathPlaces

\* A duplicate is a datagram of the same kind.
LEMMA NetworkKeeps ==
  ASSUME NetworkStep,
         NEW S, toServer \subseteq S, NEW C, toClient \subseteq C,
         \A p \in S : [p EXCEPT !.copy = 1] \in S, \A p \in C : [p EXCEPT !.copy = 1] \in C
  PROVE  toServer' \subseteq S /\ toClient' \subseteq C /\ UNCHANGED <<mode, pc, result>>
BY DEF NetworkStep, Lose, Duplicate

\* The datagrams the families send.
LEMMA PacketTypes ==
  /\ \A c \in {"download", "upload", "ack", "done", "report"}, v, n \in Nat :
       /\ make_ctrl(c, v) \in TransferPacket
       /\ [make_ctrl(c, v) EXCEPT !.copy = n] \in TransferPacket
  /\ \A s, c \in Nat : DataPacket(s, c) \in TransferPacket
  /\ \A p \in TransferPacket : [p EXCEPT !.copy = 1] \in TransferPacket /\ p.copy \in Nat
  /\ \A p \in TransferPacket : p.kind = "data" => p.seq \in Nat
  /\ \A p \in Probe : [p EXCEPT !.copy = 1] \in Probe
  /\ \A p \in Reply : [p EXCEPT !.copy = 1] \in Reply
BY DEF TransferPacket, Probe, Reply, make_ctrl, DataPacket

\* The steps of a train.
LEMMA TrainFamily ==
  ASSUME FamilyInv, mode \in TrainModes,
         TrainStep \/ ReflectorStep \/ (NetworkStep /\ UNCHANGED train),
         UNCHANGED transfer
  PROVE  FamilyInv'
<1>1. /\ pc \in TrainPlaces /\ seq \in Nat /\ nextSeq \in Nat
      /\ toServer \subseteq Probe /\ toClient \subseteq Reply /\ ~upload /\ blasts = <<>>
  BY FamiliesApart DEF FamilyInv
<1>2. SUFFICES /\ mode' = mode /\ pc' \in TrainPlaces /\ seq' \in Nat /\ nextSeq' \in Nat
               /\ toServer' \subseteq Probe /\ toClient' \subseteq Reply
  BY <1>1, FamiliesApart DEF FamilyInv, transfer
<1>3. CASE NetworkStep /\ UNCHANGED train
  BY <1>1, <1>3, NetworkKeeps, PacketTypes DEF train
<1>4. CASE ReflectorStep
  <2>1. CASE SweepIdleSession
    BY <1>1, <2>1 DEF SweepIdleSession, probe, network
  <2>2. ASSUME NEW p \in toServer, UdpEcho(p) \/ StampReflect(p)
        PROVE  /\ mode' = mode /\ pc' \in TrainPlaces /\ seq' \in Nat /\ nextSeq' \in Nat
               /\ toServer' \subseteq Probe /\ toClient' \subseteq Reply
    <3>1. p.seq \in Nat /\ p.copy \in Nat
      BY <1>1 DEF Probe
    <3>2. \A n \in Nat, c \in Nat :
            [kind |-> "reply", seq |-> p.seq, rseq |-> n, copy |-> c] \in Reply
      BY <3>1 DEF Reply
    <3> QED BY <1>1, <2>2, <3>1, <3>2 DEF UdpEcho, StampReflect, probe
  <2> QED BY <1>4, <2>1, <2>2 DEF ReflectorStep
<1>5. CASE TrainStep
  <2>1. CASE TrainSetup \/ TrainSetupFails \/ TrainSent \/ WindowEnds \/ IcmpSendEchoError
             \/ TrainDone \/ FallbackDone
    BY <1>1, <2>1 DEF TrainSetup, TrainSetupFails, TrainSent, WindowEnds, AfterWindow,
         IcmpSendEchoError, TrainDone, FallbackDone, TrainPlaces, network, train
  <2>2. ASSUME NEW ok \in BOOLEAN, SendProbe(ok)
        PROVE  /\ mode' = mode /\ pc' \in TrainPlaces /\ seq' \in Nat /\ nextSeq' \in Nat
               /\ toServer' \subseteq Probe /\ toClient' \subseteq Reply
    <3>1. [kind |-> "probe", seq |-> seq, copy |-> 0] \in Probe
      BY <1>1 DEF Probe
    <3> QED BY <1>1, <2>2, <3>1 DEF SendProbe, TrainPlaces
  <2>3. ASSUME NEW ok \in BOOLEAN, IcmpSendEcho(ok) \/ TcpRttProbe(ok)
        PROVE  /\ mode' = mode /\ pc' \in TrainPlaces /\ seq' \in Nat /\ nextSeq' \in Nat
               /\ toServer' \subseteq Probe /\ toClient' \subseteq Reply
    BY <1>1, <2>3 DEF IcmpSendEcho, TcpRttProbe, probe, network
  <2>4. ASSUME NEW p \in toClient, RecvReply(p)
        PROVE  /\ mode' = mode /\ pc' \in TrainPlaces /\ seq' \in Nat /\ nextSeq' \in Nat
               /\ toServer' \subseteq Probe /\ toClient' \subseteq Reply
    BY <1>1, <2>4 DEF RecvReply, AfterWindow, TrainPlaces
  <2> QED BY <1>5, <2>1, <2>2, <2>3, <2>4 DEF TrainStep
<1> QED BY <1>3, <1>4, <1>5

\* The steps of a path search.
LEMMA PathFamily ==
  ASSUME FamilyInv, mode \in PathModes, PathStep, UNCHANGED transfer
  PROVE  FamilyInv'
<1>1. /\ pc \in PathPlaces /\ toServer = {} /\ toClient = {} /\ ~upload /\ blasts = <<>>
  BY FamiliesApart DEF FamilyInv
<1>2. SUFFICES mode' = mode /\ pc' \in PathPlaces /\ UNCHANGED network
  BY <1>1, FamiliesApart DEF FamilyInv, transfer, network
<1>3. CASE PathSetupFails \/ SendFatal \/ DrainLate \/ PmtudVerdict \/ TraceStart
           \/ ProbeTtlUnreachable
  BY <1>1, <1>3 DEF PathSetupFails, SendFatal, DrainLate, PmtudVerdict, TraceStart,
       ProbeTtlUnreachable, PathPlaces
<1>4. CASE SizeRefused
  BY <1>1, <1>4 DEF SizeRefused, Classified, PathPlaces
<1>5. ASSUME NEW f, CapabilityProbe(f) \/ ProbeSize(f)
      PROVE  mode' = mode /\ pc' \in PathPlaces /\ UNCHANGED network
  BY <1>1, <1>5 DEF CapabilityProbe, ProbeSize, Classified, PathPlaces
<1>6. ASSUME NEW f, ProbeTtl(f) \/ ProbeTtlPortable(f)
      PROVE  mode' = mode /\ pc' \in PathPlaces /\ UNCHANGED network
  BY <1>1, <1>6 DEF ProbeTtl, ProbeTtlPortable, PathPlaces
<1>7. ASSUME NEW ok, TraceDone(ok)
      PROVE  mode' = mode /\ pc' \in PathPlaces /\ UNCHANGED network
  BY <1>1, <1>7 DEF TraceDone, PathPlaces
<1> QED BY <1>3, <1>4, <1>5, <1>6, <1>7 DEF PathStep

\* What a step of a transfer does to its state: the datagrams stay datagrams of
\* a transfer, and the chunks counted are among those that arrived.
TransferTypes ==
  /\ pc \in TransferPlaces /\ chunks \in Nat /\ next \in Nat /\ blasts \in Seq(Nat)
  /\ toServer \subseteq TransferPacket /\ toClient \subseteq TransferPacket
  /\ got \subseteq reached /\ IsFiniteSet(reached)

LEMMA TransferClient ==
  ASSUME TransferTypes, mode \in TransferModes, TransferStep
  PROVE  mode' = mode /\ TransferTypes'
<1> USE DEF TransferTypes
<1>1. CASE SendCommand
  <2>1. \A c \in {"download", "upload"} : make_ctrl(c, chunks) \in TransferPacket
    BY PacketTypes
  <2> QED BY <1>1, <2>1 DEF SendCommand, TransferPlaces, transfer
<1>2. CASE SendCommandFails \/ AckTimeout \/ DownloadEnds \/ ReportTimeout
  BY <1>2 DEF SendCommandFails, AckTimeout, DownloadEnds, ReportTimeout, TransferPlaces, network,
              transfer
<1>3. CASE SendChunk
  <2>1. DataPacket(next, 0) \in TransferPacket
    BY PacketTypes
  <2> QED BY <1>3, <2>1 DEF SendChunk
<1>4. CASE SendUploadDone
  <2>1. make_ctrl("done", chunks) \in TransferPacket
    BY PacketTypes
  <2> QED BY <1>4, <2>1 DEF SendUploadDone, TransferPlaces, transfer
<1>5. ASSUME NEW p \in toClient, RecvWhileAck(p) \/ RecvDownload(p) \/ RecvReport(p)
      PROVE  mode' = mode /\ TransferTypes'
  <2>1. IsFiniteSet(reached \cup {p.seq})
    BY FS_AddElement
  <2> QED BY <1>5, <2>1 DEF RecvWhileAck, RecvDownload, RecvReport, TransferPlaces, transfer
<1> QED BY <1>1, <1>2, <1>3, <1>4, <1>5 DEF TransferStep

LEMMA TransferServer ==
  ASSUME TransferTypes, ThroughputServerStep
  PROVE  TransferTypes' /\ UNCHANGED <<probe, chunks>> /\ reached \subseteq reached'
<1> USE DEF TransferTypes
<1>1. ASSUME NEW p \in toServer, ServerDownload(p)
      PROVE  TransferTypes' /\ UNCHANGED <<probe, chunks>> /\ reached \subseteq reached'
  <2>1. p.copy \in Nat
    BY PacketTypes
  <2>2. [make_ctrl("ack", 0) EXCEPT !.copy = p.copy] \in TransferPacket
    BY <2>1, PacketTypes
  <2>3. Append(blasts, 0) \in Seq(Nat)
    OBVIOUS
  <2> QED BY <1>1, <2>2, <2>3 DEF ServerDownload, probe
<1>2. ASSUME NEW p \in toServer, ServerUpload(p)
      PROVE  TransferTypes' /\ UNCHANGED <<probe, chunks>> /\ reached \subseteq reached'
  <2>1. p.copy \in Nat
    BY PacketTypes
  <2>2. [make_ctrl("ack", 0) EXCEPT !.copy = p.copy] \in TransferPacket
    BY <2>1, PacketTypes
  <2> QED BY <1>2, <2>2 DEF ServerUpload, probe
<1>3. ASSUME NEW p \in toServer, ServerData(p)
      PROVE  TransferTypes' /\ UNCHANGED <<probe, chunks>> /\ reached \subseteq reached'
  <2>1. IsFiniteSet(reached \cup {p.seq})
    BY FS_AddElement
  <2> QED BY <1>3, <2>1 DEF ServerData, probe
<1>4. ASSUME NEW p \in toServer, ServerDone(p)
      PROVE  TransferTypes' /\ UNCHANGED <<probe, chunks>> /\ reached \subseteq reached'
  <2>1. Cardinality(got) \in Nat
    BY FS_Subset, FS_CardinalityType
  <2>2. make_ctrl("report", Cardinality(got)) \in TransferPacket
    BY <2>1, PacketTypes
  <2> QED BY <1>4, <2>2 DEF ServerDone, probe
<1>5. ASSUME NEW i \in DOMAIN blasts, NEW ok \in BOOLEAN, SendDownload(i, ok)
      PROVE  TransferTypes' /\ UNCHANGED <<probe, chunks>> /\ reached \subseteq reached'
  <2>1. i - 1 \in Nat /\ blasts[i] \in Nat
    OBVIOUS
  <2>2. DataPacket(blasts[i], i - 1) \in TransferPacket
    BY <2>1, PacketTypes
  <2>3. [make_ctrl("done", chunks) EXCEPT !.copy = i - 1] \in TransferPacket
    BY <2>1, PacketTypes
  <2>4. \A n \in Nat : [blasts EXCEPT ![i] = n] \in Seq(Nat)
    OBVIOUS
  <2>5. [blasts EXCEPT ![i] = @ + 1] \in Seq(Nat) /\ [blasts EXCEPT ![i] = chunks + 1] \in Seq(Nat)
    BY <2>1, <2>4
  <2> QED BY <1>5, <2>2, <2>3, <2>5 DEF SendDownload, probe
<1>6. CASE ReapStaleUpload
  BY <1>6 DEF ReapStaleUpload, probe, network
<1> QED BY <1>1, <1>2, <1>3, <1>4, <1>5, <1>6 DEF ThroughputServerStep

LEMMA TransferNetwork ==
  ASSUME TransferTypes, NetworkStep, UNCHANGED transfer
  PROVE  TransferTypes' /\ UNCHANGED probe
<1>1. /\ toServer' \subseteq TransferPacket /\ toClient' \subseteq TransferPacket
      /\ UNCHANGED <<mode, pc, result>>
  BY NetworkKeeps, PacketTypes DEF TransferTypes
<1> QED BY <1>1 DEF TransferTypes, transfer, probe

LEMMA FamilyNext == FamilyInv /\ [Next]_vars => FamilyInv' /\ mode' = mode
<1> SUFFICES ASSUME FamilyInv, [Next]_vars PROVE FamilyInv' /\ mode' = mode
  OBVIOUS
<1>1. CASE UNCHANGED vars
  BY <1>1 DEF vars, packet, network, train, transfer, FamilyInv
<1>2. CASE mode \in StreamModes /\ StreamStep /\ UNCHANGED packet
  BY <1>2, StreamKeepsMode DEF packet, network, train, transfer, FamilyInv
<1>3. CASE mode \in PathModes /\ PathStep /\ UNCHANGED <<train, transfer, streamVars>>
  <2>1. mode' = mode
    BY <1>3 DEF PathStep, PathSetupFails, SizeRefused, SendFatal, DrainLate, PmtudVerdict,
         TraceStart, ProbeTtlUnreachable, CapabilityProbe, ProbeSize, ProbeTtl, ProbeTtlPortable,
         TraceDone
  <2> QED BY <1>3, <2>1, PathFamily
<1>4. CASE /\ mode \in TrainModes
           /\ TrainStep \/ ReflectorStep \/ (NetworkStep /\ UNCHANGED train)
           /\ UNCHANGED <<transfer, search, streamVars>>
  <2>1. mode' = mode
    <3>1. NetworkStep => mode' = mode
      BY DEF NetworkStep, Lose, Duplicate
    <3>2. TrainStep => mode' = mode
      BY DEF TrainStep, TrainSetup, TrainSetupFails, TrainSent, WindowEnds, IcmpSendEchoError,
           TrainDone, FallbackDone, SendProbe, IcmpSendEcho, TcpRttProbe, RecvReply, probe
    <3>3. ReflectorStep => mode' = mode
      BY DEF ReflectorStep, SweepIdleSession, UdpEcho, StampReflect, probe
    <3> QED BY <1>4, <3>1, <3>2, <3>3
  <2> QED BY <1>4, <2>1, TrainFamily
<1>5. CASE /\ mode \in TransferModes
           /\ TransferStep \/ ThroughputServerStep \/ (NetworkStep /\ UNCHANGED transfer)
           /\ UNCHANGED <<train, search, streamVars>>
  <2>1. TransferTypes
    BY <1>5 DEF FamilyInv, TransferTypes
  <2>2. TransferTypes' /\ mode' = mode
    BY <1>5, <2>1, TransferClient, TransferServer, TransferNetwork DEF probe
  <2> QED BY <1>5, <2>2, FamiliesApart DEF FamilyInv, TransferTypes
<1> QED BY <1>1, <1>2, <1>3, <1>4, <1>5, FamilySteps DEF FamilyStep

\* What a family reports is of its own kind.
TrainKinds == {"udp", "stamp", "ping"}
ReportKinds ==
  IF mode \in TrainModes THEN TrainKinds ELSE IF mode \in TransferModes THEN TransferModes
  ELSE PathModes
KindInv == result.kind \in {"none", "failed"} \cup ReportKinds

LEMMA KindInit == Init => KindInv
BY DEF Init, NoResult, KindInv

\* The kinds of report.
LEMMA ReportKind ==
  /\ \A e : Failed(e).kind = "failed"
  /\ UdpResult.kind = "udp" /\ PingResult.kind = "ping" /\ StampResult.kind \in {"stamp", "failed"}
  /\ \A x : UploadResult(x).kind = "udpupload" /\ DownloadResult(x).kind = "udpdownload"
BY DEF Failed, UdpResult, PingResult, StampResult, UploadResult, DownloadResult

LEMMA KindNext == FamilyInv /\ KindInv /\ [Next]_vars => KindInv'
<1> SUFFICES ASSUME FamilyInv, KindInv, [Next]_vars PROVE KindInv'
  OBVIOUS
<1>1. ReportKinds' = ReportKinds
  BY FamilyNext DEF ReportKinds
<1> SUFFICES result'.kind \in {"none", "failed"} \cup ReportKinds
  BY <1>1 DEF KindInv
<1>2. CASE UNCHANGED result
  BY <1>2 DEF KindInv
<1>3. CASE mode \in TrainModes /\ TrainStep
  <2>1. ReportKinds = TrainKinds
    BY <1>3 DEF ReportKinds
  <2>2. UNCHANGED result \/ result'.kind \in {"failed"} \cup TrainKinds
    BY <1>3, ReportKind
       DEF TrainStep, TrainSetup, TrainSetupFails, TrainSent, WindowEnds, IcmpSendEchoError,
           TrainDone, FallbackDone, SendProbe, IcmpSendEcho, TcpRttProbe, RecvReply, probe,
           TrainKinds
  <2> QED BY <1>2, <2>1, <2>2
<1>4. CASE mode \in TransferModes /\ TransferStep
  <2>1. ReportKinds = TransferModes
    BY <1>4, FamiliesApart DEF ReportKinds
  <2>2. UNCHANGED result \/ result'.kind \in {"failed"} \cup TransferModes
    BY <1>4, ReportKind
       DEF TransferStep, SendCommand, SendCommandFails, AckTimeout, DownloadEnds, SendChunk,
           SendUploadDone, ReportTimeout, RecvWhileAck, RecvDownload, RecvReport, probe,
           TransferModes
  <2> QED BY <1>2, <2>1, <2>2
<1>5. CASE mode \in PathModes /\ PathStep
  <2>1. ReportKinds = PathModes
    BY <1>5, FamiliesApart DEF ReportKinds
  <2>2. CASE PathSetupFails \/ SendFatal \/ PmtudVerdict
    BY <2>1, <2>2, ReportKind DEF PathSetupFails, SendFatal, PmtudVerdict, PathModes
  <2>3. ASSUME NEW ok, TraceDone(ok) PROVE result'.kind \in PathModes
    BY <2>3 DEF TraceDone, PathModes
  <2> QED BY <1>2, <1>5, <2>1, <2>2, <2>3
        DEF PathStep, SizeRefused, DrainLate, TraceStart, ProbeTtlUnreachable, CapabilityProbe,
         ProbeSize, ProbeTtl, ProbeTtlPortable
<1>6. ReflectorStep \/ ThroughputServerStep \/ NetworkStep => UNCHANGED result
  BY DEF ReflectorStep, SweepIdleSession, UdpEcho, StampReflect, probe, NetworkStep, Lose,
         Duplicate, ThroughputServerStep, ServerDownload, ServerUpload, ServerData, ServerDone,
         SendDownload, ReapStaleUpload
<1> QED BY <1>2, <1>3, <1>4, <1>5, <1>6, FamilySteps DEF FamilyStep, packet, vars

-----------------------------------------------------------------------------
(***************************************************************************)
(* The UDP transfers.                                                      *)
(***************************************************************************)
\* Counts on their way or reported are counts of chunks that arrived, and a
\* download's is what its receiver had read when it ended.
LossInv ==
  /\ result.kind \in TransferModes => result.kind = mode
  /\ \A p \in toClient : p.kind = "report" => p.value <= Cardinality(reached)
  /\ mode = "udpdownload" =>
       /\ \A p \in toServer : p.kind = "download"
       /\ pc \notin {"upload", "report"} /\ (pc \in {"start", "ack"} => got = {})
       /\ result.kind = mode =>
            /\ pc = "done" /\ result.received = Cardinality(got)
            /\ result.received + result.lost = chunks
  /\ result.kind = "udpupload" =>
       /\ result.acked \in Nat /\ result.acked <= Cardinality(reached)
       /\ result.success => result.acked > 0 \/ chunks = 0

\* What arrived is never forgotten.
LEMMA MoreReached ==
  ASSUME IsFiniteSet(reached'), reached \subseteq reached'
  PROVE  /\ Cardinality(reached) \in Nat /\ Cardinality(reached') \in Nat
         /\ Cardinality(reached) <= Cardinality(reached')
BY FS_Subset, FS_CardinalityType

LEMMA LossInit == Init => LossInv
<1> SUFFICES ASSUME Init PROVE LossInv
  OBVIOUS
<1>1. result.kind = "none"
  BY DEF Init, NoResult
<1> QED BY <1>1 DEF Init, TransferInit, LossInv, TransferModes

\* Other families report no transfer.
LEMMA LossElsewhere ==
  ASSUME FamilyInv, KindInv, LossInv, [Next]_vars, mode \notin TransferModes
  PROVE  LossInv'
<1>1. mode' = mode /\ FamilyInv' /\ KindInv'
  BY FamilyNext, KindNext
<1>2. \A p \in toClient' : p.kind # "report"
  BY <1>1, FamiliesApart DEF FamilyInv, Reply
<1>3. result'.kind \notin TransferModes
  BY <1>1 DEF KindInv, ReportKinds, TrainKinds, TransferModes, PathModes
<1> QED BY <1>1, <1>2, <1>3 DEF LossInv, TransferModes

\* The client of a transfer.
LEMMA LossClient ==
  ASSUME TransferTypes, LossInv, mode \in TransferModes, TransferStep
  PROVE  LossInv'
<1>1. TransferTypes' /\ mode' = mode
  BY TransferClient
<1>2. /\ Cardinality(got) \in Nat /\ Cardinality({}) = 0 /\ chunks \in Nat
      /\ Cardinality(reached) \in Nat
  BY FS_Subset, FS_CardinalityType, FS_EmptySet DEF TransferTypes
<1>3. \A e : Failed(e).kind = "failed"
  BY DEF Failed
<1>4. result.kind = mode /\ mode = "udpdownload" => pc = "done"
  BY DEF LossInv
<1>5. CASE SendCommand
  <2>1. make_ctrl("download", chunks).kind = "download"
    BY DEF make_ctrl
  <2> QED BY <1>5, <2>1 DEF SendCommand, LossInv, transfer, TransferModes
<1>6. CASE SendCommandFails \/ AckTimeout \/ ReportTimeout
  BY <1>3, <1>6 DEF SendCommandFails, AckTimeout, ReportTimeout, LossInv, transfer, network,
                    TransferModes
<1>7. CASE DownloadEnds
  BY <1>2, <1>7 DEF DownloadEnds, DownloadResult, LossInv, transfer, network, TransferModes
<1>8. CASE SendChunk \/ SendUploadDone
  <2>1. mode # "udpdownload"
    BY <1>8 DEF SendChunk, SendUploadDone, LossInv
  <2> QED BY <1>2, <1>8, <2>1
        DEF SendChunk, SendUploadDone, UploadResult, LossInv, transfer, TransferModes
<1>9. ASSUME NEW p \in toClient, RecvWhileAck(p) \/ RecvDownload(p) \/ RecvReport(p)
      PROVE  LossInv'
  <2>1. reached \subseteq reached'
    BY <1>9 DEF RecvWhileAck, RecvDownload, RecvReport, transfer
  <2>2. \A n \in Nat : n <= Cardinality(reached) => n <= Cardinality(reached')
    BY <1>1, <2>1, MoreReached DEF TransferTypes
  <2>3. \A q \in toClient' : q.kind = "report" => q.value <= Cardinality(reached')
    <3>1. toClient' \subseteq toClient
      BY <1>9 DEF RecvWhileAck, RecvDownload, RecvReport
    <3>2. \A q \in toClient : q.kind = "report" => q.value \in Nat
      BY DEF TransferTypes, TransferPacket
    <3> QED BY <2>2, <3>1, <3>2 DEF LossInv
  <2>4. CASE RecvWhileAck(p)
    <3>1. pc = "ack" /\ UNCHANGED <<mode, toServer, chunks>>
      BY <2>4 DEF RecvWhileAck
    <3>2. CASE mode = "udpupload"
      BY <2>3, <2>4, <3>1, <3>2 DEF RecvWhileAck, LossInv, TransferModes
    <3>3. CASE mode = "udpdownload"
      <4>1. result.kind \notin TransferModes /\ got = {}
        BY <1>4, <3>1, <3>3 DEF LossInv
      <4>2. CASE UNCHANGED result /\ pc' = "recv"
        BY <2>3, <3>1, <3>3, <4>1, <4>2 DEF LossInv, TransferModes
      <4>3. CASE result' = DownloadResult({}) /\ pc' = "done" /\ UNCHANGED got
        <5>1. /\ result'.kind = "udpdownload" /\ result'.received = 0
              /\ result'.received + result'.lost = chunks
          BY <1>2, <4>3 DEF DownloadResult
        <5> QED BY <1>2, <2>3, <3>1, <3>3, <4>1, <4>3, <5>1 DEF LossInv, TransferModes
      <4> QED BY <2>4, <3>3, <4>2, <4>3 DEF RecvWhileAck
    <3> QED BY <3>2, <3>3 DEF TransferModes
  <2>5. CASE RecvDownload(p)
    BY <1>2, <1>4, <2>3, <2>5 DEF RecvDownload, LossInv, TransferModes
  <2>6. CASE RecvReport(p)
    <3>1. p.kind = "report" => p.value \in Nat /\ p.value <= Cardinality(reached)
      BY DEF TransferTypes, TransferPacket, LossInv
    <3>2. mode = "udpupload"
      BY <2>6 DEF RecvReport, LossInv, TransferModes
    <3>3. UNCHANGED <<mode, transfer>>
      BY <2>6 DEF RecvReport
    <3>4. CASE UNCHANGED result
      BY <2>3, <3>2, <3>3, <3>4 DEF LossInv, transfer, TransferModes
    <3>5. CASE p.kind = "report" /\ result' = UploadResult(p.value)
      <4>1. /\ result'.kind = "udpupload" /\ result'.acked = p.value
            /\ result'.success = (chunks = 0 \/ p.value > 0)
        BY <3>5 DEF UploadResult
      <4> QED BY <2>3, <3>1, <3>2, <3>3, <3>5, <4>1 DEF LossInv, transfer, TransferModes
    <3> QED BY <2>6, <3>4, <3>5 DEF RecvReport
  <2> QED BY <1>9, <2>4, <2>5, <2>6
<1> QED BY <1>5, <1>6, <1>7, <1>8, <1>9 DEF TransferStep

\* The server of a transfer, and the network.
LEMMA LossServer ==
  ASSUME TransferTypes, LossInv, mode \in TransferModes,
         ThroughputServerStep \/ (NetworkStep /\ UNCHANGED transfer)
  PROVE  LossInv'
<1>1. TransferTypes' /\ UNCHANGED <<mode, pc, result, chunks>> /\ reached \subseteq reached'
  BY TransferServer, TransferNetwork DEF probe, transfer
<1>2. /\ Cardinality(reached) \in Nat /\ Cardinality(reached') \in Nat
      /\ Cardinality(reached) <= Cardinality(reached')
  BY <1>1, MoreReached DEF TransferTypes
<1>3. \A p \in toClient' : p.kind = "report" => p.value <= Cardinality(reached')
  <2>1. \A q \in toClient : q.kind = "report" => q.value \in Nat /\ q.value <= Cardinality(reached')
    BY <1>2 DEF TransferTypes, TransferPacket, LossInv
  <2>2. ASSUME NEW p \in toServer, ServerDone(p)
        PROVE  \A q \in toClient' : q.kind = "report" => q.value <= Cardinality(reached')
    <3>1. Cardinality(got) <= Cardinality(reached)
      BY FS_Subset DEF TransferTypes
    <3>2. make_ctrl("report", Cardinality(got)).value = Cardinality(got)
      BY DEF make_ctrl
    <3> QED BY <1>2, <2>1, <2>2, <3>1, <3>2 DEF ServerDone
  <2>3. ASSUME NEW p \in toServer, ServerDownload(p) \/ ServerUpload(p) \/ ServerData(p)
        PROVE  \A q \in toClient' : q.kind = "report" => q.value <= Cardinality(reached')
    <3>1. [make_ctrl("ack", 0) EXCEPT !.copy = p.copy].kind = "ack"
      BY DEF make_ctrl
    <3> QED BY <2>1, <2>3, <3>1 DEF ServerDownload, ServerUpload, ServerData
  <2>4. ASSUME NEW i \in DOMAIN blasts, NEW ok \in BOOLEAN, SendDownload(i, ok)
        PROVE  \A q \in toClient' : q.kind = "report" => q.value <= Cardinality(reached')
    <3>1. DataPacket(blasts[i], i - 1).kind = "data"
      BY DEF DataPacket
    <3>2. [make_ctrl("done", chunks) EXCEPT !.copy = i - 1].kind = "done"
      BY DEF make_ctrl
    <3> QED BY <2>1, <2>4, <3>1, <3>2 DEF SendDownload
  <2>5. ASSUME NetworkStep
        PROVE  \A q \in toClient' : q.kind = "report" => q.value <= Cardinality(reached')
    <3>1. \A q \in TransferPacket :
            LET d == [q EXCEPT !.copy = 1]
            IN  d.kind = q.kind /\ (q.kind = "report" => d.value = q.value)
      BY DEF TransferPacket
    <3>2. ASSUME NEW q \in toClient'
          PROVE  q \in toClient \/ \E p \in toClient : q = [p EXCEPT !.copy = 1]
      BY <2>5 DEF NetworkStep, Lose, Duplicate
    <3>3. ASSUME NEW p \in toClient, LET d == [p EXCEPT !.copy = 1] IN d.kind = "report"
          PROVE  [p EXCEPT !.copy = 1].value <= Cardinality(reached')
      <4>1. p.kind = "report" /\ [p EXCEPT !.copy = 1].value = p.value
        BY <3>1, <3>3 DEF TransferTypes
      <4> QED BY <2>1, <4>1
    <3> QED BY <2>1, <3>2, <3>3
  <2>6. CASE ReapStaleUpload
    BY <2>1, <2>6 DEF ReapStaleUpload, network
  <2> QED BY <2>2, <2>3, <2>4, <2>5, <2>6 DEF ThroughputServerStep
<1>4. ASSUME mode = "udpdownload"
      PROVE  (\A p \in toServer' : p.kind = "download") /\ UNCHANGED got
  <2>1. \A p \in toServer : p.kind = "download"
    BY <1>4 DEF LossInv
  <2>2. CASE ThroughputServerStep
    BY <2>1, <2>2 DEF ThroughputServerStep, ServerDownload, ServerUpload, ServerData, ServerDone,
         SendDownload, ReapStaleUpload, network
  <2>3. CASE NetworkStep /\ UNCHANGED transfer
    <3>1. \A q \in TransferPacket : [q EXCEPT !.copy = 1].kind = q.kind
      BY DEF TransferPacket
    <3>2. ASSUME NEW q \in toServer'
          PROVE  q \in toServer \/ \E p \in toServer : q = [p EXCEPT !.copy = 1]
      BY <2>3 DEF NetworkStep, Lose, Duplicate
    <3> QED BY <2>1, <2>3, <3>1, <3>2 DEF TransferTypes, transfer
  <2> QED BY <2>2, <2>3
<1>5. result.kind = "udpupload" => result.acked <= Cardinality(reached')
  BY <1>2 DEF LossInv
<1> QED BY <1>1, <1>3, <1>4, <1>5 DEF LossInv

LEMMA LossNext == FamilyInv /\ KindInv /\ LossInv /\ [Next]_vars => LossInv'
<1> SUFFICES ASSUME FamilyInv, KindInv, LossInv, [Next]_vars, mode \in TransferModes PROVE LossInv'
  BY LossElsewhere
<1>1. TransferTypes
  BY DEF FamilyInv, TransferTypes
<1>2. CASE UNCHANGED vars
  BY <1>2 DEF vars, packet, network, transfer, LossInv
<1> QED BY <1>1, <1>2, LossClient, LossServer, FamilySteps, FamiliesApart DEF FamilyStep

(* A finished transfer claims no more chunks than arrived on the receiving   *)
(* side, and a download exactly what its receiver read, for any payload and  *)
(* any loss, repetition and reordering.                                      *)
THEOREM LossIsNotUnderstated == Spec => []LossNotUnderstated
<1>1. FamilyInv /\ LossInv => LossNotUnderstated
  <2> SUFFICES ASSUME FamilyInv, LossInv PROVE LossNotUnderstated
    OBVIOUS
  <2>1. ASSUME result.kind = "udpdownload"
        PROVE  /\ result.received + result.lost = chunks
               /\ result.received <= Cardinality(reached) /\ result.received = Cardinality(got)
    <3>1. mode = "udpdownload"
      BY <2>1 DEF LossInv, TransferModes
    <3>2. Cardinality(got) <= Cardinality(reached)
      BY <3>1, FS_Subset DEF FamilyInv, TransferModes
    <3> QED BY <2>1, <3>1, <3>2 DEF LossInv
  <2> QED BY <2>1 DEF LossInv, LossNotUnderstated
<1> QED BY <1>1, FamilyInit, FamilyNext, KindInit, KindNext, LossInit, LossNext, PTL DEF Spec

-----------------------------------------------------------------------------
(***************************************************************************)
(* The sized transfers over streams.                                       *)
(***************************************************************************)
\* Only a verified attempt succeeds.
LEMMA Verified ==
  ASSUME NEW r, Outcome(mode, r).success
  PROVE  /\ mode \in Downloads => r.body = Size
         /\ mode \in Uploads => r.receipt \in {-1, Size}
<1> DEFINE a == HttpAttempt(mode, r)
<1>1. a = [success |-> a.success, error |-> a.error, results |-> a.results]
  BY DEF HttpAttempt, Attempt
<1> HIDE DEF a
<1>2. [a EXCEPT !.success = FALSE, !.error = "http"].success = FALSE
  BY <1>1
<1>3. ASSUME mode \in Downloads PROVE r.body = Size
  <2>1. Outcome(mode, r) = verify_download(a, r.body)
    BY <1>3 DEF Outcome, a, Downloads, Uploads
  <2> QED BY <1>2, <2>1 DEF verify_download
<1>4. ASSUME mode \in Uploads PROVE r.receipt \in {-1, Size}
  <2>1. Outcome(mode, r) = verify_upload(a, r.receipt)
    BY <1>4 DEF Outcome, a, Downloads, Uploads
  <2> QED BY <1>2, <2>1 DEF verify_upload
<1> QED BY <1>3, <1>4

\* A finished attempt is left alone, and only Finish makes a successful one.
LEMMA VerifiedStep ==
  ASSUME TransferVerified, StreamStep
  PROVE  TransferVerified'
<1>1. mode' = mode /\ ~attempt.success
  <2>1. Running
    BY DEF StreamStep, Complete, LateEcho, Silence, Deadline, GiveUpWaiting, Capped, Finish, Fail,
           Swallow
  <2> QED BY <2>1, StreamKeepsMode DEF Running, NoAttempt
<1>2. CASE UNCHANGED attempt
  BY <1>1, <1>2 DEF TransferVerified
<1>3. ASSUME NEW cat, Abort(cat) PROVE TransferVerified'
  <2>1. UNCHANGED attempt \/ ~attempt'.success
    <3>1. CASE Now.leg # "none"
      BY <1>3, <3>1 DEF Abort
    <3>2. CASE Now.leg = "none"
      <4>1. attempt' = Attempt(FALSE, cat, have \cap Kept(mode))
        BY <1>3, <3>2 DEF Abort
      <4> QED BY <4>1 DEF Attempt
    <3> QED BY <3>1, <3>2
  <2> QED BY <1>2, <2>1 DEF TransferVerified
<1>4. CASE Capped
  BY <1>4 DEF Capped, Attempt, TransferVerified
<1>5. CASE Finish
  BY <1>1, <1>5, Verified DEF Finish, TransferVerified
<1>6. CASE Complete
  BY <1>2, <1>6 DEF Complete, Advance
<1> QED BY <1>2, <1>3, <1>4, <1>5, <1>6
       DEF StreamStep, LateEcho, Silence, Deadline, GiveUpWaiting, Fail, Swallow

(* A successful download has received the whole payload and a successful     *)
(* upload was not contradicted by the server, for any payload, whatever      *)
(* stage breaks off or falls silent.                                         *)
THEOREM TransfersAreVerified == Spec => []TransferVerified
<1>1. Init => TransferVerified
  BY DEF Init, StreamInit, NoAttempt, TransferVerified
<1>2. FamilyInv /\ TransferVerified /\ [Next]_vars => TransferVerified'
  <2> SUFFICES ASSUME FamilyInv, TransferVerified, [Next]_vars PROVE TransferVerified'
    OBVIOUS
  <2>1. CASE UNCHANGED streamVars
    BY <2>1, FamilyNext DEF streamVars, TransferVerified
  <2> QED BY <2>1, VerifiedStep, FamilySteps DEF FamilyStep, vars
<1> QED BY <1>1, <1>2, FamilyInit, FamilyNext, PTL DEF Spec

-----------------------------------------------------------------------------
(***************************************************************************)
(* The path searches.  What holds of the search holds until an answer is   *)
(* attributed to a datagram it is not about.                               *)
(***************************************************************************)
\* Nothing was lost, and nothing is late.
Quiet == ~dropped /\ late = <<>>

Feedback ==
  [kind : {"echo", "unreach"}] \cup [kind : {"frag"}, mtu : Nat]
    \cup [kind : {"exceeded", "reached"}, from : Nat]
Evidence == [confirmed : BOOLEAN, wire : BOOLEAN, bound : BOOLEAN, icmp_mtu : Int]

SearchTypes ==
  /\ path \in Paths /\ platform \in {"linux", "portable", "windows"}
  /\ late \in Seq(Feedback) /\ dropped \in BOOLEAN /\ kernelMtu \in Int /\ seen \in Evidence
  /\ lo \in Int /\ hi \in Int /\ size \in Int /\ hops \in Seq(Int)

\* The interval of a path-MTU search.  The upper end is sound as long as
\* nothing is missed.  The lower end is sound once the destination is known to
\* answer, and where routers report what they drop and the platform shows it.
MtuSearch ==
  /\ path.mtu <= kernelMtu
  /\ Quiet => path.mtu <= hi
  /\ confirm # "none" => path.dest # "silent"
  /\ pc = "verdict" => lo = None
  /\ pc \in {"search", "verdict"} =>
       /\ confirm # "none" => lo <= path.mtu
       /\ Quiet /\ path.icmp /\ platform # "windows" => lo <= path.mtu
  /\ platform = "windows" => ~seen.wire

MtuInv ==
  mode = "pmtud" =>
    /\ pc \in {"start", "floor", "search", "verdict", "done"}
    /\ result.kind = "pmtud" => pc = "done" /\ MtuHonest
    /\ ~stale => SearchTypes /\ MtuSearch

\* The scan is at TTL hi: every hop so far is at its own place, and the
\* destination, if it answers, was not passed without being missed.
TraceSearch ==
  /\ platform # "windows" /\ hi \in Nat
  /\ Len(hops) = IF platform = "linux" THEN hi - 1 ELSE 0
  /\ pc \notin {"reached", "done"} => \A i \in 1..Len(hops) : hops[i] \in {None, i}
  /\ pc = "reached" =>
       /\ \A i \in 1..Len(hops) : hops[i] \in {None, IF i = hi - 1 THEN 0 ELSE i}
       /\ hi - 1 >= path.length /\ (Quiet => hi - 1 <= path.length)
  /\ pc \in {"start", "trace"} /\ Quiet /\ path.dest = "unreach" => hi <= path.length

TraceInv ==
  mode = "path" =>
    /\ pc \in {"start", "trace", "reached", "blocked", "done"}
    /\ result.kind = "path" => pc = "done" /\ TraceHonest
    /\ ~stale => SearchTypes /\ TraceSearch

PathInv == (result.kind \in PathModes => result.kind = mode) /\ MtuInv /\ TraceInv

\* The least of two and of three numbers.
LEMMA LeastOfTwo ==
  ASSUME NEW a \in Int, NEW b \in Int
  PROVE  Min({a, b}) \in {a, b} /\ Min({a, b}) <= a /\ Min({a, b}) <= b
<1>1. \E x \in {a, b} : \A y \in {a, b} : x <= y
  <2>1. CASE a <= b
    BY <2>1
  <2>2. CASE b <= a
    BY <2>2
  <2> QED BY <2>1, <2>2
<1>2. Min({a, b}) \in {a, b} /\ \A y \in {a, b} : Min({a, b}) <= y
  BY <1>1 DEF Min
<1> QED BY <1>2

LEMMA LeastOfThree ==
  ASSUME NEW a \in Int, NEW b \in Int, NEW c \in Int
  PROVE  Min({a, b, c}) \in {a, b, c} /\ Min({a, b, c}) <= a /\ Min({a, b, c}) <= b
         /\ Min({a, b, c}) <= c
<1>1. \E x \in {a, b, c} : \A y \in {a, b, c} : x <= y
  <2>1. CASE a <= b /\ a <= c
    BY <2>1
  <2>2. CASE b <= a /\ b <= c
    BY <2>2
  <2>3. CASE c <= a /\ c <= b
    BY <2>3
  <2> QED BY <2>1, <2>2, <2>3
<1>2. Min({a, b, c}) \in {a, b, c} /\ \A y \in {a, b, c} : Min({a, b, c}) <= y
  BY <1>1 DEF Min
<1> QED BY <1>2

\* The path's figures.
LEMMA PathFacts ==
  ASSUME path \in Paths
  PROVE  /\ path.mtu \in Nat /\ path.mtu <= CeilSize /\ path.local \in Int /\ path.length \in Nat
         /\ path.length >= 1
         /\ path.icmp \in BOOLEAN /\ path.dest \in {"echo", "unreach", "silent"}
BY PathAssumption DEF Paths

\* A deliverable answer is a feedback.
LEMMA AnswerTypes ==
  ASSUME path \in Paths
  PROVE  /\ \A s : Answer(s) \in Feedback \cup {Nothing}
         /\ \A t \in Nat : TtlAnswer(t) \in Feedback \cup {Nothing}
<1>1. /\ path.mtu \in Nat /\ path.icmp \in BOOLEAN /\ path.dest \in {"echo", "unreach", "silent"}
  BY PathFacts
<1>2. /\ \A k \in {"echo", "unreach"} : [kind |-> k] \in Feedback
      /\ \A m \in Nat : [kind |-> "frag", mtu |-> m] \in Feedback
      /\ \A k \in {"exceeded", "reached"}, m \in Nat : [kind |-> k, from |-> m] \in Feedback
  BY DEF Feedback
<1> QED BY <1>1, <1>2 DEF Answer, TtlAnswer, Nothing

\* As long as no late answer is taken for another's, a window ends with the
\* answer of its own datagram or with nothing, and with nothing for an answer
\* only if that is lost or late.
LEMMA DeliverHonest ==
  ASSUME NEW answer \in Feedback \cup {Nothing}, NEW f, Deliver(answer, f), ~stale',
         late \in Seq(Feedback), dropped \in BOOLEAN
  PROVE  /\ ~stale /\ f \in {answer, Nothing}
         /\ late' \in Seq(Feedback) /\ dropped' \in BOOLEAN
         /\ Quiet' => Quiet /\ f = answer
<1>1. ~(stale' = TRUE)
  OBVIOUS
<1>2. CASE f = answer /\ UNCHANGED <<late, stale, dropped>>
  BY <1>2 DEF Quiet
<1>3. CASE /\ answer # Nothing /\ f = Nothing /\ late' = Append(late, answer)
           /\ UNCHANGED <<stale, dropped>>
  <2>1. late' # <<>> /\ late' \in Seq(Feedback)
    BY <1>3
  <2> QED BY <1>3, <2>1 DEF Quiet
<1>4. CASE answer # Nothing /\ f = Nothing /\ dropped' = TRUE /\ UNCHANGED <<late, stale>>
  BY <1>4 DEF Quiet
<1> QED BY <1>1, <1>2, <1>3, <1>4 DEF Deliver

\* What an answer says of the datagram it answers.
LEMMA AnswerMeaning ==
  ASSUME path \in Paths, NEW s \in Int
  PROVE  /\ Answer(s).kind \in {"echo", "unreach"} => s <= path.mtu /\ path.dest # "silent"
         /\ Answer(s).kind = "frag" => s > path.mtu /\ path.icmp /\ Answer(s).mtu = path.mtu
         /\ Answer(s).kind = "nothing" =>
              (s <= path.mtu => path.dest = "silent") /\ (s > path.mtu => ~path.icmp)
         /\ Answer(s).kind \in {"echo", "unreach", "frag", "nothing"}
BY PathFacts DEF Answer

\* What the platforms make of it.
LEMMA FeedbackMeaning ==
  ASSUME platform \in {"linux", "portable", "windows"}, NEW f
  PROVE  /\ f.kind \in {"echo", "unreach"} => FeedbackClass(f) = Fit
         /\ f.kind = "frag" =>
              FeedbackClass(f) = CASE platform = "linux" -> TooBig(f.mtu, TRUE)
                                   [] platform = "portable" -> TooBig(None, TRUE)
                                   [] platform = "windows" -> Silent
         /\ f.kind = "nothing" => FeedbackClass(f) = Silent
BY DEF FeedbackClass, linux_feedback, portable_feedback, windows_feedback

LEMMA ClassesDiffer == Fit # Silent /\ \A m, w : TooBig(m, w) # Silent
<1>1. Fit.class = "fit" /\ Silent.class = "silent" /\ \A m, w : TooBig(m, w).class = "toobig"
  BY DEF Fit, Silent, TooBig
<1> QED BY <1>1

\* A size that was too big: the upper end moves below it, and no further than
\* any number known to fit.
LEMMA ClassifiedTooBig ==
  ASSUME SearchTypes, NEW m \in Int, NEW w \in BOOLEAN, Classified(TooBig(m, w))
  PROVE  /\ lo' \in Int /\ hi' \in Int /\ size' \in Int
         /\ seen' \in Evidence /\ (~w /\ ~seen.wire => ~seen'.wire)
         /\ \A k \in Int : k <= hi /\ k < size /\ (m = None \/ k <= m) => k <= hi'
         /\ \/ pc = "floor" /\ pc' = "floor"
            \/ pc = "floor" /\ pc' = "verdict" /\ lo' = None
            \/ pc = "search" /\ pc' = "search" /\ lo' = lo
<1> DEFINE c == TooBig(m, w)
<1>1. c.class = "toobig" /\ c.mtu = m /\ c.wire = w
  BY DEF TooBig
<1> HIDE DEF c
<1>2. Classified(c)
  BY DEF c
<1>3. lo \in Int /\ hi \in Int /\ size \in Int /\ seen \in Evidence /\ None \in Int
  BY DEF SearchTypes, None
<1>4. /\ Bound(size, c) \in Int
      /\ \A k \in Int : k <= hi /\ k < size /\ (m = None \/ k <= m) => k <= Bound(size, c)
  <2> DEFINE b == size - 1
  <2>3. b \in Int /\ \A k \in Int : k < size => k <= b
    BY <1>3
  <2>4. Bound(size, c) = IF m = None THEN Min({hi, b}) ELSE Min({hi, b, m})
    BY <1>1 DEF Bound
  <2> HIDE DEF b
  <2>1. CASE m = None
    <3>1. Min({hi, b}) \in {hi, b}
      BY <1>3, <2>3, LeastOfTwo
    <3> QED BY <1>3, <2>1, <2>3, <2>4, <3>1
  <2>2. CASE m # None
    <3>1. Min({hi, b, m}) \in {hi, b, m}
      BY <1>3, <2>3, LeastOfThree
    <3> QED BY <1>3, <2>2, <2>3, <2>4, <3>1
  <2> QED BY <2>1, <2>2
<1>5. seen' \in Evidence /\ (~w /\ ~seen.wire => ~seen'.wire)
  <2>1. seen' = Note(c)
    BY <1>2 DEF Classified
  <2>2. seen.icmp_mtu \in Int /\ seen.wire \in BOOLEAN
    BY <1>3 DEF Evidence
  <2> DEFINE n == IF ~w \/ m = None THEN seen.icmp_mtu
                  ELSE IF seen.icmp_mtu = None THEN m ELSE Min({seen.icmp_mtu, m})
  <2>3. n \in Int
    BY <2>2, LeastOfTwo
  <2>4. Note(c) = [seen EXCEPT !.bound = TRUE, !.wire = seen.wire \/ w, !.icmp_mtu = n]
    BY <1>1, <1>3 DEF Note, Evidence
  <2> HIDE DEF n
  <2> QED BY <1>3, <2>1, <2>2, <2>3, <2>4 DEF Evidence
<1>6. hi' = Bound(size, c)
  BY <1>1, <1>2 DEF Classified
<1>7. /\ lo' \in Int /\ size' \in Int
      /\ \/ pc = "floor" /\ pc' = "floor"
         \/ pc = "floor" /\ pc' = "verdict" /\ lo' = None
         \/ pc = "search" /\ pc' = "search" /\ lo' = lo
  <2>1. MinimalSize \in Int
    BY PathAssumption
  <2>2. hi' \in Int => lo + (hi' - lo + 1) \div 2 \in Int
    BY <1>3
  <2> QED BY <1>1, <1>2, <1>3, <1>4, <1>6, <2>1, <2>2 DEF Classified
<1> QED BY <1>4, <1>5, <1>6, <1>7

\* A size that fitted, or that nothing was heard of: it is the lower end.
LEMMA ClassifiedFits ==
  ASSUME SearchTypes, NEW c \in {Fit, Silent}, Classified(c)
  PROVE  /\ lo' = size /\ hi' = hi /\ size' \in Int /\ pc' = "search"
         /\ seen' \in Evidence /\ seen'.wire = seen.wire
<1>1. c.class \in {"fit", "silent"}
  BY DEF Fit, Silent
<1>2. seen \in Evidence /\ size \in Int /\ hi \in Int
  BY DEF SearchTypes
<1>3. seen' \in Evidence /\ seen'.wire = seen.wire
  BY <1>1, <1>2 DEF Classified, Note, Evidence
<1> QED BY <1>1, <1>2, <1>3 DEF Classified

\* What a step that moves the search forward must establish.
MtuKept ==
  /\ lo' \in Int /\ hi' \in Int /\ size' \in Int /\ seen' \in Evidence
  /\ Quiet' => path.mtu <= hi'
  /\ pc' \in {"floor", "search", "verdict"} /\ (pc' = "verdict" => lo' = None)
  /\ pc' \in {"search", "verdict"} =>
       /\ confirm' # "none" => lo' <= path.mtu
       /\ Quiet' /\ path.icmp /\ platform # "windows" => lo' <= path.mtu
  /\ platform = "windows" => ~seen'.wire

\* A size that is too big for the path, or that nothing says was carried.
LEMMA MtuTooBig ==
  ASSUME SearchTypes, MtuSearch, NEW m \in Int, NEW w \in BOOLEAN, Classified(TooBig(m, w)),
         pc \in {"floor", "search"}, confirm' = confirm, Quiet' => Quiet,
         Quiet' => path.mtu < size /\ (m = None \/ path.mtu <= m),
         platform = "windows" => ~w
  PROVE  MtuKept
<1>1. /\ lo' \in Int /\ hi' \in Int /\ size' \in Int
      /\ seen' \in Evidence /\ (~w /\ ~seen.wire => ~seen'.wire)
  BY ClassifiedTooBig
<1>2. \A k \in Int : k <= hi /\ k < size /\ (m = None \/ k <= m) => k <= hi'
  BY ClassifiedTooBig
<1>3. \/ pc = "floor" /\ pc' = "floor"
      \/ pc = "floor" /\ pc' = "verdict" /\ lo' = None
      \/ pc = "search" /\ pc' = "search" /\ lo' = lo
  BY ClassifiedTooBig
<1>4. path.mtu \in Nat /\ path.icmp \in BOOLEAN
  BY PathFacts DEF SearchTypes
<1>5. Quiet' => path.mtu <= hi'
  BY <1>2, <1>4 DEF MtuSearch
<1>6. None <= path.mtu
  BY <1>4 DEF None
<1>7. pc' \in {"search", "verdict"} =>
        /\ confirm' # "none" => lo' <= path.mtu
        /\ Quiet' /\ path.icmp /\ platform # "windows" => lo' <= path.mtu
  BY <1>3, <1>6 DEF MtuSearch
<1> QED BY <1>1, <1>3, <1>5, <1>7 DEF MtuKept, MtuSearch

\* A size that fits, or that nothing is known of.
LEMMA MtuFits ==
  ASSUME SearchTypes, MtuSearch, NEW c \in {Fit, Silent}, Classified(c), Quiet' => Quiet,
         confirm' # "none" => size <= path.mtu,
         Quiet' /\ path.icmp /\ platform # "windows" => size <= path.mtu
  PROVE  MtuKept
<1>1. /\ lo' = size /\ hi' = hi /\ size' \in Int /\ pc' = "search"
      /\ seen' \in Evidence /\ seen'.wire = seen.wire
  BY ClassifiedFits
<1> QED BY <1>1 DEF MtuKept, MtuSearch, SearchTypes

LEMMA MtuRefused ==
  ASSUME SearchTypes, MtuSearch, SizeRefused
  PROVE  MtuKept /\ UNCHANGED <<stale, late, dropped, confirm, kernelMtu>>
<1>1. UNCHANGED <<stale, late, dropped, confirm, kernelMtu, path, platform>>
      /\ pc \in {"floor", "search"} /\ size > kernelMtu
  BY DEF SizeRefused
<1>2. Quiet' => Quiet
  BY <1>1 DEF Quiet
<1>3. path.mtu \in Nat /\ kernelMtu \in Int /\ size \in Int
  BY PathFacts DEF SearchTypes
<1>4. path.mtu < size /\ path.mtu <= kernelMtu
  BY <1>1, <1>3 DEF MtuSearch
<1> DEFINE m == IF platform = "linux" THEN kernelMtu ELSE None
<1>5. m \in Int /\ (m = None \/ path.mtu <= m)
  BY <1>3, <1>4 DEF None
<1>6. Classified(TooBig(m, FALSE))
  BY DEF SizeRefused
<1> HIDE DEF m
<1> QED BY <1>1, <1>2, <1>4, <1>5, <1>6, MtuTooBig

\* The window of one datagram.
LEMMA MtuProbe ==
  ASSUME SearchTypes, MtuSearch, ~stale', NEW f, ProbeSize(f)
  PROVE  /\ ~stale /\ late' \in Seq(Feedback) /\ dropped' \in BOOLEAN /\ MtuKept
         /\ kernelMtu' \in Int /\ path.mtu <= kernelMtu'
         /\ confirm' # "none" => path.dest # "silent"
<1> DEFINE a == Answer(size)
<1>1. /\ path \in Paths /\ size \in Int /\ kernelMtu \in Int /\ late \in Seq(Feedback)
      /\ platform \in {"linux", "portable", "windows"} /\ dropped \in BOOLEAN
      /\ path.mtu \in Nat /\ path.mtu <= kernelMtu /\ pc \in {"floor", "search"}
  BY PathFacts DEF SearchTypes, MtuSearch, ProbeSize
<1>2. a \in Feedback \cup {Nothing}
  BY <1>1, AnswerTypes
<1>3. Deliver(a, f)
  BY DEF ProbeSize
<1>4. /\ a.kind \in {"echo", "unreach"} => size <= path.mtu /\ path.dest # "silent"
      /\ a.kind = "frag" => size > path.mtu /\ path.icmp /\ a.mtu = path.mtu
      /\ a.kind = "nothing" =>
           (size <= path.mtu => path.dest = "silent") /\ (size > path.mtu => ~path.icmp)
      /\ a.kind \in {"echo", "unreach", "frag", "nothing"}
  BY <1>1, AnswerMeaning
<1>5. kernelMtu' = IF a.kind = "frag" THEN Min({kernelMtu, a.mtu}) ELSE kernelMtu
  BY DEF ProbeSize
<1>6. confirm' = IF f.kind \in {"echo", "unreach"} /\ confirm = "none"
                 THEN ConfirmKind(f) ELSE confirm
  BY DEF ProbeSize
<1>7. IF FeedbackClass(f) # Silent THEN Classified(FeedbackClass(f))
      ELSE IF tries + 1 < Tries THEN UNCHANGED <<pc, lo, hi, size, seen>>
      ELSE Classified(IF confirm # "none" THEN TooBig(None, FALSE) ELSE Silent)
  BY DEF ProbeSize
<1> HIDE DEF a
<1>8. /\ ~stale /\ f \in {a, Nothing} /\ late' \in Seq(Feedback) /\ dropped' \in BOOLEAN
      /\ Quiet' => Quiet /\ f = a
  BY <1>1, <1>2, <1>3, DeliverHonest
<1>9. Nothing.kind = "nothing"
  BY DEF Nothing
<1>10. kernelMtu' \in Int /\ path.mtu <= kernelMtu'
  <2>1. CASE a.kind = "frag"
    <3>1. kernelMtu' = Min({kernelMtu, path.mtu})
      BY <1>4, <1>5, <2>1
    <3>2. Min({kernelMtu, path.mtu}) \in {kernelMtu, path.mtu}
      <4>1. path.mtu \in Int
        BY <1>1
      <4> QED BY <1>1, <4>1, LeastOfTwo
    <3> QED BY <1>1, <3>1, <3>2
  <2>2. CASE a.kind # "frag"
    BY <1>1, <1>5, <2>2
  <2> QED BY <2>1, <2>2
<1>11. confirm' # "none" => path.dest # "silent"
  BY <1>4, <1>6, <1>8, <1>9 DEF MtuSearch
<1>12. f.kind \in {"echo", "unreach", "frag", "nothing"}
  BY <1>4, <1>8, <1>9
<1>13. /\ f.kind \in {"echo", "unreach"} => FeedbackClass(f) = Fit
       /\ f.kind = "frag" =>
            FeedbackClass(f) = CASE platform = "linux" -> TooBig(f.mtu, TRUE)
                                 [] platform = "portable" -> TooBig(None, TRUE)
                                 [] platform = "windows" -> Silent
       /\ f.kind = "nothing" => FeedbackClass(f) = Silent
  BY <1>1, FeedbackMeaning
<1>14. CASE f.kind \in {"echo", "unreach"}
  <2>1. FeedbackClass(f) = Fit
    BY <1>14, <1>13
  <2>2. Classified(Fit)
    BY <1>7, <2>1, ClassesDiffer
  <2>3. size <= path.mtu
    BY <1>4, <1>8, <1>9, <1>14
  <2> QED BY <1>8, <1>10, <1>11, <2>2, <2>3, MtuFits
<1>15. CASE f.kind = "frag" /\ platform # "windows"
  <2> DEFINE m == IF platform = "linux" THEN f.mtu ELSE None
  <2>1. FeedbackClass(f) = TooBig(m, TRUE)
    BY <1>1, <1>15, <1>13
  <2>2. Classified(TooBig(m, TRUE))
    BY <1>7, <2>1, ClassesDiffer
  <2>3. f = a /\ size > path.mtu /\ f.mtu = path.mtu
    BY <1>4, <1>8, <1>9, <1>15
  <2>4. m \in Int /\ (m = None \/ path.mtu <= m)
    BY <1>1, <2>3 DEF None
  <2>5. confirm' = confirm
    BY <1>6, <1>15
  <2> HIDE DEF m
  <2>6. path.mtu < size
    BY <1>1, <2>3
  <2> QED BY <1>1, <1>8, <1>10, <1>11, <1>15, <2>2, <2>4, <2>5, <2>6, MtuTooBig
<1>16. CASE f.kind = "nothing" \/ (f.kind = "frag" /\ platform = "windows")
  <2>1. FeedbackClass(f) = Silent /\ confirm' = confirm
    BY <1>1, <1>6, <1>16, <1>13
  <2>2. CASE UNCHANGED <<pc, lo, hi, size, seen>>
    BY <1>1, <1>8, <1>10, <1>11, <2>1, <2>2 DEF MtuKept, MtuSearch, SearchTypes
  <2>3. CASE confirm # "none" /\ Classified(TooBig(None, FALSE))
    <3>1. Quiet' => path.mtu < size
      <4> SUFFICES ASSUME Quiet' PROVE path.mtu < size
        OBVIOUS
      <4>1. f = a /\ a.kind \in {"nothing", "frag"}
        BY <1>8, <1>16
      <4> QED BY <1>1, <1>4, <2>3, <4>1 DEF MtuSearch
    <3>2. None \in Int
      BY DEF None
    <3> QED BY <1>1, <1>8, <1>10, <1>11, <2>1, <2>3, <3>1, <3>2, MtuTooBig
  <2>4. CASE confirm = "none" /\ Classified(Silent)
    <3>1. Quiet' /\ path.icmp /\ platform # "windows" => size <= path.mtu
      BY <1>1, <1>4, <1>8, <1>16
    <3> QED BY <1>8, <1>10, <1>11, <2>1, <2>4, <3>1, MtuFits
  <2> QED BY <1>7, <2>1, <2>2, <2>3, <2>4
<1> QED BY <1>12, <1>14, <1>15, <1>16

\* The capability probe.
LEMMA MtuCapability ==
  ASSUME SearchTypes, MtuSearch, ~stale', NEW f, CapabilityProbe(f)
  PROVE  ~stale /\ SearchTypes' /\ MtuSearch'
<1> DEFINE a == Answer(FloorSize)
<1>1. /\ path \in Paths /\ kernelMtu \in Int /\ late \in Seq(Feedback) /\ dropped \in BOOLEAN
      /\ path.mtu \in Nat /\ path.mtu <= kernelMtu /\ FloorSize \in Int
  BY PathFacts, PathAssumption DEF SearchTypes, MtuSearch
<1>2. a \in Feedback \cup {Nothing}
  BY <1>1, AnswerTypes
<1>3. Deliver(a, f)
  BY DEF CapabilityProbe
<1>4. /\ a.kind \in {"echo", "unreach"} => path.dest # "silent"
      /\ a.kind = "frag" => a.mtu = path.mtu
      /\ a.kind \in {"echo", "unreach", "frag", "nothing"}
  BY <1>1, AnswerMeaning
<1>5. /\ kernelMtu' = IF f.kind = "frag" THEN Min({kernelMtu, f.mtu}) ELSE kernelMtu
      /\ confirm' = IF f.kind \in {"echo", "unreach"} THEN ConfirmKind(f) ELSE confirm
      /\ pc' = "floor" /\ UNCHANGED <<platform, path, lo, hi, size, seen, hops>>
  BY DEF CapabilityProbe
<1> HIDE DEF a
<1>6. /\ ~stale /\ f \in {a, Nothing} /\ late' \in Seq(Feedback) /\ dropped' \in BOOLEAN
      /\ Quiet' => Quiet
  BY <1>1, <1>2, <1>3, DeliverHonest
<1>7. Nothing.kind = "nothing"
  BY DEF Nothing
<1>8. kernelMtu' \in Int /\ path.mtu <= kernelMtu'
  <2>1. CASE f.kind = "frag"
    <3>1. kernelMtu' = Min({kernelMtu, path.mtu})
      BY <1>4, <1>5, <1>6, <1>7, <2>1
    <3>2. Min({kernelMtu, path.mtu}) \in {kernelMtu, path.mtu}
      <4>1. path.mtu \in Int
        BY <1>1
      <4> QED BY <1>1, <4>1, LeastOfTwo
    <3> QED BY <1>1, <3>1, <3>2
  <2>2. CASE f.kind # "frag"
    BY <1>1, <1>5, <2>2
  <2> QED BY <2>1, <2>2
<1>9. confirm' # "none" => path.dest # "silent"
  BY <1>4, <1>5, <1>6, <1>7 DEF MtuSearch
<1>10. SearchTypes'
  BY <1>5, <1>6, <1>8 DEF SearchTypes
<1>11. MtuSearch'
  BY <1>5, <1>6, <1>8, <1>9 DEF MtuSearch
<1> QED BY <1>6, <1>10, <1>11

\* The verdict on an honest search is honest.
LEMMA VerdictHonest ==
  ASSUME ~stale => SearchTypes /\ MtuSearch, PmtudVerdict
  PROVE  MtuHonest'
<1> SUFFICES ASSUME ~stale, SearchTypes, MtuSearch PROVE MtuHonest'
  BY DEF PmtudVerdict, search, MtuHonest
<1> DEFINE known == lo # None /\ (confirm # "none" \/ seen.wire)
<1>1. /\ result'.path_mtu = IF known THEN lo ELSE None
      /\ result'.success = known /\ result'.confirmed = (confirm # "none")
      /\ result'.lower_bound_only = (confirm # "none" /\ lo = CeilSize /\ ~seen.bound
                                     /\ seen.confirmed)
      /\ UNCHANGED <<path, stale, dropped, late>>
  BY DEF PmtudVerdict, search
<1>2. path.mtu \in Nat /\ path.mtu <= CeilSize /\ lo \in Int /\ hi \in Int /\ CeilSize \in Nat
  BY PathFacts, PathAssumption DEF SearchTypes
<1>3. Quiet' = Quiet
  BY <1>1 DEF Quiet
<1> SUFFICES ASSUME known
             PROVE  /\ confirm # "none" \/ (Quiet /\ path.icmp) => lo <= path.mtu
                    /\ Quiet /\ confirm # "none" => lo = path.mtu
                    /\ confirm # "none" /\ lo = CeilSize => path.mtu = CeilSize
  BY <1>1, <1>3 DEF MtuHonest, Quiet
<1>4. pc = "search" /\ lo >= hi
  BY DEF PmtudVerdict, MtuSearch
<1>5. confirm = "none" => platform # "windows"
  BY DEF MtuSearch
<1>6. /\ confirm # "none" => lo <= path.mtu
      /\ Quiet /\ path.icmp /\ platform # "windows" => lo <= path.mtu
      /\ Quiet => path.mtu <= hi
  BY <1>4 DEF MtuSearch
<1> QED BY <1>2, <1>4, <1>5, <1>6

LEMMA MtuNext ==
  ASSUME MtuInv, mode = "pmtud", PathStep, mode' = mode
  PROVE  MtuInv'
<1>1. /\ pc \in {"start", "floor", "search", "verdict", "done"}
      /\ result.kind = "pmtud" => pc = "done"
      /\ ~stale => SearchTypes /\ MtuSearch
  BY DEF MtuInv
<1>2. SUFFICES /\ pc' \in {"start", "floor", "search", "verdict", "done"}
               /\ result'.kind = "pmtud" => pc' = "done" /\ MtuHonest'
               /\ ~stale' => SearchTypes' /\ MtuSearch'
  BY DEF MtuInv
<1>3. CASE pc' = "done" /\ UNCHANGED search
  <2>1. ~stale' => SearchTypes' /\ MtuSearch'
    BY <1>1, <1>3 DEF search, SearchTypes, MtuSearch, Quiet
  <2>2. CASE PmtudVerdict
    BY <1>3, <2>1, VerdictHonest, <1>1, <2>2
  <2>3. CASE result'.kind = "failed"
    BY <1>3, <2>1, <2>3
  <2>4. PmtudVerdict \/ result'.kind = "failed"
    BY <1>1, <1>3 DEF PathStep, PathSetupFails, SendFatal, DrainLate, TraceStart, SizeRefused,
         Classified, ProbeTtlUnreachable, CapabilityProbe, ProbeSize, ProbeTtl, ProbeTtlPortable,
         TraceDone, Failed
  <2> QED BY <2>2, <2>3, <2>4
<1>4. CASE DrainLate
  <2>1. /\ pc' = pc /\ dropped' = TRUE /\ late' = Tail(late) /\ late # <<>>
        /\ UNCHANGED <<result, platform, path, kernelMtu, lo, hi, size, confirm, seen, hops, stale>>
        /\ pc # "done"
    BY <1>4 DEF DrainLate
  <2>2. ~stale => late' \in Seq(Feedback)
    BY <1>1, <2>1 DEF SearchTypes
  <2> QED BY <1>1, <2>1, <2>2 DEF SearchTypes, MtuSearch, Quiet
<1>5. ASSUME NEW f, CapabilityProbe(f)
      PROVE  /\ pc' \in {"start", "floor", "search", "verdict", "done"}
             /\ result'.kind = "pmtud" => pc' = "done" /\ MtuHonest'
             /\ ~stale' => SearchTypes' /\ MtuSearch'
  <2>1. pc' = "floor" /\ UNCHANGED result /\ pc = "start" /\ (~stale' => ~stale)
    BY <1>5 DEF CapabilityProbe, Deliver
  <2> QED BY <1>1, <1>5, <2>1, MtuCapability
<1>6. CASE SizeRefused
  <2>1. /\ UNCHANGED <<result, platform, path, hops, stale>> /\ pc \in {"floor", "search"}
        /\ pc' \in {"floor", "search", "verdict"}
    BY <1>6 DEF SizeRefused, Classified
  <2>2. ASSUME ~stale
        PROVE  MtuKept /\ UNCHANGED <<late, dropped, confirm, kernelMtu>>
    BY <1>1, <1>6, <2>2, MtuRefused
  <2> QED BY <1>1, <2>1, <2>2 DEF SearchTypes, MtuSearch, MtuKept, Quiet
<1>7. ASSUME NEW f, ProbeSize(f)
      PROVE  /\ pc' \in {"start", "floor", "search", "verdict", "done"}
             /\ result'.kind = "pmtud" => pc' = "done" /\ MtuHonest'
             /\ ~stale' => SearchTypes' /\ MtuSearch'
  <2>1. /\ UNCHANGED <<result, platform, path, hops>> /\ pc \in {"floor", "search"}
        /\ pc' \in {"floor", "search", "verdict"} /\ (~stale' => ~stale)
    <3>1. /\ UNCHANGED <<result, platform, path, hops>> /\ pc \in {"floor", "search"}
          /\ Deliver(Answer(size), f) /\ (pc' = pc \/ \E c : Classified(c))
      BY <1>7 DEF ProbeSize
    <3>2. ~stale' => ~stale
      BY <3>1 DEF Deliver
    <3>3. pc' \in {"floor", "search", "verdict"}
      BY <3>1 DEF Classified
    <3> QED BY <3>1, <3>2, <3>3
  <2>2. ASSUME ~stale'
        PROVE  /\ late' \in Seq(Feedback) /\ dropped' \in BOOLEAN /\ MtuKept
               /\ kernelMtu' \in Int /\ path.mtu <= kernelMtu'
               /\ confirm' # "none" => path.dest # "silent"
    BY <1>1, <1>7, <2>1, <2>2, MtuProbe
  <2> QED BY <1>1, <2>1, <2>2 DEF SearchTypes, MtuSearch, MtuKept
<1>8. CASE PathSetupFails \/ SendFatal \/ PmtudVerdict
  BY <1>3, <1>8 DEF PathSetupFails, SendFatal, PmtudVerdict
<1> QED BY <1>1, <1>4, <1>5, <1>6, <1>7, <1>8
       DEF PathStep, TraceStart, ProbeTtlUnreachable, ProbeTtl, ProbeTtlPortable, TraceDone

-----------------------------------------------------------------------------
\* What an answer says of the TTL it answers.
LEMMA TtlMeaning ==
  ASSUME path \in Paths, NEW t \in Nat
  PROVE  /\ TtlAnswer(t).kind = "reached" =>
              TtlAnswer(t).from = 0 /\ t >= path.length /\ path.dest = "unreach"
         /\ TtlAnswer(t).kind = "exceeded" => TtlAnswer(t).from = t /\ t < path.length
         /\ TtlAnswer(t).kind = "nothing" /\ path.dest = "unreach" => t < path.length
         /\ TtlAnswer(t).kind \in {"reached", "exceeded", "nothing"}
BY PathFacts DEF TtlAnswer, Nothing

\* The window of one TTL.
LEMMA TraceProbe ==
  ASSUME SearchTypes, TraceSearch, ~stale', NEW f, ProbeTtl(f)
  PROVE  ~stale /\ SearchTypes' /\ TraceSearch'
<1> DEFINE a == TtlAnswer(hi)
           v == IF f.kind = "nothing" THEN None ELSE f.from
<1>1. /\ pc = "trace" /\ platform = "linux" /\ Deliver(a, f) /\ hops' = Append(hops, v)
      /\ hi' = hi + 1 /\ pc' = IF f.kind = "reached" THEN "reached" ELSE "trace"
      /\ UNCHANGED <<platform, path, kernelMtu, lo, size, seen>>
  BY DEF ProbeTtl
<1>2. /\ path \in Paths /\ hi \in Nat /\ late \in Seq(Feedback) /\ dropped \in BOOLEAN
      /\ hops \in Seq(Int) /\ Len(hops) = hi - 1 /\ path.length \in Nat
      /\ \A i \in 1..Len(hops) : hops[i] \in {None, i}
  BY <1>1, PathFacts DEF SearchTypes, TraceSearch
<1>3. a \in Feedback \cup {Nothing}
  BY <1>2, AnswerTypes
<1>4. /\ a.kind = "reached" => a.from = 0 /\ hi >= path.length /\ path.dest = "unreach"
      /\ a.kind = "exceeded" => a.from = hi /\ hi < path.length
      /\ a.kind = "nothing" /\ path.dest = "unreach" => hi < path.length
      /\ a.kind \in {"reached", "exceeded", "nothing"}
  BY <1>2, TtlMeaning
<1> HIDE DEF a
<1>5. /\ ~stale /\ f \in {a, Nothing} /\ late' \in Seq(Feedback) /\ dropped' \in BOOLEAN
      /\ Quiet' => Quiet /\ f = a
  BY <1>1, <1>2, <1>3, DeliverHonest
<1>6. Nothing.kind = "nothing" /\ None \in Int
  BY DEF Nothing, None
<1>7. v \in {None, IF f.kind = "reached" THEN 0 ELSE hi}
  BY <1>4, <1>5, <1>6
<1> HIDE DEF v
<1>8. /\ hops' \in Seq(Int) /\ Len(hops') = hi /\ hops'[hi] = v
      /\ \A i \in 1..Len(hops) : hops'[i] = hops[i]
  <2>1. v \in Int
    BY <1>2, <1>6, <1>7
  <2> QED BY <1>1, <1>2, <2>1
<1>9. SearchTypes'
  BY <1>1, <1>2, <1>5, <1>8 DEF SearchTypes
<1>10. \A i \in 1..Len(hops') : hops'[i] \in {None, IF f.kind = "reached" /\ i = hi THEN 0 ELSE i}
  <2> SUFFICES ASSUME NEW i \in 1..Len(hops')
               PROVE  hops'[i] \in {None, IF f.kind = "reached" /\ i = hi THEN 0 ELSE i}
    OBVIOUS
  <2>1. CASE i = hi
    BY <1>7, <1>8, <2>1
  <2>2. CASE i # hi
    <3>1. i \in 1..Len(hops)
      BY <1>2, <1>8, <2>2
    <3>2. hops'[i] \in {None, i}
      BY <1>2, <1>8, <3>1
    <3> QED BY <2>2, <3>2
  <2> QED BY <2>1, <2>2
<1>11. CASE f.kind = "reached"
  <2>1. hi >= path.length /\ path.dest = "unreach" /\ pc' = "reached"
    BY <1>1, <1>4, <1>5, <1>6, <1>11
  <2>2. Quiet' => hi <= path.length
    BY <1>1, <1>5, <2>1 DEF TraceSearch
  <2>3. hi' - 1 = hi /\ hi' \in Nat
    BY <1>1, <1>2
  <2> QED BY <1>1, <1>5, <1>8, <1>9, <1>10, <1>11, <2>1, <2>2, <2>3 DEF TraceSearch
<1>12. CASE f.kind # "reached"
  <2>1. Quiet' /\ path.dest = "unreach" => hi' <= path.length
    BY <1>1, <1>2, <1>4, <1>5, <1>12
  <2>2. hi' - 1 = hi /\ hi' \in Nat /\ pc' = "trace"
    BY <1>1, <1>2, <1>12
  <2>3. \A i \in 1..Len(hops') : hops'[i] \in {None, i}
    BY <1>10, <1>12
  <2> QED BY <1>1, <1>5, <1>8, <1>9, <2>1, <2>2, <2>3 DEF TraceSearch
<1> QED BY <1>11, <1>12

\* A router refuses the datagram for another reason.
LEMMA TraceUnreachable ==
  ASSUME SearchTypes, TraceSearch, ProbeTtlUnreachable
  PROVE  SearchTypes' /\ TraceSearch'
<1>1. /\ pc = "trace" /\ platform = "linux" /\ hops' = Append(hops, hi)
      /\ hi' = hi + 1 /\ pc' = "blocked"
      /\ UNCHANGED <<platform, path, kernelMtu, lo, size, seen, late, dropped>>
  BY DEF ProbeTtlUnreachable
<1>2. /\ hi \in Nat /\ hops \in Seq(Int) /\ Len(hops) = hi - 1
      /\ \A i \in 1..Len(hops) : hops[i] \in {None, i}
  BY <1>1 DEF SearchTypes, TraceSearch
<1>3. /\ hops' \in Seq(Int) /\ Len(hops') = hi /\ hops'[hi] = hi
      /\ \A i \in 1..Len(hops) : hops'[i] = hops[i]
  BY <1>1, <1>2
<1>4. \A i \in 1..Len(hops') : hops'[i] \in {None, i}
  BY <1>2, <1>3
<1>5. Len(hops') = hi' - 1 /\ hi' \in Nat
  BY <1>1, <1>2, <1>3
<1>6. SearchTypes'
  BY <1>1, <1>3, <1>5 DEF SearchTypes
<1> QED BY <1>1, <1>4, <1>5, <1>6 DEF TraceSearch

\* A fresh socket per TTL: nothing is ever late.
LEMMA TracePortable ==
  ASSUME SearchTypes, TraceSearch, NEW f, ProbeTtlPortable(f)
  PROVE  SearchTypes' /\ TraceSearch'
<1> DEFINE a == TtlAnswer(hi)
<1>1. /\ pc = "trace" /\ platform # "linux" /\ f \in {a, Nothing}
      /\ dropped' = (dropped \/ f # a)
      /\ hi' = hi + 1 /\ pc' = IF f.kind = "reached" THEN "reached" ELSE "trace"
      /\ UNCHANGED <<platform, path, kernelMtu, lo, size, seen, hops, late>>
  BY DEF ProbeTtlPortable
<1>2. path \in Paths /\ path.length \in Nat /\ Len(hops) = 0 /\ hi \in Nat /\ hi' \in Nat
  BY <1>1, PathFacts DEF SearchTypes, TraceSearch
<1>3. /\ a.kind = "reached" => hi >= path.length /\ path.dest = "unreach"
      /\ a.kind = "exceeded" => hi < path.length
      /\ a.kind = "nothing" /\ path.dest = "unreach" => hi < path.length
      /\ a.kind \in {"reached", "exceeded", "nothing"}
  BY <1>2, TtlMeaning
<1> HIDE DEF a
<1>4. Quiet' => Quiet /\ f = a
  BY <1>1 DEF Quiet
<1>5. Nothing.kind = "nothing"
  BY DEF Nothing
<1>6. dropped' \in BOOLEAN
  BY <1>1
<1>7. SearchTypes'
  BY <1>1, <1>6 DEF SearchTypes
<1>8. CASE f.kind = "reached"
  <2>1. hi >= path.length /\ path.dest = "unreach" /\ pc' = "reached"
    BY <1>1, <1>3, <1>5, <1>8
  <2>2. Quiet' => hi <= path.length
    BY <1>1, <1>4, <2>1 DEF TraceSearch
  <2>3. hi' - 1 = hi
    BY <1>1, <1>2
  <2> QED BY <1>1, <1>2, <1>7, <2>1, <2>2, <2>3 DEF TraceSearch
<1>9. CASE f.kind # "reached"
  <2>1. Quiet' /\ path.dest = "unreach" => hi' <= path.length
    BY <1>1, <1>2, <1>3, <1>4, <1>9
  <2>2. pc' = "trace"
    BY <1>1, <1>9
  <2> QED BY <1>1, <1>2, <1>7, <2>1, <2>2 DEF TraceSearch
<1> QED BY <1>8, <1>9

\* The report of an honest scan is honest.
LEMMA TraceDoneHonest ==
  ASSUME ~stale => SearchTypes /\ TraceSearch, pc # "done", NEW ok, TraceDone(ok)
  PROVE  TraceHonest'
<1> SUFFICES ASSUME ~stale, SearchTypes, TraceSearch PROVE TraceHonest'
  BY DEF TraceDone, search, TraceHonest
<1> DEFINE n == IF pc = "reached" THEN hi - 1 ELSE None
<1>1. /\ result'.hops \in {<<>>, hops} /\ result'.reached = (pc = "reached")
      /\ result'.hop_count = n
      /\ UNCHANGED <<path, stale, dropped, late>>
  BY DEF TraceDone, search
<1>2. hi \in Nat /\ hops \in Seq(Int) /\ path.length \in Nat
  BY PathFacts DEF SearchTypes, TraceSearch
<1>3. \A i \in 1..Len(hops) : hops[i] \in {None, IF i = n THEN 0 ELSE i}
  <2>1. CASE pc = "reached"
    BY <2>1 DEF TraceSearch
  <2>2. CASE pc # "reached"
    <3>1. \A i \in 1..Len(hops) : hops[i] \in {None, i} /\ i # None
      BY <1>2, <2>2 DEF TraceSearch, None
    <3> QED BY <2>2, <3>1
  <2> QED BY <2>1, <2>2
<1>4. \A i \in DOMAIN result'.hops : result'.hops[i] \in {None, IF i = n THEN 0 ELSE i}
  <2>1. CASE result'.hops = hops
    BY <1>2, <1>3, <2>1
  <2>2. CASE result'.hops = <<>>
    BY <2>2
  <2> QED BY <1>1, <2>1, <2>2
<1>5. n # None => n >= path.length
  BY DEF TraceSearch
<1>6. pc = "reached" /\ Quiet => n = path.length
  BY <1>2 DEF TraceSearch
<1>7. Quiet' = Quiet
  BY <1>1 DEF Quiet
<1> HIDE DEF n
<1>8. result'.reached /\ ~dropped' /\ late' = <<>> => n = path.length
  BY <1>1, <1>6, <1>7 DEF Quiet
<1> QED BY <1>1, <1>4, <1>5, <1>8 DEF TraceHonest

LEMMA TraceNext ==
  ASSUME TraceInv, mode = "path", PathStep, mode' = mode
  PROVE  TraceInv'
<1> DEFINE Places == {"start", "trace", "reached", "blocked", "done"}
<1>1. /\ pc \in Places /\ (result.kind = "path" => pc = "done")
      /\ ~stale => SearchTypes /\ TraceSearch
  BY DEF TraceInv
<1>2. SUFFICES /\ pc' \in Places
               /\ result'.kind = "path" => pc' = "done" /\ TraceHonest'
               /\ ~stale' => SearchTypes' /\ TraceSearch'
  BY DEF TraceInv
<1>3. ASSUME pc' \in {"trace", "done"}, UNCHANGED search, pc' = "trace" => pc = "start"
      PROVE  pc' \in Places /\ (~stale' => SearchTypes' /\ TraceSearch')
  <2>1. ~stale' => SearchTypes'
    BY <1>1, <1>3 DEF search, SearchTypes
  <2>2. ~stale' => TraceSearch'
    BY <1>1, <1>3 DEF search, TraceSearch, Quiet
  <2> QED BY <1>3, <2>1, <2>2
<1>4. CASE PathSetupFails
  BY <1>3, <1>4 DEF PathSetupFails, Failed
<1>5. CASE TraceStart
  BY <1>1, <1>3, <1>5 DEF TraceStart
<1>6. ASSUME NEW ok, TraceDone(ok)
      PROVE  /\ pc' \in Places
             /\ result'.kind = "path" => pc' = "done" /\ TraceHonest'
             /\ ~stale' => SearchTypes' /\ TraceSearch'
  <2>1. pc' = "done" /\ pc # "done" /\ UNCHANGED search
    BY <1>6 DEF TraceDone
  <2>2. TraceHonest'
    BY <1>1, <1>6, <2>1, TraceDoneHonest
  <2> QED BY <1>3, <2>1, <2>2
<1>7. CASE ProbeTtlUnreachable
  <2>1. pc' = "blocked" /\ pc = "trace" /\ UNCHANGED <<result, stale>>
    BY <1>7 DEF ProbeTtlUnreachable
  <2> QED BY <1>1, <1>7, <2>1, TraceUnreachable
<1>8. ASSUME NEW f, ProbeTtl(f) \/ ProbeTtlPortable(f)
      PROVE  /\ pc' \in Places
             /\ result'.kind = "path" => pc' = "done" /\ TraceHonest'
             /\ ~stale' => SearchTypes' /\ TraceSearch'
  <2>1. pc' \in {"trace", "reached"} /\ pc = "trace" /\ UNCHANGED result
    BY <1>8 DEF ProbeTtl, ProbeTtlPortable
  <2>2. ~stale' => ~stale
    BY <1>8 DEF ProbeTtl, ProbeTtlPortable, Deliver
  <2> QED BY <1>1, <1>8, <2>1, <2>2, TraceProbe, TracePortable
<1> QED BY <1>1, <1>4, <1>5, <1>6, <1>7, <1>8
       DEF PathStep, SizeRefused, SendFatal, DrainLate, PmtudVerdict, CapabilityProbe, ProbeSize

\* Before the first step.
LEMMA PathInvInit == Init => PathInv
<1> SUFFICES ASSUME Init PROVE PathInv
  OBVIOUS
<1>1. result.kind = "none" /\ pc = "start"
  BY DEF Init, NoResult
<1>2. ASSUME mode \in PathModes
      PROVE  path \in Paths /\ path.mtu <= path.local
  BY <1>2, PathAssumption DEF Init, PathInit, PathModes, Paths
<1>3. /\ late = <<>> /\ hops = <<>> /\ dropped = FALSE /\ kernelMtu = path.local
      /\ lo = FloorSize /\ size = FloorSize /\ confirm = "none" /\ seen = NoEvidence
      /\ hi = IF mode = "path" THEN 1 ELSE CeilSize
      /\ mode \in PathModes => platform \in {"linux", "portable", "windows"}
      /\ mode = "path" => platform # "windows"
  BY DEF Init, PathInit, PathModes
<1>4. seen \in Evidence /\ ~seen.wire
  BY <1>3 DEF NoEvidence, Evidence, None
<1>5. {FloorSize, CeilSize} \subseteq Nat /\ 1 \in Nat
  BY PathAssumption
<1>6. ASSUME mode \in PathModes
      PROVE  /\ SearchTypes
             /\ path.mtu <= CeilSize /\ path.length >= 1
  <2>1. path \in Paths
    BY <1>2, <1>6
  <2>2. path.local \in Int /\ path.mtu <= CeilSize /\ path.length >= 1
    BY <2>1, PathFacts
  <2>3. late \in Seq(Feedback) /\ hops \in Seq(Int)
    BY <1>3
  <2>4. kernelMtu \in Int /\ lo \in Int /\ hi \in Int /\ size \in Int /\ dropped \in BOOLEAN
    <3>1. hi \in Int
      BY <1>3, <1>5
    <3>2. lo \in Int /\ size \in Int
      BY <1>3, <1>5
    <3> QED BY <1>3, <2>2, <3>1, <3>2
  <2>5. platform \in {"linux", "portable", "windows"}
    BY <1>3, <1>6
  <2> QED BY <1>4, <2>1, <2>2, <2>3, <2>4, <2>5 DEF SearchTypes
<1>7. mode = "pmtud" => MtuSearch
  BY <1>1, <1>2, <1>3, <1>4, <1>6 DEF MtuSearch, PathModes
<1>8. mode = "path" => TraceSearch
  BY <1>1, <1>3, <1>6 DEF TraceSearch, PathModes
<1> QED BY <1>1, <1>6, <1>7, <1>8 DEF PathInv, MtuInv, TraceInv, PathModes

\* Other families report no path.
LEMMA PathElsewhere ==
  ASSUME FamilyInv, KindInv, PathInv, [Next]_vars, mode \notin PathModes
  PROVE  PathInv'
<1>1. mode' = mode /\ FamilyInv' /\ KindInv'
  BY FamilyNext, KindNext
<1>2. result'.kind \notin PathModes
  <2>1. CASE mode \in StreamModes
    BY <1>1, <2>1 DEF FamilyInv, NoResult, PathModes
  <2>2. CASE mode \notin StreamModes
    BY <1>1, <2>2
       DEF KindInv, ReportKinds, TrainKinds, TransferModes, PathModes, FamilyInv
  <2> QED BY <2>1, <2>2
<1> QED BY <1>1, <1>2 DEF PathInv, MtuInv, TraceInv, PathModes

LEMMA PathNext == FamilyInv /\ KindInv /\ PathInv /\ [Next]_vars => PathInv'
<1> SUFFICES ASSUME FamilyInv, KindInv, PathInv, [Next]_vars, mode \in PathModes PROVE PathInv'
  BY PathElsewhere
<1>1. mode' = mode
  BY FamilyNext
<1>2. CASE UNCHANGED vars
  BY <1>2 DEF vars, packet, search, PathInv, MtuInv, TraceInv, SearchTypes, MtuSearch,
              TraceSearch, MtuHonest, TraceHonest, Quiet
<1>3. CASE PathStep
  <2>1. result'.kind \in PathModes => result'.kind = mode
    <3>1. CASE UNCHANGED result
      BY <3>1 DEF PathInv
    <3>2. CASE PathSetupFails \/ SendFatal \/ PmtudVerdict
      BY <3>2 DEF PathSetupFails, SendFatal, PmtudVerdict, Failed, PathModes
    <3>3. ASSUME NEW ok, TraceDone(ok) PROVE result'.kind = mode
      BY <3>3 DEF TraceDone
    <3> QED BY <1>3, <3>1, <3>2, <3>3
          DEF PathStep, SizeRefused, DrainLate, TraceStart, ProbeTtlUnreachable, CapabilityProbe,
           ProbeSize, ProbeTtl, ProbeTtlPortable
  <2>2. CASE mode = "pmtud"
    <3>1. MtuInv'
      BY <1>1, <1>3, <2>2, MtuNext DEF PathInv
    <3>2. TraceInv'
      BY <1>1, <2>2 DEF TraceInv
    <3> QED BY <1>1, <2>1, <3>1, <3>2 DEF PathInv
  <2>3. CASE mode = "path"
    <3>1. TraceInv'
      BY <1>1, <1>3, <2>3, TraceNext DEF PathInv
    <3>2. MtuInv'
      BY <1>1, <2>3 DEF MtuInv
    <3> QED BY <1>1, <2>1, <3>1, <3>2 DEF PathInv
  <2> QED BY <2>2, <2>3 DEF PathModes
<1> QED BY <1>2, <1>3, FamilySteps, FamiliesApart DEF FamilyStep

(* Unless a late answer was taken for another datagram's, a discovered MTU   *)
(* is one the path carries, and the largest if nothing was missed, and a     *)
(* trace puts each router at its own TTL and counts the hops right: for any  *)
(* sizes, ceilings, retries and lengths of the path, on every platform.      *)
THEOREM PathsAreReportedHonestly == Spec => []PathHonest
<1>1. PathInv => PathHonest
  BY DEF PathInv, MtuInv, TraceInv, PathHonest, MtuHonest, TraceHonest, PathModes
<1> QED BY <1>1, FamilyInit, FamilyNext, KindInit, KindNext, PathInvInit, PathNext, PTL DEF Spec

-----------------------------------------------------------------------------
(***************************************************************************)
(* The trains.                                                             *)
(***************************************************************************)
\* Every datagram names a probe that was sent, every reply one that reached
\* the endpoint, and the probes credited are those whose reply was read.
TrainInv ==
  mode \in TrainModes =>
    /\ credited \in [Seqs -> Nat \cup {None}] /\ sent \subseteq Seqs
    /\ \A p \in toServer : p.seq \in sent
    /\ \A p \in toClient : p.seq \in sent /\ p.seq \in arrived
    /\ Credits(credited) = returned /\ returned \subseteq arrived
    /\ pc = "fallback" => returned = {}
    /\ result.kind \in TrainKinds => pc = "done"

\* The reflector's numbers tell the probes apart: a number is on one probe's
\* replies only, on their way or credited, and lies below the next one.
NumbersInv ==
  mode = "stamp" =>
    /\ \A p \in toClient : p.rseq < nextSeq
    /\ \A s \in Seqs : credited[s] < nextSeq
    /\ \A p, q \in toClient : p.rseq = q.rseq => p.seq = q.seq
    /\ \A p \in toClient, s \in Seqs : credited[s] = p.rseq => s = p.seq
    /\ \A s, t \in Credits(credited) : credited[s] = credited[t] => s = t

\* A finished train has reconciled its totals.
TotalsInv == mode \in TrainModes => TrainReconciles

\* A duplicate names the same probe with the same number.
LEMMA SameNumbers ==
  ASSUME NetworkStep, toServer \subseteq Probe, toClient \subseteq Reply
  PROVE  /\ \A q \in toServer' : \E p \in toServer : q.seq = p.seq
         /\ \A q \in toClient' : \E p \in toClient : q.seq = p.seq /\ q.rseq = p.rseq
<1>1. /\ \A p \in Probe : [p EXCEPT !.copy = 1].seq = p.seq
      /\ \A p \in Reply : LET d == [p EXCEPT !.copy = 1] IN d.seq = p.seq /\ d.rseq = p.rseq
  BY DEF Probe, Reply
<1>2. ASSUME NEW q \in toServer' PROVE \E p \in toServer : q.seq = p.seq
  <2>1. q \in toServer \/ \E p \in toServer : q = [p EXCEPT !.copy = 1]
    BY <1>2 DEF NetworkStep, Lose, Duplicate
  <2> QED BY <1>1, <2>1
<1>3. ASSUME NEW q \in toClient'
      PROVE  \E p \in toClient : q.seq = p.seq /\ q.rseq = p.rseq
  <2>1. q \in toClient \/ \E p \in toClient : q = [p EXCEPT !.copy = 1]
    BY <1>3 DEF NetworkStep, Lose, Duplicate
  <2> QED BY <1>1, <2>1
<1> QED BY <1>2, <1>3

\* Crediting a reply credits its probe, and leaves every other alone.
LEMMA CreditOne ==
  ASSUME credited \in [Seqs -> Nat \cup {None}], sent \subseteq Seqs,
         NEW p, p.seq \in sent, p.rseq \in Nat
  PROVE  /\ Credit(credited, p) \in [Seqs -> Nat \cup {None}]
         /\ Credits(Credit(credited, p)) = Credits(credited) \cup {p.seq}
         /\ \A s \in Seqs : \/ Credit(credited, p)[s] = credited[s]
                            \/ /\ s = p.seq /\ credited[s] = None
                               /\ Credit(credited, p)[s] = p.rseq
<1>1. None \notin Nat
  BY DEF None
<1>2. CASE credited[p.seq] = None
  <2>1. Credit(credited, p) = [credited EXCEPT ![p.seq] = p.rseq]
    BY <1>2 DEF Credit
  <2> QED BY <1>1, <1>2, <2>1 DEF Credits
<1>3. CASE credited[p.seq] # None
  <2>1. Credit(credited, p) = credited
    BY <1>3 DEF Credit
  <2> QED BY <1>3, <2>1 DEF Credits
<1> QED BY <1>2, <1>3

LEMMA CreditInit == Init => TrainInv /\ NumbersInv /\ TotalsInv
<1> SUFFICES ASSUME Init PROVE TrainInv /\ NumbersInv /\ TotalsInv
  OBVIOUS
<1>1. result.kind = "none" /\ pc = "start" /\ toServer = {} /\ toClient = {}
  BY DEF Init, NoResult
<1>2. /\ sent = {} /\ arrived = {} /\ returned = {} /\ credited = [s \in Seqs |-> None]
      /\ nextSeq \in Nat
  BY TrainAssumption DEF Init, TrainInit
<1>3. Credits(credited) = {}
  BY <1>2 DEF Credits
<1>4. \A s \in Seqs : credited[s] < nextSeq
  BY <1>2 DEF None
<1>5. TrainInv
  BY <1>1, <1>2, <1>3 DEF TrainInv, TrainKinds
<1>6. NumbersInv
  BY <1>1, <1>3, <1>4 DEF NumbersInv
<1> QED BY <1>1, <1>5, <1>6 DEF TotalsInv, TrainReconciles, UdpReconciles, StampReconciles, PingReconciles

\* What the steps of a train start from.
TrainFacts ==
  /\ mode \in TrainModes /\ TrainInv
  /\ seq \in Nat /\ nextSeq \in Nat /\ toServer \subseteq Probe /\ toClient \subseteq Reply

LEMMA TrainInvNetwork ==
  ASSUME TrainFacts, NetworkStep, UNCHANGED train
  PROVE  TrainInv'
<1>1. /\ \A q \in toServer' : \E p \in toServer : q.seq = p.seq
      /\ \A q \in toClient' : \E p \in toClient : q.seq = p.seq
  BY SameNumbers DEF TrainFacts
<1>2. UNCHANGED <<mode, pc, result>>
  BY DEF NetworkStep, Lose, Duplicate
<1> QED BY <1>1, <1>2 DEF TrainFacts, TrainInv, train

LEMMA TrainInvReflector ==
  ASSUME TrainFacts, ReflectorStep
  PROVE  TrainInv'
<1>1. CASE SweepIdleSession
  BY <1>1 DEF SweepIdleSession, TrainFacts, TrainInv, probe, network
<1>2. ASSUME NEW p \in toServer, UdpEcho(p) \/ StampReflect(p)
      PROVE  TrainInv'
  <2>1. \E n, c : toClient' = toClient \cup
                    {[kind |-> "reply", seq |-> p.seq, rseq |-> n, copy |-> c]}
    BY <1>2 DEF UdpEcho, StampReflect
  <2>2. /\ toServer' \subseteq toServer /\ arrived' = arrived \cup {p.seq}
        /\ UNCHANGED <<mode, pc, result, sent, credited, returned>>
    BY <1>2 DEF UdpEcho, StampReflect, probe
  <2>3. p.seq \in sent
    BY DEF TrainFacts, TrainInv
  <2>4. \A q \in toClient' : q.seq \in sent' /\ q.seq \in arrived'
    BY <2>1, <2>2, <2>3 DEF TrainFacts, TrainInv
  <2> QED BY <2>2, <2>4 DEF TrainFacts, TrainInv
<1> QED BY <1>1, <1>2 DEF ReflectorStep

LEMMA TrainInvStep ==
  ASSUME TrainFacts, TrainStep
  PROVE  TrainInv'
<1> USE DEF TrainFacts
<1>1. CASE TrainSetup \/ TrainSetupFails \/ TrainSent \/ WindowEnds \/ IcmpSendEchoError
  BY <1>1, ReportKind
     DEF TrainSetup, TrainSetupFails, TrainSent, WindowEnds, AfterWindow, IcmpSendEchoError,
         TrainInv, TrainKinds, network, train
<1>2. CASE TrainDone
  BY <1>2 DEF TrainDone, TrainInv, network, train
<1>3. CASE FallbackDone
  BY <1>3 DEF FallbackDone, TrainInv, network, train
<1>4. ASSUME NEW ok \in BOOLEAN, SendProbe(ok) PROVE TrainInv'
  <2>1. /\ seq \in Seqs /\ pc = "send" /\ pc' \in {"send", "wait"}
        /\ sent' \in {sent, sent \cup {seq}}
        /\ UNCHANGED <<mode, result, toClient, credited, arrived, returned>>
    BY <1>4, TrainAssumption DEF SendProbe, Seqs
  <2>2. \A q \in toServer' : q.seq \in sent'
    BY <1>4 DEF SendProbe, TrainInv
  <2> QED BY <2>1, <2>2 DEF TrainInv
<1>5. ASSUME NEW ok \in BOOLEAN, IcmpSendEcho(ok) PROVE TrainInv'
  <2>1. seq \in Seqs /\ 0 \in Nat /\ None # 0
    BY <1>5, TrainAssumption DEF IcmpSendEcho, Seqs, None
  <2>2. CASE ok
    <3>1. credited' = [credited EXCEPT ![seq] = 0] /\ returned' = returned \cup {seq}
          /\ arrived' = arrived \cup {seq}
      BY <1>5, <2>2 DEF IcmpSendEcho
    <3>2. /\ credited' \in [Seqs -> Nat \cup {None}]
          /\ Credits(credited') = Credits(credited) \cup {seq}
      BY <2>1, <3>1 DEF Credits, TrainInv
    <3> QED BY <1>5, <2>1, <3>1, <3>2 DEF IcmpSendEcho, TrainInv, probe, network
  <2>3. CASE ~ok
    BY <1>5, <2>1, <2>3 DEF IcmpSendEcho, TrainInv, probe, network
  <2> QED BY <2>2, <2>3
<1>6. ASSUME NEW ok \in BOOLEAN, TcpRttProbe(ok) PROVE TrainInv'
  BY <1>6 DEF TcpRttProbe, TrainInv, probe, network
<1>7. ASSUME NEW p \in toClient, RecvReply(p) PROVE TrainInv'
  <2>1. p.rseq \in Nat /\ p.seq \in sent /\ p.seq \in arrived
    BY DEF Reply, TrainInv
  <2>2. /\ credited' \in [Seqs -> Nat \cup {None}]
        /\ Credits(credited') = Credits(credited) \cup {p.seq}
    BY <1>7, <2>1, CreditOne DEF RecvReply, TrainInv
  <2>3. /\ pc \in {"wait", "drain"} /\ pc' \in {"wait", "drain", "send", "tally"}
        /\ toClient' \subseteq toClient /\ returned' = returned \cup {p.seq}
        /\ UNCHANGED <<mode, result, toServer, sent, arrived>>
    BY <1>7 DEF RecvReply, AfterWindow
  <2> QED BY <2>1, <2>2, <2>3 DEF TrainInv
<1> QED BY <1>1, <1>2, <1>3, <1>4, <1>5, <1>6, <1>7 DEF TrainStep

-----------------------------------------------------------------------------
\* The reflector numbers its replies apart.
LEMMA NumbersReflected ==
  ASSUME TrainFacts, NumbersInv, ReflectorStep, mode = "stamp"
  PROVE  NumbersInv'
<1>1. /\ \A p \in toClient : p.rseq \in Nat /\ p.rseq < nextSeq /\ p.seq \in arrived
      /\ \A s \in Seqs : credited[s] \in Int /\ credited[s] < nextSeq
      /\ nextSeq \in Nat /\ Credits(credited) \subseteq arrived
  BY DEF NumbersInv, TrainFacts, TrainInv, Reply, None
<1>2. CASE SweepIdleSession
  <2>1. toClient = {} /\ Credits(credited) = {} /\ nextSeq' = 0
        /\ UNCHANGED <<mode, toClient, credited>>
    BY <1>1, <1>2 DEF SweepIdleSession, probe, network
  <2>2. \A s \in Seqs : credited[s] = None
    BY <2>1 DEF Credits
  <2>3. \A s \in Seqs : credited'[s] < nextSeq'
    BY <2>1, <2>2 DEF None
  <2> QED BY <2>1, <2>3 DEF NumbersInv
<1>3. ASSUME NEW p \in toServer, StampReflect(p)
      PROVE  NumbersInv'
  <2> DEFINE r == [kind |-> "reply", seq |-> p.seq, rseq |-> nextSeq, copy |-> 0]
  <2>1. toClient' = toClient \cup {r} /\ nextSeq' = nextSeq + 1 /\ UNCHANGED <<mode, credited>>
    BY <1>3 DEF StampReflect, probe
  <2>2. r.seq = p.seq /\ r.rseq = nextSeq
    OBVIOUS
  <2> HIDE DEF r
  <2>3. \A q \in toClient' : q.rseq < nextSeq'
    BY <1>1, <2>1, <2>2
  <2>4. \A s \in Seqs : credited'[s] < nextSeq'
    BY <1>1, <2>1
  <2>5. \A q, u \in toClient' : q.rseq = u.rseq => q.seq = u.seq
    <3>1. \A q \in toClient : q.rseq # r.rseq
      BY <1>1, <2>2
    <3> QED BY <2>1, <3>1 DEF NumbersInv
  <2>6. \A q \in toClient', s \in Seqs : credited'[s] = q.rseq => s = q.seq
    <3>1. \A s \in Seqs : credited[s] # r.rseq
      BY <1>1, <2>2
    <3> QED BY <2>1, <3>1 DEF NumbersInv
  <2> QED BY <2>1, <2>3, <2>4, <2>5, <2>6 DEF NumbersInv
<1>4. \A p : ~UdpEcho(p)
  BY DEF UdpEcho
<1> QED BY <1>2, <1>3, <1>4 DEF ReflectorStep

\* The network and the receiver keep them so.
LEMMA NumbersKept ==
  ASSUME TrainFacts, NumbersInv, mode = "stamp", mode' = mode,
         TrainStep \/ (NetworkStep /\ UNCHANGED train)
  PROVE  NumbersInv'
<1>1. CASE NetworkStep /\ UNCHANGED train
  <2>1. \A q \in toClient' : \E p \in toClient : q.seq = p.seq /\ q.rseq = p.rseq
    BY <1>1, SameNumbers DEF TrainFacts
  <2>2. UNCHANGED <<mode, credited, nextSeq>>
    BY <1>1 DEF train
  <2>3. \A q \in toClient' : q.rseq < nextSeq
    BY <2>1 DEF NumbersInv
  <2>4. \A q, u \in toClient' : q.rseq = u.rseq => q.seq = u.seq
    BY <2>1 DEF NumbersInv
  <2>5. \A q \in toClient', s \in Seqs : credited[s] = q.rseq => s = q.seq
    BY <2>1 DEF NumbersInv
  <2> QED BY <2>2, <2>3, <2>4, <2>5 DEF NumbersInv
<1>2. CASE UNCHANGED <<toClient, credited, nextSeq>>
  BY <1>2 DEF NumbersInv
<1>3. ASSUME NEW p \in toClient, RecvReply(p)
      PROVE  NumbersInv'
  <2>1. /\ p.rseq \in Nat /\ p.seq \in sent /\ sent \subseteq Seqs
        /\ credited \in [Seqs -> Nat \cup {None}]
    BY DEF TrainFacts, TrainInv, Reply
  <2>2. toClient' \subseteq toClient /\ nextSeq' = nextSeq /\ credited' = Credit(credited, p)
    BY <1>3 DEF RecvReply
  <2>3. /\ Credits(credited') = Credits(credited) \cup {p.seq}
        /\ \A s \in Seqs : credited'[s] = credited[s] \/ (s = p.seq /\ credited'[s] = p.rseq)
    BY <2>1, <2>2, CreditOne
  <2>4. \A s \in Seqs : credited'[s] < nextSeq
    BY <2>3 DEF NumbersInv
  <2>5. \A q \in toClient', s \in Seqs : credited'[s] = q.rseq => s = q.seq
    BY <2>2, <2>3 DEF NumbersInv
  <2>6. ASSUME NEW s \in Credits(credited'), NEW t \in Credits(credited'),
               credited'[s] = credited'[t]
        PROVE  s = t
    <3>1. s \in Seqs /\ t \in Seqs
      BY DEF Credits
    <3>2. /\ credited'[s] = credited[s] \/ (s = p.seq /\ credited'[s] = p.rseq)
          /\ credited'[t] = credited[t] \/ (t = p.seq /\ credited'[t] = p.rseq)
      BY <2>3, <3>1
    <3>3. CASE credited'[s] = credited[s] /\ credited'[t] = credited[t]
      <4>1. s \in Credits(credited) /\ t \in Credits(credited)
        BY <3>1, <3>3 DEF Credits
      <4> QED BY <2>6, <3>3, <4>1 DEF NumbersInv
    <3> QED BY <2>6, <3>1, <3>2, <3>3 DEF NumbersInv
  <2> QED BY <2>2, <2>4, <2>5, <2>6 DEF NumbersInv
<1>4. TrainStep => UNCHANGED <<toClient, credited, nextSeq>> \/ \E p \in toClient : RecvReply(p)
  BY DEF TrainStep, TrainSetup, TrainSetupFails, TrainSent, WindowEnds, IcmpSendEchoError,
         TrainDone, FallbackDone, SendProbe, IcmpSendEcho, TcpRttProbe, probe, network, train
<1> QED BY <1>1, <1>2, <1>3, <1>4

\* A bounded set of numbers has a least and a greatest element.
LEMMA LeastNumber ==
  ASSUME NEW T \in SUBSET Nat, T # {}
  PROVE  \E x \in T : \A y \in T : x <= y
<1> DEFINE R == {p \in Nat \X Nat : p[1] < p[2]}
<1>1. IsWellFoundedOn(R, Nat)
  BY NatLessThanWellFounded DEF OpToRel
<1>2. \A x, y \in Nat : x < y => <<x, y>> \in R
  OBVIOUS
<1> HIDE DEF R
<1>3. PICK x \in T : \A y \in T : ~(<<y, x>> \in R)
  BY <1>1, WFMin
<1>4. ASSUME NEW y \in T PROVE x <= y
  <2>1. x \in Nat /\ y \in Nat /\ ~(y < x)
    BY <1>2, <1>3
  <2> QED BY <2>1
<1> QED BY <1>3, <1>4

LEMMA GreatestNumber ==
  ASSUME NEW S \in SUBSET Nat, S # {}, NEW n \in Nat, \A x \in S : x <= n
  PROVE  Max(S) \in S /\ \A y \in S : y <= Max(S)
<1> DEFINE T == {n - x : x \in S}
<1>1. T \in SUBSET Nat /\ T # {}
  <2>1. \A x \in S : n - x \in Nat
    OBVIOUS
  <2>2. T \in SUBSET Nat
    BY <2>1
  <2>3. T # {}
    OBVIOUS
  <2> QED BY <2>2, <2>3
<1>2. PICK t \in T : \A u \in T : t <= u
  BY <1>1, LeastNumber
<1>3. PICK m \in S : t = n - m
  BY <1>2
<1>4. ASSUME NEW y \in S PROVE m >= y
  <2>1. n - m <= n - y /\ m \in Nat /\ y \in Nat
    BY <1>2, <1>3
  <2> QED BY <2>1
<1>5. Max(S) \in S /\ \A y \in S : Max(S) >= y
  BY <1>3, <1>4 DEF Max
<1> QED BY <1>5

\* As many different numbers were credited as replies, so the highest tells
\* at least as many probes.
LEMMA RepliesBelowTop ==
  ASSUME TrainFacts, NumbersInv, mode = "stamp", Credits(credited) # {}
  PROVE  LET top == Max({credited[s] : s \in Credits(credited)})
             n == Cardinality(Credits(credited))
         IN  top \in Nat /\ n \in Nat /\ n <= top + 1 /\ n <= ProbeCount
<1> DEFINE C == Credits(credited)
           V == {credited[s] : s \in C}
           top == Max(V)
<1>1. /\ credited \in [Seqs -> Nat \cup {None}] /\ nextSeq \in Nat
      /\ \A s \in Seqs : credited[s] < nextSeq
      /\ \A s, t \in C : credited[s] = credited[t] => s = t
  BY DEF TrainFacts, TrainInv, NumbersInv
<1>2. C \subseteq Seqs /\ \A s \in C : credited[s] \in Nat
  BY <1>1 DEF Credits
<1>3. IsFiniteSet(Seqs) /\ Cardinality(Seqs) = ProbeCount
  <2>1. 0 \in Int /\ ProbeCount - 1 \in Int /\ ~(0 > ProbeCount - 1)
    BY TrainAssumption
  <2>2. IsFiniteSet(Seqs) /\ Cardinality(Seqs) = (ProbeCount - 1) - 0 + 1
    BY <2>1, FS_Interval DEF Seqs
  <2> QED BY <2>2, TrainAssumption
<1>4. IsFiniteSet(C) /\ Cardinality(C) \in Nat /\ Cardinality(C) <= ProbeCount
  BY <1>2, <1>3, FS_Subset, FS_CardinalityType
<1>5. V \in SUBSET Nat /\ V # {} /\ \A x \in V : x <= nextSeq
  BY <1>1, <1>2
<1>6. top \in V /\ \A y \in V : y <= top
  BY <1>1, <1>5, GreatestNumber
<1>7. top \in Nat
  BY <1>5, <1>6
<1> HIDE DEF top, C
<1> DEFINE g == [s \in C |-> credited[s]]
<1>8. g \in Injection(C, 0..top)
  <2>1. g \in [C -> 0..top]
    BY <1>2, <1>6, <1>7
  <2>2. \A s, t \in DOMAIN g : g[s] = g[t] => s = t
    BY <1>1
  <2> QED BY <2>1, <2>2 DEF Injection, IsInjective
<1>9. IsFiniteSet(0..top) /\ Cardinality(0..top) = top + 1
  <2>1. 0 \in Int /\ top \in Int /\ ~(0 > top)
    BY <1>7
  <2>2. IsFiniteSet(0..top) /\ Cardinality(0..top) = top - 0 + 1
    BY <2>1, FS_Interval
  <2> QED BY <1>7, <2>2
<1>10. Cardinality(C) <= top + 1
  BY <1>8, <1>9, FS_Injection
<1> QED BY <1>4, <1>7, <1>10 DEF top, C

\* Every lost probe lies in a maximal run of lost ones, and in one only.
LEMMA RunOfProbe ==
  ASSUME NEW n \in Nat, NEW lost \in SUBSET 0..n, NEW s \in lost
  PROVE  \E r \in LossPeriods(lost) : s \in r[1]..r[2]
<1> DEFINE A == {x \in Nat : x <= s /\ x..s \subseteq lost}
           B == {x \in Nat : s <= x /\ s..x \subseteq lost}
<1>0. s \in Nat /\ s <= n /\ \A x \in lost : x \in Nat /\ x <= n
  OBVIOUS
<1>1. s \in A /\ s \in B
  BY <1>0
<1>2. PICK a \in A : \A y \in A : a <= y
  <2>1. A \in SUBSET Nat /\ A # {}
    BY <1>1
  <2> HIDE DEF A
  <2> QED BY <2>1, LeastNumber
<1>3. PICK b \in B : \A y \in B : y <= b
  <2>1. B \in SUBSET Nat /\ B # {} /\ \A x \in B : x <= n
    <3>1. \A x \in B : x \in lost
      BY <1>0
    <3> QED BY <1>0, <1>1, <3>1
  <2> HIDE DEF B
  <2> QED BY <2>1, GreatestNumber
<1>4. a \in Nat /\ b \in Nat /\ a <= s /\ s <= b /\ a..s \subseteq lost /\ s..b \subseteq lost
  BY <1>2, <1>3
<1>5. a \in lost /\ b \in lost /\ a..b \subseteq lost
  <2>1. a \in a..s /\ b \in s..b /\ \A x \in a..b : x \in a..s \/ x \in s..b
    BY <1>0, <1>4
  <2> QED BY <1>4, <2>1
<1>6. a - 1 \notin lost
  <2> SUFFICES ASSUME a - 1 \in lost PROVE FALSE
    OBVIOUS
  <2>1. a - 1 \in Nat /\ a - 1 <= s /\ \A x \in (a - 1)..s : x = a - 1 \/ x \in a..s
    BY <1>0, <1>4
  <2>2. a - 1 \in A
    BY <1>4, <2>1
  <2> QED BY <1>2, <1>4, <2>2
<1>7. b + 1 \notin lost
  <2> SUFFICES ASSUME b + 1 \in lost PROVE FALSE
    OBVIOUS
  <2>1. b + 1 \in Nat /\ s <= b + 1 /\ \A x \in s..(b + 1) : x = b + 1 \/ x \in s..b
    BY <1>0, <1>4
  <2>2. b + 1 \in B
    BY <1>4, <2>1
  <2> QED BY <1>3, <1>4, <2>2
<1>8. <<a, b>> \in LossPeriods(lost) /\ s \in a..b
  BY <1>0, <1>4, <1>5, <1>6, <1>7 DEF LossPeriods
<1> QED BY <1>8

LEMMA Pairs ==
  ASSUME NEW S, NEW T, NEW x \in S \X T
  PROVE  x[1] \in S /\ x[2] \in T /\ x = <<x[1], x[2]>>
OBVIOUS

LEMMA OneRunOnly ==
  ASSUME NEW lost \in SUBSET Nat, NEW r \in LossPeriods(lost), NEW q \in LossPeriods(lost),
         NEW s \in Nat, s \in r[1]..r[2], s \in q[1]..q[2]
  PROVE  r = q
<1>1. /\ r[1] \in Nat /\ r[2] \in Nat /\ q[1] \in Nat /\ q[2] \in Nat
      /\ r = <<r[1], r[2]>> /\ q = <<q[1], q[2]>>
      /\ r[1]..r[2] \subseteq lost /\ r[1] - 1 \notin lost /\ r[2] + 1 \notin lost
      /\ q[1]..q[2] \subseteq lost /\ q[1] - 1 \notin lost /\ q[2] + 1 \notin lost
  <2>1. \A x \in LossPeriods(lost) :
          /\ x \in lost \X lost
          /\ x[1]..x[2] \subseteq lost /\ x[1] - 1 \notin lost /\ x[2] + 1 \notin lost
    BY Zenon DEF LossPeriods
  <2>2. ASSUME NEW x \in lost \X lost PROVE x[1] \in Nat /\ x[2] \in Nat /\ x = <<x[1], x[2]>>
    BY Pairs
  <2> QED BY <2>1, <2>2
<1>2. r[1] = q[1]
  <2>1. r[1] < q[1] => q[1] - 1 \in r[1]..r[2]
    BY <1>1
  <2>2. q[1] < r[1] => r[1] - 1 \in q[1]..q[2]
    BY <1>1
  <2> QED BY <1>1, <2>1, <2>2
<1>3. r[2] = q[2]
  <2>1. r[2] < q[2] => r[2] + 1 \in q[1]..q[2]
    BY <1>1
  <2>2. q[2] < r[2] => q[2] + 1 \in r[1]..r[2]
    BY <1>1
  <2> QED BY <1>1, <2>1, <2>2
<1> QED BY <1>1, <1>2, <1>3

\* The runs of a train: their lengths add up to the lost probes, each but the
\* last is followed by an answered probe, and there is none without a loss.
LEMMA RunsAddUp ==
  ASSUME NEW c \in [Seqs -> Nat \cup {None}]
  PROVE  LET lost == {s \in Seqs : c[s] = None}
             runs == LossPeriods(lost)
         IN  /\ Cardinality(Credits(c)) \in Nat
             /\ Cardinality({p \in runs \X lost : p[2] \in p[1][1]..p[1][2]})
                  = ProbeCount - Cardinality(Credits(c))
             /\ Cardinality(runs) \in Nat /\ Cardinality(runs) <= Cardinality(Credits(c)) + 1
             /\ runs = {} <=> ProbeCount - Cardinality(Credits(c)) = 0
<1> DEFINE lost == {s \in Seqs : c[s] = None}
           runs == LossPeriods(lost)
           pairs == {p \in runs \X lost : p[2] \in p[1][1]..p[1][2]}
           answered == Credits(c)
<1>1. IsFiniteSet(Seqs) /\ Cardinality(Seqs) = ProbeCount /\ ProbeCount \in Nat
  <2>1. 0 \in Int /\ ProbeCount - 1 \in Int /\ ~(0 > ProbeCount - 1)
    BY TrainAssumption
  <2>2. IsFiniteSet(Seqs) /\ Cardinality(Seqs) = (ProbeCount - 1) - 0 + 1
    BY <2>1, FS_Interval DEF Seqs
  <2> QED BY <2>2, TrainAssumption
<1>2. lost \subseteq Seqs /\ answered = Seqs \ lost /\ answered \subseteq Seqs
  BY DEF Credits
<1>3. IsFiniteSet(lost) /\ IsFiniteSet(answered) /\ Cardinality(lost) \in Nat /\ Cardinality(answered) \in Nat
  BY <1>1, <1>2, FS_Subset, FS_CardinalityType
<1>4. Cardinality(lost) = ProbeCount - Cardinality(answered)
  <2>1. Seqs \cap lost = lost
    BY <1>2
  <2>2. Cardinality(Seqs \ lost) = Cardinality(Seqs) - Cardinality(Seqs \cap lost)
    BY <1>1, FS_Difference
  <2>3. Cardinality(answered) = ProbeCount - Cardinality(lost)
    BY <1>1, <1>2, <2>1, <2>2, Zenon
  <2> HIDE DEF lost, answered
  <2> QED BY <1>1, <1>3, <2>3
<1>5. lost \in SUBSET 0..ProbeCount /\ lost \in SUBSET Nat
  BY <1>1, <1>2 DEF Seqs
<1>6. \A r \in runs : r[1] \in lost /\ r[2] \in lost /\ r[1] <= r[2] /\ r[2] + 1 \notin lost
  BY DEF LossPeriods
<1> HIDE DEF lost, runs, answered
<1>7. Cardinality(pairs) = Cardinality(lost)
  <2> DEFINE f == [p \in pairs |-> p[2]]
  <2>1. f \in [pairs -> lost]
    OBVIOUS
  <2>2. ASSUME NEW p \in pairs, NEW q \in pairs, f[p] = f[q] PROVE p = q
    <3>1. p = <<p[1], p[2]>> /\ q = <<q[1], q[2]>> /\ p[2] = q[2] /\ p[1] \in runs /\ q[1] \in runs
          /\ p[2] \in p[1][1]..p[1][2] /\ p[2] \in q[1][1]..q[1][2] /\ p[2] \in Nat
      BY <1>5, <2>2
    <3>2. p[1] = q[1]
      BY <1>5, <3>1, OneRunOnly DEF runs
    <3> QED BY <3>1, <3>2
  <2>3. f \in Injection(pairs, lost)
    BY <2>1, <2>2 DEF Injection, IsInjective
  <2>4. ASSUME NEW s \in lost PROVE \E p \in pairs : f[p] = s
    <3>1. PICK r \in runs : s \in r[1]..r[2]
      BY <1>1, <1>5, RunOfProbe DEF runs
    <3>2. <<r, s>> \in pairs /\ f[<<r, s>>] = s
      BY <3>1
    <3> QED BY <3>2
  <2>5. f \in Surjection(pairs, lost)
    BY <2>1, <2>4 DEF Surjection
  <2> HIDE DEF f, pairs
  <2> QED BY <1>3, <2>3, <2>5, FS_Injection
<1>8. Cardinality(runs) \in Nat /\ Cardinality(runs) <= Cardinality(answered) + 1
  <2> DEFINE ends == answered \cup {ProbeCount}
             g == [r \in runs |-> r[2] + 1]
  <2>1. ASSUME NEW r \in runs PROVE r[2] + 1 \in ends
    <3>1. r[2] \in Seqs /\ r[2] + 1 \notin lost
      BY <1>2, <1>6
    <3>2. r[2] + 1 \in Seqs \/ r[2] + 1 = ProbeCount
      BY <1>1, <3>1 DEF Seqs
    <3> QED BY <1>2, <3>1, <3>2
  <2>2. ASSUME NEW r \in runs, NEW q \in runs, g[r] = g[q] PROVE r = q
    <3>1. r[1] \in Nat /\ q[1] \in Nat /\ r[2] \in Nat /\ q[2] \in Nat /\ r[1] <= r[2] /\ q[1] <= q[2]
      BY <1>5, <1>6
    <3>2. r[2] = q[2]
      BY <2>2, <3>1
    <3>3. r[2] \in r[1]..r[2] /\ r[2] \in q[1]..q[2]
      BY <3>1, <3>2
    <3> QED BY <1>5, <3>1, <3>3, OneRunOnly DEF runs
  <2>3. g \in Injection(runs, ends)
    BY <2>1, <2>2 DEF Injection, IsInjective
  <2>4. IsFiniteSet(ends) /\ Cardinality(ends) <= Cardinality(answered) + 1
    <3>1. IsFiniteSet(answered \cup {ProbeCount})
          /\ Cardinality(answered \cup {ProbeCount}) =
               IF ProbeCount \in answered THEN Cardinality(answered) ELSE Cardinality(answered) + 1
      BY <1>3, FS_AddElement, Zenon
    <3> QED BY <1>3, <3>1
  <2> HIDE DEF ends, g
  <2>5. IsFiniteSet(runs) /\ Cardinality(runs) <= Cardinality(ends)
    BY <2>3, <2>4, FS_Injection
  <2> QED BY <1>3, <2>4, <2>5, FS_CardinalityType
<1>9. runs = {} <=> lost = {}
  <2>1. lost # {} => runs # {}
    BY <1>1, <1>5, RunOfProbe DEF runs
  <2>2. runs # {} => lost # {}
    BY <1>6
  <2> QED BY <2>1, <2>2
<1>10. lost = {} <=> Cardinality(lost) = 0
  BY <1>3, FS_EmptySet
<1> QED BY <1>3, <1>4, <1>7, <1>8, <1>9, <1>10 DEF lost, runs, answered

\* The two loss computations of a UDP train agree.
LEMMA UdpReported ==
  ASSUME credited \in [Seqs -> Nat \cup {None}], result' = UdpResult
  PROVE  UdpReconciles'
<1> DEFINE lost == {s \in Seqs : credited[s] = None}
           runs == LossPeriods(lost)
           pattern == compute_loss_pattern(credited)
           n == Cardinality(Credits(credited))
<1>1. /\ result'.success = (Credits(credited) # {}) /\ result'.success_count = n
      /\ result'.lost = ProbeCount - n /\ result'.loss_pattern = pattern
      /\ result'.error = IF Credits(credited) = {} THEN "udp" ELSE "none"
  BY DEF UdpResult, aggregate_lost
<1>2. /\ n \in Nat
      /\ Cardinality({p \in runs \X lost : p[2] \in p[1][1]..p[1][2]}) = ProbeCount - n
      /\ Cardinality(runs) <= n + 1
      /\ runs = {} <=> ProbeCount - n = 0
  BY RunsAddUp
<1>3. ASSUME pattern # NoPattern
      PROVE  /\ pattern.lost_count = ProbeCount - n /\ pattern.loss_burst_count <= n + 1
             /\ pattern.classification = "no-loss" <=> ProbeCount - n = 0
  <2>1. ~(ProbeCount < MIN_LOSS_PATTERN_PROBES)
    BY <1>3 DEF compute_loss_pattern
  <2>2. /\ pattern.lost_count = Cardinality({p \in runs \X lost : p[2] \in p[1][1]..p[1][2]})
        /\ pattern.loss_burst_count = Cardinality(runs)
        /\ pattern.classification = "no-loss" <=> runs = {}
    <3> DEFINE longest == Max({r[2] - r[1] + 1 : r \in runs} \cup {0})
    <3>1. pattern =
            [lost_count |-> Cardinality({p \in runs \X lost : p[2] \in p[1][1]..p[1][2]}),
             loss_burst_count |-> Cardinality(runs), loss_max_burst |-> longest,
             classification |->
               CASE runs = {} -> "no-loss"
                 [] longest >= 3 -> "bursty"
                 [] longest = 2 /\ Cardinality(runs) = 1 -> "single-burst"
                 [] OTHER -> "random-like"]
      BY <2>1 DEF compute_loss_pattern
    <3>2. runs = {} => longest = 0
      <4>1. Max({0}) \in {0}
        BY GreatestNumber
      <4>2. runs = {} => {r[2] - r[1] + 1 : r \in runs} \cup {0} = {0}
        OBVIOUS
      <4> QED BY <4>1, <4>2
    <3> HIDE DEF runs, lost, pattern, longest
    <3>3. /\ pattern.lost_count = Cardinality({p \in runs \X lost : p[2] \in p[1][1]..p[1][2]})
          /\ pattern.loss_burst_count = Cardinality(runs)
      BY <3>1
    <3>4. runs = {} => pattern.classification = "no-loss"
      BY <3>1, <3>2
    <3>5. runs # {} => pattern.classification # "no-loss"
      BY <3>1
    <3> QED BY <3>3, <3>4, <3>5
  <2> HIDE DEF runs, lost, pattern, n
  <2> QED BY <1>2, <2>2
<1>4. ProbeCount - n + n = ProbeCount
  BY <1>2, TrainAssumption
<1> HIDE DEF pattern, n
<1> QED BY <1>1, <1>3, <1>4 DEF UdpReconciles

\* What a train reports when it ends.
LEMMA TotalsReported ==
  ASSUME TrainFacts, NumbersInv, TotalsInv, TrainDone \/ FallbackDone
  PROVE  TrainReconciles'
<1>1. /\ Cardinality(Credits(credited)) \in Nat
      /\ Credits(credited) = {} <=> Cardinality(Credits(credited)) = 0
  <2>1. IsFiniteSet(Seqs) /\ Credits(credited) \subseteq Seqs
    <3>1. 0 \in Int /\ ProbeCount - 1 \in Int
      BY TrainAssumption
    <3> QED BY <3>1, FS_Interval DEF Seqs, Credits
  <2> QED BY <2>1, FS_Subset, FS_CardinalityType, FS_EmptySet
<1>2. UNCHANGED <<returned, credited>> /\ Credits(credited) = returned /\ ProbeCount \in Nat
  BY TrainAssumption DEF TrainDone, FallbackDone, train, TrainFacts, TrainInv
<1>3. CASE UNCHANGED result
  BY <1>2, <1>3 DEF TotalsInv, TrainFacts, TrainReconciles, UdpReconciles, StampReconciles,
                    PingReconciles
<1>4. CASE result' = PingResult
  <2>1. /\ result'.kind = "ping" /\ result'.success = (Credits(credited) # {})
        /\ result'.success_count = Cardinality(Credits(credited)) /\ ~result'.fallback
        /\ result'.lost = ProbeCount - Cardinality(Credits(credited))
    BY <1>4 DEF PingResult, aggregate_lost
  <2>2. result'.lost + result'.success_count = ProbeCount
    BY <1>1, <1>2, <2>1
  <2>3. result'.success <=> result'.success_count > 0
    <3>1. Credits(credited) # {} <=> Cardinality(Credits(credited)) > 0
      BY <1>1
    <3> QED BY <2>1, <3>1
  <2> QED BY <2>1, <2>2, <2>3 DEF TrainReconciles, UdpReconciles, StampReconciles, PingReconciles
<1>5. CASE result' = UdpResult
  BY <1>5, UdpReported, ReportKind DEF TrainFacts, TrainInv, TrainReconciles, StampReconciles, PingReconciles
<1>6. CASE mode = "stamp" /\ result' = StampResult
  <2>1. CASE Credits(credited) = {}
    BY <1>6, <2>1 DEF StampResult, Failed, TrainReconciles, UdpReconciles,
         StampReconciles, PingReconciles
  <2>2. CASE Credits(credited) # {}
    <3> DEFINE top == Max({credited[s] : s \in Credits(credited)})
               n == Cardinality(Credits(credited))
               k == Min({top + 1, ProbeCount})
    <3>1. top \in Nat /\ n \in Nat /\ n <= top + 1 /\ n <= ProbeCount
      BY <1>6, <2>2, RepliesBelowTop
    <3>2. /\ result'.kind = "stamp" /\ result'.replies = n
          /\ result'.loss = directional_loss(top, n)
      BY <1>6, <2>2 DEF StampResult
    <3> HIDE DEF top, n
    <3>3. k \in {top + 1, ProbeCount}
      <4>1. top + 1 \in Int /\ ProbeCount \in Int
        BY <1>2, <3>1
      <4> QED BY <4>1, LeastOfTwo
    <3>4. /\ result'.loss.fwd_lost = ProbeCount - k
          /\ result'.loss.rev_lost = IF k > n THEN k - n ELSE 0
      BY <3>2 DEF directional_loss
    <3> HIDE DEF k
    <3>5. (ProbeCount - k) + (IF k > n THEN k - n ELSE 0) + n = ProbeCount
      BY <1>2, <3>1, <3>3
    <3> QED BY <3>2, <3>4, <3>5 DEF TrainReconciles, UdpReconciles, StampReconciles, PingReconciles
  <2> QED BY <2>1, <2>2
<1>7. CASE FallbackDone
  <2> DEFINE ok == Cardinality({i \in 1..Len(tcp) : tcp[i]})
  <2>1. returned = {} /\ Len(tcp) = ProbeCount
    BY <1>7 DEF FallbackDone, TrainFacts, TrainInv
  <2>2. ok \in Nat
    <3>1. IsFiniteSet(1..Len(tcp))
      BY <1>2, <2>1, FS_Interval
    <3> QED BY <3>1, FS_Subset, FS_CardinalityType
  <2>3. CASE ok > 0
    <3>1. result' = [kind |-> "ping", success |-> TRUE, success_count |-> ok,
                     lost |-> ProbeCount - ok, fallback |-> TRUE]
      BY <1>7, <2>3 DEF FallbackDone
    <3>2. /\ result'.kind = "ping" /\ result'.success = TRUE /\ result'.success_count = ok
          /\ result'.lost = ProbeCount - ok
      BY <3>1
    <3> HIDE DEF ok
    <3>3. result'.lost + result'.success_count = ProbeCount
      BY <1>2, <2>2, <3>2
    <3> QED BY <1>2, <2>1, <2>3, <3>2, <3>3 DEF TrainReconciles, UdpReconciles, StampReconciles, PingReconciles
  <2>4. CASE ~(ok > 0)
    BY <1>4, <1>7, <2>4 DEF FallbackDone
  <2> QED BY <2>3, <2>4
<1>8. CASE TrainDone
  BY <1>3, <1>4, <1>5, <1>6, <1>8 DEF TrainDone
<1> QED BY <1>7, <1>8

\* Before it ends there is nothing to reconcile, and after it nothing changes.
LEMMA TotalsNext ==
  ASSUME TrainFacts, NumbersInv, TotalsInv, mode' = mode,
         TrainStep \/ ReflectorStep \/ (NetworkStep /\ UNCHANGED train)
  PROVE  TotalsInv'
<1>1. CASE UNCHANGED <<result, returned>>
  BY <1>1 DEF TotalsInv, TrainReconciles, UdpReconciles, StampReconciles, PingReconciles
<1>2. CASE pc # "done" /\ (UNCHANGED result \/ result'.kind = "failed")
  BY <1>2 DEF TotalsInv, TrainFacts, TrainInv, TrainKinds, TrainReconciles, UdpReconciles,
              StampReconciles, PingReconciles
<1>3. ReflectorStep \/ (NetworkStep /\ UNCHANGED train) => UNCHANGED <<result, returned>>
  BY DEF ReflectorStep, SweepIdleSession, UdpEcho, StampReflect, probe, NetworkStep, Lose,
         Duplicate, train
<1>4. TrainStep => \/ TrainDone \/ FallbackDone
                   \/ pc # "done" /\ (UNCHANGED result \/ result'.kind = "failed")
  BY ReportKind DEF TrainStep, TrainSetup, TrainSetupFails, TrainSent, WindowEnds,
       IcmpSendEchoError, SendProbe, IcmpSendEcho, TcpRttProbe, RecvReply, probe
<1>5. CASE TrainDone \/ FallbackDone
  BY <1>5, TotalsReported DEF TotalsInv
<1> QED BY <1>1, <1>2, <1>3, <1>4, <1>5

CreditInv == TrainInv /\ NumbersInv /\ TotalsInv

LEMMA CreditNext == FamilyInv /\ CreditInv /\ [Next]_vars => CreditInv'
<1> SUFFICES ASSUME FamilyInv, CreditInv, [Next]_vars PROVE CreditInv'
  OBVIOUS
<1>1. mode' = mode
  BY FamilyNext
<1>2. CASE mode \notin TrainModes
  BY <1>1, <1>2 DEF CreditInv, TrainInv, NumbersInv, TotalsInv, TrainModes
<1>3. CASE UNCHANGED vars
  BY <1>3 DEF vars, packet, network, train, CreditInv, TrainInv, NumbersInv, TotalsInv,
              TrainReconciles, UdpReconciles, StampReconciles, PingReconciles
<1>4. CASE mode \in TrainModes /\ FamilyStep
  <2>1. TrainFacts
    BY <1>4 DEF TrainFacts, FamilyInv, CreditInv
  <2>2. TrainStep \/ ReflectorStep \/ (NetworkStep /\ UNCHANGED train)
    BY <1>4, FamiliesApart DEF FamilyStep
  <2>3. TrainInv'
    BY <2>1, <2>2, TrainInvStep, TrainInvReflector, TrainInvNetwork
  <2>4. NumbersInv'
    <3>1. CASE mode = "stamp"
      BY <1>1, <2>1, <2>2, <3>1, NumbersReflected, NumbersKept DEF CreditInv
    <3>2. CASE mode # "stamp"
      BY <1>1, <3>2 DEF NumbersInv
    <3> QED BY <3>1, <3>2
  <2>5. TotalsInv'
    BY <1>1, <2>1, <2>2, TotalsNext DEF CreditInv
  <2> QED BY <2>3, <2>4, <2>5 DEF CreditInv
<1> QED BY <1>2, <1>3, <1>4, FamilySteps

(* The probes a train counts as answered are those of which a reply was      *)
(* read, and each of them reached the endpoint (recv_replies, recv_until);   *)
(* and the figures of a finished train agree: the loss periods of a UDP      *)
(* train add up to its losses (compute_loss_pattern, aggregate_udp_rtts),    *)
(* the losses of a STAMP train out and back and its replies to the probes    *)
(* sent, even when the reflector's numbers go on from an earlier session,    *)
(* and a ping's losses agree with where they came from.  For trains of any   *)
(* length and any loss, repetition and reordering.                           *)
THEOREM TrainsAreHonest == Spec => []TrainHonest
<1>1. FamilyInv /\ KindInv /\ CreditInv => TrainHonest
  <2> SUFFICES ASSUME FamilyInv, KindInv, CreditInv PROVE CreditsExact /\ TrainReconciles
    BY DEF TrainHonest
  <2>1. CASE mode \in TrainModes
    BY <2>1 DEF CreditInv, TrainInv, TotalsInv, CreditsExact
  <2>2. CASE mode \notin TrainModes
    BY <2>2 DEF KindInv, ReportKinds, TransferModes, PathModes, CreditsExact, TrainReconciles,
                UdpReconciles, StampReconciles, PingReconciles
  <2> QED BY <2>1, <2>2
<1> QED BY <1>1, FamilyInit, FamilyNext, KindInit, KindNext, CreditInit, CreditNext, PTL
       DEF Spec, CreditInv

-----------------------------------------------------------------------------
(***************************************************************************)
(* What a request-response prober says happened.                           *)
(*                                                                         *)
(* The stages of a prober are annotated with levels, what is known of the  *)
(* phases held and the stages completed before each of them: StageInv says *)
(* that the stages still to come lead from the level reached to one at     *)
(* which the attempt can be built.                                         *)
(***************************************************************************)
BlamesOf(f) == {f[c] : c \in DOMAIN f}

FailMaps ==
  {<<>>, [bad |-> "config"], [bad |-> "tls"], [unknown |-> "dns"], [refused |-> "tcp"],
   [refused |-> "http"], [refused |-> "tcp", garbled |-> "tcp"],
   [refused |-> "http", garbled |-> "http"], [refused |-> "http", bad |-> "config"],
   [crypto |-> "tls", refused |-> "tls"], [bad |-> "http", refused |-> "http", garbled |-> "http"],
   classify_request_error, classify_quic_connection_error, error_category_for_exit}
Names ==
  {"host", "literal", "dns", "tcp", "tunnel", "tls config", "tls", "handshake", "response", "body",
   "endpoint", "quic", "h3", "request", "send body", "resumption", "sni", "read", "forget", "resumed",
   "scheme", "spawn", "upgrade", "echo"}
Phases == {"dns", "tcp", "tls", "http", "upgrade", "echo"}
Limits == {"deadline", "ignored", "none", "local"}
StageSet ==
  [at : Names, gives : SUBSET Phases, limit : Limits, fails : FailMaps, ok : BOOLEAN,
   soft : SUBSET Causes, leg : {"none", "v4", "v6"}]

\* The connection of a request stands, and its TLS session where it has one.
Stands(m, t, C) ==
  "tcp" \in C /\ (TlsStages(t) # <<>> /\ m \notin {"download1", "upload1"} => "tls" \in C)

\* The phases held, but for echoes, were reached by the stages completed.
Reached(m, G, C) ==
  /\ "tcp" \in G => {"tcp", "body"} \cap C # {}
  /\ "tls" \in G => {"tls", "quic", "body"} \cap C # {}
  /\ m \notin Quic \cup {"tlsresume"} /\ G \cap {"tls", "http", "upgrade"} # {} => "tcp" \in G

Bare(G) == G \cap {"tcp", "tls", "http", "upgrade"} = {}

Levels ==
  {"start", "address", "connected", "secured", "forgotten", "quic", "curled", "upgraded", "complete"}

\* What is known at level L of the phases held and the stages completed.
Level(m, t, L, G, C) ==
  /\ Reached(m, G, C)
  /\ L = "start" => Bare(G) /\ "dns" \notin C /\ "body" \notin C
  /\ L = "address" => Bare(G) /\ "body" \notin C
  /\ L = "connected" => "tcp" \in G /\ "tcp" \in C /\ "body" \notin C
  /\ L = "secured" => "tcp" \in G /\ Stands(m, t, C) /\ "body" \notin C
  /\ L = "forgotten" => m = "tlsresume" /\ Stands(m, t, C) /\ "body" \notin C
  /\ L = "quic" => m \in Quic
  /\ L = "curled" => m = "curl" /\ "tcp" \in G
  /\ L = "upgraded" => m = "websocket" /\ {"tcp", "upgrade"} \subseteq G /\ Stands(m, t, C)
  /\ L = "complete" => "tcp" \in G /\ Stands(m, t, C)

\* The category a failure is given names a layer in use.
Blamed(m, t, e, C) ==
  /\ e = "dns" => "dns" \notin C
  /\ e = "tcp" => "body" \notin C
  /\ e = "http" /\ m \notin Quic \cup {"curl", "dualstack"} => Stands(m, t, C)

\* The phases held after stage s, but for echoes.
HeldAfter(s, G) ==
  IF s.at = "forget" THEN G \ {"tcp"} ELSE G \cup (s.gives \ {"echo"})

\* Stage s leads from level L to level K, and blames fairly if it fails.
Moves(m, t, s, L, K) ==
  /\ s \in StageSet /\ s.leg = "none"
  /\ s.at = "echo" <=> "echo" \in s.gives
  /\ s.at = "echo" => L = "upgraded" /\ K = "upgraded"
  /\ s.at = "forget" => s.soft = {} /\ s.limit = "local"
  /\ \A G, C : Level(m, t, L, G, C) =>
       /\ \A e \in BlamesOf(s.fails) : Blamed(m, t, e, C)
       /\ Level(m, t, K, HeldAfter(s, G), C \cup {s.at})

\* The stages X lead from level L to level K.
Path(m, t, X, L, K) ==
  /\ X \in Seq(StageSet)
  /\ \E l \in [1..(Len(X) + 1) -> Levels] :
       /\ l[1] = L /\ l[Len(X) + 1] = K
       /\ \A i \in 1..Len(X) : Moves(m, t, X[i], l[i], l[i + 1])

\* At level L the attempt of a prober that ran all its stages can be built.
Final(m, t, L) ==
  \A G, C : Level(m, t, L, G, C) =>
    /\ m \notin Quic /\ G \cap {"tls", "http", "upgrade"} # {} => "tcp" \in G
    /\ m \notin Quic \cup {"curl", "dns", "tcp", "tls", "tlsresume"} => Stands(m, t, C)

StageInv ==
  mode \in StreamModes \ {"dualstack"} =>
    /\ "echo" \in have => "upgrade" \in have /\ "echo" \in completed
    /\ \E L, K \in Levels :
         /\ Level(mode, tgt, L, have \ {"echo"}, completed)
         /\ Path(mode, tgt, todo, L, K) /\ Final(mode, tgt, K)

\* The stages of the pair itself come before those of its legs, the resolution
\* last.
LegInv ==
  mode = "dualstack" =>
    /\ todo \in Seq(StageSet)
    /\ \A i \in DOMAIN todo : todo[i].leg = "none" =>
         /\ BlamesOf(todo[i].fails) \subseteq {"config", "dns"}
         /\ "dns" \in BlamesOf(todo[i].fails) => "dns" \notin completed
         /\ \A j \in DOMAIN todo : j < i =>
              /\ todo[j].leg = "none"
              /\ "dns" \in BlamesOf(todo[i].fails) => todo[j].at # "dns"

\* A wait is for a stage to come.
WaitInv == silent => todo # <<>> /\ mode \in StreamModes

EvidenceInv == EvidenceHonest /\ StageInv /\ LegInv /\ WaitInv

LEMMA PathConcat ==
  ASSUME NEW m, NEW t, NEW X, NEW Y, NEW L, NEW J, NEW K, Path(m, t, X, L, J), Path(m, t, Y, J, K)
  PROVE  Path(m, t, X \o Y, L, K)
<1>1. PICK l \in [1..(Len(X) + 1) -> Levels] :
        /\ l[1] = L /\ l[Len(X) + 1] = J
        /\ \A i \in 1..Len(X) : Moves(m, t, X[i], l[i], l[i + 1])
  BY DEF Path
<1>2. PICK k \in [1..(Len(Y) + 1) -> Levels] :
        /\ k[1] = J /\ k[Len(Y) + 1] = K
        /\ \A i \in 1..Len(Y) : Moves(m, t, Y[i], k[i], k[i + 1])
  BY DEF Path
<1>3. /\ X \in Seq(StageSet) /\ Y \in Seq(StageSet) /\ X \o Y \in Seq(StageSet)
      /\ Len(X) \in Nat /\ Len(Y) \in Nat /\ Len(X \o Y) = Len(X) + Len(Y)
      /\ \A i \in 1..(Len(X) + Len(Y)) : (X \o Y)[i] = IF i <= Len(X) THEN X[i] ELSE Y[i - Len(X)]
  BY ConcatProperties DEF Path
<1> DEFINE j == [i \in 1..(Len(X \o Y) + 1) |-> IF i <= Len(X) THEN l[i] ELSE k[i - Len(X)]]
<1>4. j \in [1..(Len(X \o Y) + 1) -> Levels]
  BY <1>1, <1>2, <1>3
<1>5. j[1] = L /\ j[Len(X \o Y) + 1] = K
  BY <1>1, <1>2, <1>3
<1>6. ASSUME NEW i \in 1..Len(X \o Y) PROVE Moves(m, t, (X \o Y)[i], j[i], j[i + 1])
  <2>1. CASE i < Len(X)
    <3>1. (X \o Y)[i] = X[i] /\ j[i] = l[i] /\ j[i + 1] = l[i + 1] /\ i \in 1..Len(X)
      BY <1>3, <2>1
    <3> QED BY <1>1, <3>1
  <2>2. CASE i = Len(X)
    <3>1. (X \o Y)[i] = X[i] /\ j[i] = l[i] /\ j[i + 1] = k[1] /\ i \in 1..Len(X)
      BY <1>3, <2>2
    <3>2. k[1] = l[i + 1]
      BY <1>1, <1>2, <2>2
    <3> QED BY <1>1, <3>1, <3>2
  <2>3. CASE i > Len(X)
    <3>1. /\ (X \o Y)[i] = Y[i - Len(X)] /\ j[i] = k[i - Len(X)] /\ j[i + 1] = k[i - Len(X) + 1]
          /\ i - Len(X) \in 1..Len(Y)
      BY <1>3, <2>3, SMTT(30)
    <3> QED BY <1>2, <3>1
  <2> QED BY <1>3, <2>1, <2>2, <2>3
<1> QED BY <1>3, <1>4, <1>5, <1>6 DEF Path

LEMMA PathTail ==
  ASSUME NEW m, NEW t, NEW X, NEW L, NEW K, Path(m, t, X, L, K), X # <<>>
  PROVE  \E J \in Levels : Moves(m, t, Head(X), L, J) /\ Path(m, t, Tail(X), J, K)
<1>1. PICK l \in [1..(Len(X) + 1) -> Levels] :
        /\ l[1] = L /\ l[Len(X) + 1] = K
        /\ \A i \in 1..Len(X) : Moves(m, t, X[i], l[i], l[i + 1])
  BY DEF Path
<1>2. /\ X \in Seq(StageSet) /\ Tail(X) \in Seq(StageSet) /\ Len(X) \in Nat /\ Len(X) > 0
      /\ Len(Tail(X)) = Len(X) - 1 /\ Head(X) = X[1] /\ \A i \in 1..Len(Tail(X)) : Tail(X)[i] = X[i + 1]
  BY HeadTailProperties, EmptySeq DEF Path
<1> DEFINE j == [i \in 1..(Len(Tail(X)) + 1) |-> l[i + 1]]
<1>3. j \in [1..(Len(Tail(X)) + 1) -> Levels] /\ j[1] = l[2] /\ j[Len(Tail(X)) + 1] = K /\ l[2] \in Levels
  BY <1>1, <1>2
<1>4. ASSUME NEW i \in 1..Len(Tail(X)) PROVE Moves(m, t, Tail(X)[i], j[i], j[i + 1])
  <2>1. Tail(X)[i] = X[i + 1] /\ j[i] = l[i + 1] /\ j[i + 1] = l[i + 1 + 1] /\ i + 1 \in 1..Len(X)
    BY <1>2
  <2> QED BY <1>1, <2>1
<1>5. Moves(m, t, Head(X), L, l[2])
  BY <1>1, <1>2
<1>6. Path(m, t, Tail(X), l[2], K)
  BY <1>2, <1>3, <1>4 DEF Path
<1> QED BY <1>3, <1>5, <1>6

LEMMA Juxtaposed ==
  ASSUME NEW a, NEW b
  PROVE  <<a>> \o <<b>> = <<a, b>> /\ Tail(<<a>> \o <<b>>) = <<b>>
<1>1. <<a>> \in Seq({a, b}) /\ <<b>> \in Seq({a, b}) /\ <<a, b>> \in Seq({a, b})
      /\ Len(<<a>>) = 1 /\ Len(<<b>>) = 1 /\ Len(<<a, b>>) = 2
  OBVIOUS
<1>2. /\ <<a>> \o <<b>> \in Seq({a, b}) /\ Len(<<a>> \o <<b>>) = 2
      /\ \A i \in 1..2 : (<<a>> \o <<b>>)[i] = IF i <= 1 THEN <<a>>[i] ELSE <<b>>[i - 1]
  BY <1>1, ConcatProperties
<1>3. (<<a>> \o <<b>>)[1] = a /\ (<<a>> \o <<b>>)[2] = b
  BY <1>2
<1>4. <<a>> \o <<b>> = <<a, b>>
  <2>1. \A i \in 1..2 : (<<a>> \o <<b>>)[i] = <<a, b>>[i]
    <3> SUFFICES ASSUME NEW i \in 1..2 PROVE (<<a>> \o <<b>>)[i] = <<a, b>>[i]
      OBVIOUS
    <3>1. i = 1 \/ i = 2
      OBVIOUS
    <3>2. <<a, b>>[1] = a /\ <<a, b>>[2] = b
      OBVIOUS
    <3> QED BY <1>3, <3>1, <3>2
  <2> QED BY <1>1, <1>2, <2>1, SeqEqual
<1>5. Tail(<<a, b>>) = <<b>>
  OBVIOUS
<1> QED BY <1>4, <1>5

LEMMA PathNil == ASSUME NEW m, NEW t, NEW L \in Levels PROVE Path(m, t, <<>>, L, L)
<1> DEFINE l == [i \in 1..(Len(<<>>) + 1) |-> L]
<1>1. <<>> \in Seq(StageSet) /\ Len(<<>>) = 0
  OBVIOUS
<1>2. l \in [1..(Len(<<>>) + 1) -> Levels] /\ l[1] = L /\ l[Len(<<>>) + 1] = L
  BY <1>1
<1>3. \A i \in 1..Len(<<>>) : Moves(m, t, <<>>[i], l[i], l[i + 1])
  BY <1>1
<1> QED BY <1>1, <1>2, <1>3, Zenon DEF Path

LEMMA PathOne ==
  ASSUME NEW m, NEW t, NEW s, NEW L \in Levels, NEW K \in Levels, Moves(m, t, s, L, K)
  PROVE  Path(m, t, <<s>>, L, K)
<1> DEFINE l == <<L, K>>
<1>1. <<s>> \in Seq(StageSet) /\ Len(<<s>>) = 1 /\ <<s>>[1] = s
  BY DEF Moves
<1>2. l \in [1..2 -> Levels] /\ l[1] = L /\ l[2] = K
  OBVIOUS
<1> QED BY <1>1, <1>2 DEF Path

LEMMA PathTwo ==
  ASSUME NEW m, NEW t, NEW r, NEW s,
         NEW L \in Levels, NEW J \in Levels, NEW K \in Levels,
         Moves(m, t, r, L, J), Moves(m, t, s, J, K)
  PROVE  Path(m, t, <<r, s>>, L, K)
<1>1. Path(m, t, <<r>>, L, J) /\ Path(m, t, <<s>>, J, K)
  BY PathOne
<1>2. Path(m, t, <<r>> \o <<s>>, L, K)
  BY <1>1, PathConcat
<1> QED BY <1>2, Juxtaposed

LEMMA PathThree ==
  ASSUME NEW m, NEW t, NEW a, NEW b, NEW c,
         NEW L \in Levels, NEW I \in Levels, NEW J \in Levels, NEW K \in Levels,
         Moves(m, t, a, L, I), Moves(m, t, b, I, J), Moves(m, t, c, J, K)
  PROVE  Path(m, t, <<a, b, c>>, L, K)
<1> DEFINE X == <<a, b, c>>
           l == <<L, I, J, K>>
<1>1. X \in Seq(StageSet) /\ Len(X) = 3 /\ X[1] = a /\ X[2] = b /\ X[3] = c
  BY DEF Moves
<1>2. l \in [1..4 -> Levels] /\ l[1] = L /\ l[2] = I /\ l[3] = J /\ l[4] = K
  OBVIOUS
<1> HIDE DEF X, l
<1>3. \A i \in 1..3 : Moves(m, t, X[i], l[i], l[i + 1])
  <2> SUFFICES ASSUME NEW i \in 1..3 PROVE Moves(m, t, X[i], l[i], l[i + 1])
    OBVIOUS
  <2>1. CASE i = 1
    BY <1>1, <1>2, <2>1
  <2>2. CASE i = 2
    BY <1>1, <1>2, <2>2
  <2>3. CASE i = 3
    BY <1>1, <1>2, <2>3
  <2> QED BY <2>1, <2>2, <2>3
<1>4. Path(m, t, X, L, K)
  BY <1>1, <1>2, <1>3 DEF Path
<1> QED BY <1>4 DEF X

LEMMA PathFive ==
  ASSUME NEW m, NEW t, NEW a, NEW b, NEW c, NEW d, NEW e,
         NEW L \in Levels, NEW I \in Levels, NEW J \in Levels, NEW K \in Levels, NEW N \in Levels,
         NEW O \in Levels,
         Moves(m, t, a, L, I), Moves(m, t, b, I, J), Moves(m, t, c, J, K), Moves(m, t, d, K, N),
         Moves(m, t, e, N, O)
  PROVE  Path(m, t, <<a, b, c, d, e>>, L, O)
<1> DEFINE X == <<a, b, c, d, e>>
           l == <<L, I, J, K, N, O>>
<1>1. X \in Seq(StageSet) /\ Len(X) = 5 /\ X[1] = a /\ X[2] = b /\ X[3] = c /\ X[4] = d /\ X[5] = e
  BY DEF Moves
<1>2. l \in [1..6 -> Levels] /\ l[1] = L /\ l[2] = I /\ l[3] = J /\ l[4] = K /\ l[5] = N /\ l[6] = O
  OBVIOUS
<1> HIDE DEF X, l
<1>3. Moves(m, t, X[1], l[1], l[1 + 1]) /\ Moves(m, t, X[2], l[2], l[2 + 1])
  BY <1>1, <1>2
<1>4. Moves(m, t, X[3], l[3], l[3 + 1]) /\ Moves(m, t, X[4], l[4], l[4 + 1])
      /\ Moves(m, t, X[5], l[5], l[5 + 1])
  BY <1>1, <1>2
<1>5. \A i \in 1..5 : Moves(m, t, X[i], l[i], l[i + 1])
  <2>1. \A i \in 1..5 : i = 1 \/ i = 2 \/ i = 3 \/ i = 4 \/ i = 5
    OBVIOUS
  <2> QED BY <1>3, <1>4, <2>1
<1>6. Path(m, t, X, L, O)
  BY <1>1, <1>2, <1>5 DEF Path
<1> QED BY <1>6 DEF X

(***************************************************************************)
(* The stages.                                                             *)
(***************************************************************************)
LEMMA StageTyped ==
  ASSUME NEW at \in Names, NEW gives \in SUBSET Phases, NEW limit \in Limits, NEW fails \in FailMaps
  PROVE  /\ Stage(at, gives, limit, fails) \in StageSet
         /\ \A b \in BOOLEAN : [Stage(at, gives, limit, fails) EXCEPT !.ok = b] \in StageSet
         /\ \A z \in SUBSET Causes : [Stage(at, gives, limit, fails) EXCEPT !.soft = z] \in StageSet
BY DEF Stage, StageSet

LEMMA StageFields ==
  ASSUME NEW at, NEW gives, NEW limit, NEW fails
  PROVE  LET s == Stage(at, gives, limit, fails)
         IN  /\ s.at = at /\ s.gives = gives /\ s.fails = fails /\ s.leg = "none"
             /\ \A z : LET u == [s EXCEPT !.soft = z]
                       IN  u.at = at /\ u.gives = gives /\ u.fails = fails /\ u.leg = "none"
             /\ \A z : LET u == [s EXCEPT !.ok = z]
                       IN  u.at = at /\ u.gives = gives /\ u.fails = fails /\ u.leg = "none"
BY DEF Stage

\* What each map of failures blames.
LEMMA Blames ==
  /\ BlamesOf(<<>>) = {}
  /\ BlamesOf([bad |-> "config"]) = {"config"} /\ BlamesOf([bad |-> "tls"]) = {"tls"}
  /\ BlamesOf([unknown |-> "dns"]) = {"dns"}
  /\ BlamesOf([refused |-> "tcp"]) = {"tcp"} /\ BlamesOf([refused |-> "http"]) = {"http"}
  /\ BlamesOf([refused |-> "tcp", garbled |-> "tcp"]) = {"tcp"}
  /\ BlamesOf([refused |-> "http", garbled |-> "http"]) = {"http"}
  /\ BlamesOf([refused |-> "http", bad |-> "config"]) = {"http", "config"}
  /\ BlamesOf([crypto |-> "tls", refused |-> "tls"]) = {"tls"}
  /\ BlamesOf([bad |-> "http", refused |-> "http", garbled |-> "http"]) = {"http"}
  /\ BlamesOf(classify_request_error) = {"tcp", "tls", "http"}
  /\ BlamesOf(classify_quic_connection_error) = {"tcp", "tls", "http"}
  /\ BlamesOf(error_category_for_exit) = {"dns", "tls", "http"}
<1> USE DEF BlamesOf, classify_request_error, classify_quic_connection_error, error_category_for_exit
<1>1. BlamesOf(<<>>) = {} /\ BlamesOf([bad |-> "config"]) = {"config"} /\ BlamesOf([bad |-> "tls"]) = {"tls"}
      /\ BlamesOf([unknown |-> "dns"]) = {"dns"}
      /\ BlamesOf([refused |-> "tcp"]) = {"tcp"} /\ BlamesOf([refused |-> "http"]) = {"http"}
  OBVIOUS
<1>2. BlamesOf([refused |-> "tcp", garbled |-> "tcp"]) = {"tcp"}
      /\ BlamesOf([refused |-> "http", garbled |-> "http"]) = {"http"}
  OBVIOUS
<1>3. BlamesOf([refused |-> "http", bad |-> "config"]) = {"http", "config"}
      /\ BlamesOf([crypto |-> "tls", refused |-> "tls"]) = {"tls"}
  OBVIOUS
<1>4. BlamesOf([bad |-> "http", refused |-> "http", garbled |-> "http"]) = {"http"}
  OBVIOUS
<1>5. BlamesOf(classify_request_error) = {"tcp", "tls", "http"}
  OBVIOUS
<1>6. BlamesOf(classify_quic_connection_error) = {"tcp", "tls", "http"}
  OBVIOUS
<1>7. BlamesOf(error_category_for_exit) = {"dns", "tls", "http"}
  OBVIOUS
<1> QED BY <1>1, <1>2, <1>3, <1>4, <1>5, <1>6, <1>7

\* A stage that records nothing leads from a level to itself, and one that may
\* fail with a category that every level allows as well.
LEMMA Passes ==
  ASSUME NEW m, NEW t, NEW s \in StageSet, s.leg = "none", s.gives = {},
         s.at \in Names \ {"dns", "tcp", "tls", "quic", "body", "forget", "echo"},
         NEW L \in Levels,
         \A G, C : Level(m, t, L, G, C) => \A e \in BlamesOf(s.fails) : Blamed(m, t, e, C)
  PROVE  Moves(m, t, s, L, L)
<1>1. ASSUME NEW G, NEW C, Level(m, t, L, G, C) PROVE Level(m, t, L, G, C \cup {s.at})
  BY <1>1 DEF Level, Reached, Stands, Names
<1>2. \A G : HeldAfter(s, G) = G
  BY DEF HeldAfter
<1> QED BY <1>1, <1>2 DEF Moves

LEMMA CheckTyped ==
  ASSUME NEW at \in {"host", "scheme", "literal"}, NEW holds \in BOOLEAN
  PROVE  LET s == Check(at, holds, "config")
         IN  s \in StageSet /\ s.at = at /\ s.gives = {} /\ s.leg = "none" /\ BlamesOf(s.fails) \subseteq {"config"}
<1> DEFINE f == IF holds THEN <<>> ELSE [bad |-> "config"]
           u == Stage(at, {}, "local", f)
           s == Check(at, holds, "config")
<1>1. f \in FailMaps /\ BlamesOf(f) \subseteq {"config"}
  BY Blames DEF FailMaps
<1> HIDE DEF f
<1>2. at \in Names /\ {} \in SUBSET Phases /\ "local" \in Limits
  BY DEF Names, Phases, Limits
<1>3. [u EXCEPT !.ok = holds] \in StageSet
  BY <1>1, <1>2, StageTyped
<1>4. LET v == [u EXCEPT !.ok = holds] IN v.at = at /\ v.gives = {} /\ v.fails = f /\ v.leg = "none"
  BY StageFields
<1>5. s = [u EXCEPT !.ok = holds]
  BY DEF Check, f
<1> HIDE DEF s, u
<1>6. s \in StageSet /\ s.at = at /\ s.gives = {} /\ s.leg = "none" /\ BlamesOf(s.fails) \subseteq {"config"}
  BY <1>1, <1>3, <1>4, <1>5
<1> QED BY <1>6 DEF s

LEMMA CheckMoves ==
  ASSUME NEW m, NEW t, NEW at \in {"host", "scheme", "literal"}, NEW holds \in BOOLEAN
  PROVE  /\ Moves(m, t, Check(at, holds, "config"), "start", "start")
         /\ Moves(m, t, Check(at, holds, "config"), "start", "address")
<1> DEFINE s == Check(at, holds, "config")
<1>1. s \in StageSet /\ s.at = at /\ s.gives = {} /\ s.leg = "none" /\ BlamesOf(s.fails) \subseteq {"config"}
  BY CheckTyped
<1> HIDE DEF s
<1>2. \A G, C : \A e \in BlamesOf(s.fails) : Blamed(m, t, e, C)
  BY <1>1 DEF Blamed
<1>3. "start" \in Levels /\ s.at \in Names \ {"dns", "tcp", "tls", "quic", "body", "forget", "echo"}
  BY <1>1 DEF Levels, Names
<1>4. Moves(m, t, s, "start", "start")
  BY <1>1, <1>2, <1>3, Passes
<1>5. \A G, C : Level(m, t, "start", G, C) => Level(m, t, "address", G, C)
  BY DEF Level
<1>6. Moves(m, t, s, "start", "address")
  BY <1>1, <1>4, <1>5 DEF Moves
<1> QED BY <1>4, <1>6 DEF s

LEMMA LookupTyped ==
  ASSUME NEW holds \in BOOLEAN
  PROVE  LET s == Lookup(holds)
         IN  s \in StageSet /\ s.at = "dns" /\ s.gives = {"dns"} /\ s.leg = "none" /\ BlamesOf(s.fails) \subseteq {"dns"}
<1> DEFINE f == IF holds THEN <<>> ELSE [unknown |-> "dns"]
           u == Stage("dns", {"dns"}, "local", f)
           s == Lookup(holds)
<1>1. f \in FailMaps /\ BlamesOf(f) \subseteq {"dns"}
  BY Blames DEF FailMaps
<1> HIDE DEF f
<1>2. "dns" \in Names /\ {"dns"} \in SUBSET Phases /\ "local" \in Limits
  BY DEF Names, Phases, Limits
<1>3. [u EXCEPT !.ok = holds] \in StageSet
  BY <1>1, <1>2, StageTyped
<1>4. LET v == [u EXCEPT !.ok = holds] IN v.at = "dns" /\ v.gives = {"dns"} /\ v.fails = f /\ v.leg = "none"
  BY StageFields
<1>5. s = [u EXCEPT !.ok = holds]
  BY DEF Lookup, f
<1> HIDE DEF s, u
<1>6. s \in StageSet /\ s.at = "dns" /\ s.gives = {"dns"} /\ s.leg = "none" /\ BlamesOf(s.fails) \subseteq {"dns"}
  BY <1>1, <1>3, <1>4, <1>5
<1> QED BY <1>6 DEF s

LEMMA LookupMoves ==
  ASSUME NEW m, NEW t, NEW holds \in BOOLEAN
  PROVE  Moves(m, t, Lookup(holds), "start", "address")
<1> DEFINE s == Lookup(holds)
<1>1. s \in StageSet /\ s.at = "dns" /\ s.gives = {"dns"} /\ s.leg = "none" /\ BlamesOf(s.fails) \subseteq {"dns"}
  BY LookupTyped
<1> HIDE DEF s
<1>2. ASSUME NEW G, NEW C, Level(m, t, "start", G, C)
      PROVE  Level(m, t, "address", HeldAfter(s, G), C \cup {s.at}) /\ \A e \in BlamesOf(s.fails) : Blamed(m, t, e, C)
  BY <1>1, <1>2 DEF Level, Reached, HeldAfter, Bare, Blamed
<1>3. Moves(m, t, s, "start", "address")
  BY <1>1, <1>2 DEF Moves
<1> QED BY <1>3 DEF s

LEMMA FallibleMoves ==
  ASSUME NEW m, NEW t, NEW at \in {"tls config", "endpoint", "sni", "spawn"},
         NEW cat \in {"config", "tls"}, NEW L \in Levels
  PROVE  /\ Moves(m, t, Fallible(at, cat), L, L)
         /\ L = "start" => Moves(m, t, Fallible(at, cat), L, "address")
<1> DEFINE s == Fallible(at, cat)
<1>1. [bad |-> cat] \in FailMaps /\ BlamesOf([bad |-> cat]) \subseteq {"config", "tls"}
  BY Blames DEF FailMaps
<1> DEFINE f == [bad |-> cat]
<1> HIDE DEF f
<1>a. at \in Names /\ {} \in SUBSET Phases /\ "local" \in Limits
  BY DEF Names, Phases, Limits
<1>b. Stage(at, {}, "local", f) \in StageSet
  BY <1>1, <1>a, StageTyped DEF f
<1>c. s = Stage(at, {}, "local", f)
  BY DEF Fallible, f
<1> DEFINE u == Stage(at, {}, "local", f)
<1>h. u.at = at /\ u.gives = {} /\ u.leg = "none" /\ u.fails = f
  BY DEF Stage
<1> HIDE DEF u
<1>d. s.at = at /\ s.gives = {} /\ s.leg = "none" /\ s.fails = f
  BY <1>c, <1>h DEF u
<1>2. s \in StageSet /\ s.at = at /\ s.gives = {} /\ s.leg = "none"
      /\ BlamesOf(s.fails) \subseteq {"config", "tls"}
  BY <1>1, <1>b, <1>c, <1>d DEF f
<1> HIDE DEF s
<1>e. \A G, C : \A e \in BlamesOf(s.fails) : Blamed(m, t, e, C)
  BY <1>2 DEF Blamed
<1>f. s.at \in Names \ {"dns", "tcp", "tls", "quic", "body", "forget", "echo"}
  BY <1>2 DEF Names
<1>3. Moves(m, t, s, L, L)
  BY <1>2, <1>e, <1>f, Passes
<1>4. \A G, C : Level(m, t, "start", G, C) => Level(m, t, "address", G, C)
  BY DEF Level
<1> QED BY <1>3, <1>4 DEF Moves, s

\* A connection whose target needs no TLS is as good as secured.
LEMMA ConnectMoves ==
  ASSUME NEW m, NEW t
  PROVE  /\ Moves(m, t, Connect, "address", "connected")
         /\ TlsStages(t) = <<>> \/ m \in {"download1", "upload1"} => Moves(m, t, Connect, "address", "secured")
         /\ m = "tlsresume" => Moves(m, t, Connect, "forgotten", "secured")
<1>1. [refused |-> "tcp"] \in FailMaps
  BY DEF FailMaps
<1>a. "tcp" \in Names /\ {"tcp"} \in SUBSET Phases /\ "deadline" \in Limits
  BY DEF Names, Phases, Limits
<1>b. Connect \in StageSet
  BY <1>1, <1>a, StageTyped DEF Connect
<1>c. Connect.at = "tcp" /\ Connect.gives = {"tcp"} /\ Connect.leg = "none"
      /\ Connect.fails = [refused |-> "tcp"]
  BY StageFields DEF Connect
<1>2. Connect \in StageSet /\ Connect.at = "tcp" /\ Connect.gives = {"tcp"} /\ Connect.leg = "none"
      /\ BlamesOf(Connect.fails) = {"tcp"}
  BY <1>b, <1>c, Blames
<1>3. \A G, C, L : L \in {"address", "forgotten"} /\ Level(m, t, L, G, C) =>
        \A e \in BlamesOf(Connect.fails) : Blamed(m, t, e, C)
  BY <1>2 DEF Level, Blamed
<1>4. \A G, C : Level(m, t, "address", G, C) =>
        Level(m, t, "connected", HeldAfter(Connect, G), C \cup {Connect.at})
  BY <1>2 DEF Level, Reached, HeldAfter, Bare
<1>5. ASSUME TlsStages(t) = <<>> \/ m \in {"download1", "upload1"},
             NEW G, NEW C, Level(m, t, "address", G, C)
      PROVE  Level(m, t, "secured", HeldAfter(Connect, G), C \cup {Connect.at})
  BY <1>2, <1>5 DEF Level, Reached, HeldAfter, Bare, Stands
<1>6. ASSUME NEW G, NEW C, Level(m, t, "forgotten", G, C)
      PROVE  Level(m, t, "secured", HeldAfter(Connect, G), C \cup {Connect.at})
  BY <1>2, <1>6 DEF Level, Reached, HeldAfter, Bare, Stands
<1> QED BY <1>2, <1>3, <1>4, <1>5, <1>6 DEF Moves

LEMMA HandshakeMoves ==
  ASSUME NEW m, NEW t
  PROVE  /\ Moves(m, t, Handshake, "connected", "secured")
         /\ Moves(m, t, Handshake, "secured", "secured")
<1>1. [crypto |-> "tls", refused |-> "tls"] \in FailMaps
  BY DEF FailMaps
<1>a. "tls" \in Names /\ {"tls"} \in SUBSET Phases /\ "deadline" \in Limits
  BY DEF Names, Phases, Limits
<1>b. Handshake \in StageSet
  BY <1>1, <1>a, StageTyped DEF Handshake
<1>c. Handshake.at = "tls" /\ Handshake.gives = {"tls"} /\ Handshake.leg = "none"
      /\ Handshake.fails = [crypto |-> "tls", refused |-> "tls"]
  BY StageFields DEF Handshake
<1>2. Handshake \in StageSet /\ Handshake.at = "tls" /\ Handshake.gives = {"tls"} /\ Handshake.leg = "none"
      /\ BlamesOf(Handshake.fails) = {"tls"}
  BY <1>b, <1>c, Blames
<1>3. \A C : \A e \in BlamesOf(Handshake.fails) : Blamed(m, t, e, C)
  BY <1>2 DEF Blamed
<1>4. ASSUME NEW G, NEW C, NEW L \in {"connected", "secured"}, Level(m, t, L, G, C)
      PROVE  Level(m, t, "secured", HeldAfter(Handshake, G), C \cup {Handshake.at})
  BY <1>2, <1>4 DEF Level, Reached, HeldAfter, Stands
<1> QED BY <1>2, <1>3, <1>4 DEF Moves

\* The stages of a request over a connection that stands.
LEMMA SendingMoves ==
  ASSUME NEW m, NEW t, NEW at \in {"handshake", "response", "request"}, NEW limit \in Limits,
         NEW f \in {classify_request_error, [refused |-> "http"], [refused |-> "http", bad |-> "config"],
                    [bad |-> "http", refused |-> "http", garbled |-> "http"]}
  PROVE  Moves(m, t, Stage(at, {}, limit, f), "secured", "secured")
<1> DEFINE s == Stage(at, {}, limit, f)
<1>1. f \in FailMaps /\ BlamesOf(f) \subseteq {"tcp", "tls", "http", "config"}
  BY Blames DEF FailMaps
<1>a. at \in Names /\ {} \in SUBSET Phases
  BY DEF Names, Phases
<1>b. s \in StageSet
  BY <1>1, <1>a, StageTyped
<1>c. s.at = at /\ s.gives = {} /\ s.leg = "none" /\ s.fails = f
  BY StageFields
<1>2. s \in StageSet /\ s.at = at /\ s.gives = {} /\ s.leg = "none"
      /\ BlamesOf(s.fails) \subseteq {"tcp", "tls", "http", "config"}
  BY <1>1, <1>b, <1>c
<1> HIDE DEF s
<1>3. \A G, C : Level(m, t, "secured", G, C) => \A e \in BlamesOf(s.fails) : Blamed(m, t, e, C)
  BY <1>2 DEF Level, Blamed
<1>d. "secured" \in Levels /\ s.at \in Names \ {"dns", "tcp", "tls", "quic", "body", "forget", "echo"}
  BY <1>2 DEF Names, Levels
<1>4. Moves(m, t, s, "secured", "secured")
  BY <1>2, <1>3, <1>d, Passes
<1> QED BY <1>4 DEF s

LEMMA BodyMoves ==
  ASSUME NEW m, NEW t, NEW f \in {<<>>, classify_request_error}, NEW z \in SUBSET Causes
  PROVE  /\ Moves(m, t, Stage("body", {"http"}, "none", f), "secured", "complete")
         /\ Moves(m, t, [Stage("body", {"http"}, "none", f) EXCEPT !.soft = z], "secured", "complete")
<1>1. f \in FailMaps /\ BlamesOf(f) \subseteq {"tcp", "tls", "http"}
  BY Blames DEF FailMaps
<1>2. ASSUME NEW s \in StageSet, s.at = "body", s.gives = {"http"}, s.leg = "none", s.fails = f
      PROVE  Moves(m, t, s, "secured", "complete")
  <2>1. ASSUME NEW G, NEW C, Level(m, t, "secured", G, C)
        PROVE  /\ \A e \in BlamesOf(s.fails) : Blamed(m, t, e, C)
               /\ Level(m, t, "complete", HeldAfter(s, G), C \cup {s.at})
    BY <1>1, <1>2, <2>1 DEF Level, Reached, HeldAfter, Stands, Blamed
  <2> QED BY <1>2, <2>1 DEF Moves
<1>3. "body" \in Names /\ {"http"} \in SUBSET Phases /\ "none" \in Limits
  BY DEF Names, Phases, Limits
<1> DEFINE u == Stage("body", {"http"}, "none", f)
           v == [u EXCEPT !.soft = z]
<1>4. u \in StageSet /\ v \in StageSet
  BY <1>1, <1>3, StageTyped
<1>5. u.at = "body" /\ u.gives = {"http"} /\ u.fails = f /\ u.leg = "none"
  BY StageFields
<1>6. v.at = "body" /\ v.gives = {"http"} /\ v.fails = f /\ v.leg = "none"
  BY StageFields
<1> HIDE DEF u, v
<1>7. Moves(m, t, u, "secured", "complete") /\ Moves(m, t, v, "secured", "complete")
  BY <1>2, <1>4, <1>5, <1>6
<1> QED BY <1>7 DEF u, v

(***************************************************************************)
(* The probers.                                                            *)
(***************************************************************************)
LEMMA AddressPath ==
  ASSUME NEW m, NEW t, NEW u, NEW only
  PROVE  Path(m, t, AddressStages(u, only), "start", "address")
<1>1. "start" \in Levels /\ "address" \in Levels
  BY DEF Levels
<1>2. (u.host # "none") \in BOOLEAN /\ (u.host = "literal") \in BOOLEAN /\ resolve(u, only) \in BOOLEAN
  BY DEF resolve
<1>3. Path(m, t, <<Check("host", u.host # "none", "config")>>, "start", "start")
  BY <1>1, <1>2, CheckMoves, PathOne
<1>4. Path(m, t, <<Check("literal", u.host = "literal", "config")>>, "start", "address")
  BY <1>1, <1>2, CheckMoves, PathOne
<1>5. Path(m, t, <<Lookup(resolve(u, only))>>, "start", "address")
  BY <1>1, <1>2, LookupMoves, PathOne
<1> DEFINE X == IF u.dns THEN <<Lookup(resolve(u, only))>> ELSE <<Check("literal", u.host = "literal", "config")>>
<1>6. Path(m, t, X, "start", "address")
  BY <1>4, <1>5
<1> HIDE DEF X
<1>7. Path(m, t, <<Check("host", u.host # "none", "config")>> \o X, "start", "address")
  BY <1>3, <1>6, PathConcat
<1> QED BY <1>7 DEF AddressStages, X

LEMMA HttpAddressPath ==
  ASSUME NEW m, NEW t, NEW u, NEW only
  PROVE  Path(m, t, HttpAddress(u, only), "start", "address")
<1>1. "start" \in Levels /\ "address" \in Levels /\ (u.host # "none") \in BOOLEAN
  BY DEF Levels
<1>2. Path(m, t, <<Check("host", u.host # "none", "config"), Lookup(TRUE)>>, "start", "address")
  BY <1>1, CheckMoves, LookupMoves, PathTwo
<1> QED BY <1>2, AddressPath DEF HttpAddress

\* A proxy's tunnel is made before the target's TLS session.
LEMMA TunnelPath ==
  ASSUME NEW m, NEW t, NEW u, NEW L \in {"connected", "secured"}
  PROVE  Path(m, t, connect_via_proxy_tunnel(u), L, L)
<1>1. L \in Levels
  BY DEF Levels
<1> DEFINE f == [refused |-> "tcp", garbled |-> "tcp"]
           s == Stage("tunnel", {}, "deadline", f)
<1>2. f \in FailMaps /\ BlamesOf(f) = {"tcp"}
  BY Blames DEF FailMaps
<1> HIDE DEF f
<1>3. "tunnel" \in Names /\ {} \in SUBSET Phases /\ "deadline" \in Limits
  BY DEF Names, Phases, Limits
<1>4. s \in StageSet
  BY <1>2, <1>3, StageTyped
<1>5. s.at = "tunnel" /\ s.gives = {} /\ s.fails = f /\ s.leg = "none"
  BY StageFields
<1> HIDE DEF s
<1>6. \A G, C : Level(m, t, L, G, C) => \A e \in BlamesOf(s.fails) : Blamed(m, t, e, C)
  BY <1>2, <1>5 DEF Level, Blamed
<1>7. s.at \in Names \ {"dns", "tcp", "tls", "quic", "body", "forget", "echo"}
  BY <1>5 DEF Names
<1>8. Moves(m, t, s, L, L)
  BY <1>1, <1>4, <1>5, <1>6, <1>7, Passes
<1>9. Path(m, t, <<s>>, L, L) /\ Path(m, t, <<>>, L, L)
  BY <1>1, <1>8, PathOne, PathNil
<1> QED BY <1>9 DEF connect_via_proxy_tunnel, s, f

\* The level a connection reaches: u is the target as the prober sees it.
Reaches(u) == IF u.https THEN "connected" ELSE "secured"

\* The prober sees the target as it is, or without TLS in a transfer over plain
\* HTTP.
Seen(m, t, u) ==
  \/ u = t
  \/ m \in {"download1", "upload1"} /\ ~u.https

LEMMA ConnectPath ==
  ASSUME NEW m, NEW t, NEW u, Seen(m, t, u)
  PROVE  Path(m, t, <<Connect>>, "address", Reaches(u))
<1>1. "address" \in Levels /\ "connected" \in Levels /\ "secured" \in Levels
  BY DEF Levels
<1>2. CASE u.https
  BY <1>1, <1>2, ConnectMoves, PathOne DEF Reaches
<1>3. CASE ~u.https
  <2>1. TlsStages(t) = <<>> \/ m \in {"download1", "upload1"}
    BY <1>3 DEF Seen, TlsStages
  <2>2. Moves(m, t, Connect, "address", "secured")
    BY <2>1, ConnectMoves
  <2> QED BY <1>1, <1>3, <2>2, PathOne DEF Reaches
<1> QED BY <1>2, <1>3

LEMMA SessionPath ==
  ASSUME NEW m, NEW t, NEW L \in {"connected", "secured"}
  PROVE  Path(m, t, <<Fallible("tls config", "tls"), Handshake>>, L, "secured")
<1>1. L \in Levels /\ "secured" \in Levels
  BY DEF Levels
<1>2. Moves(m, t, Fallible("tls config", "tls"), L, L) /\ Moves(m, t, Handshake, L, "secured")
  BY <1>1, FallibleMoves, HandshakeMoves
<1> QED BY <1>1, <1>2, PathTwo

LEMMA TlsPath ==
  ASSUME NEW m, NEW t, NEW u
  PROVE  Path(m, t, TlsStages(u), Reaches(u), "secured")
<1>1. Path(m, t, <<>>, "secured", "secured")
  BY PathNil DEF Levels
<1> QED BY <1>1, SessionPath DEF TlsStages, Reaches

LEMMA RequestPath ==
  ASSUME NEW m, NEW t
  PROVE  Path(m, t, send_request, "secured", "secured") /\ Path(m, t, collect_response, "secured", "complete")
<1>1. "secured" \in Levels /\ "complete" \in Levels /\ "local" \in Limits /\ "deadline" \in Limits
  BY DEF Levels, Limits
<1>2. /\ Moves(m, t, Stage("handshake", {}, "local", classify_request_error), "secured", "secured")
      /\ Moves(m, t, Stage("response", {}, "deadline", classify_request_error), "secured", "secured")
  BY <1>1, SendingMoves
<1>3. Moves(m, t, Stage("body", {"http"}, "none", classify_request_error), "secured", "complete")
  BY BodyMoves
<1> QED BY <1>1, <1>2, <1>3, PathOne, PathTwo DEF send_request, collect_response

LEMMA HttpPath ==
  ASSUME NEW m, NEW t, NEW u, NEW only, Seen(m, t, u)
  PROVE  Path(m, t, run_http_or_tcp(m, u, only), "start", IF m = "tcp" THEN Reaches(u) ELSE "complete")
<1>1. Path(m, t, HttpAddress(u, only) \o <<Connect>>, "start", Reaches(u))
  BY HttpAddressPath, ConnectPath, PathConcat
<1>2. Path(m, t, connect_via_proxy_tunnel(u), Reaches(u), Reaches(u))
  BY TunnelPath DEF Reaches
<1>3. Path(m, t, HttpAddress(u, only) \o <<Connect>> \o connect_via_proxy_tunnel(u), "start", Reaches(u))
  BY <1>1, <1>2, PathConcat
<1>4. Path(m, t, <<>>, Reaches(u), Reaches(u))
  BY PathNil DEF Reaches, Levels
<1>5. Path(m, t, TlsStages(u) \o send_request, Reaches(u), "secured")
  BY TlsPath, RequestPath, PathConcat
<1>6. Path(m, t, TlsStages(u) \o send_request \o collect_response, Reaches(u), "complete")
  BY <1>5, RequestPath, PathConcat
<1> DEFINE X == IF m = "tcp" THEN <<>> ELSE TlsStages(u) \o send_request \o collect_response
           K == IF m = "tcp" THEN Reaches(u) ELSE "complete"
<1>7. Path(m, t, X, Reaches(u), K)
  BY <1>4, <1>6
<1> HIDE DEF X, K
<1>8. Path(m, t, HttpAddress(u, only) \o <<Connect>> \o connect_via_proxy_tunnel(u) \o X, "start", K)
  BY <1>3, <1>7, PathConcat
<1> QED BY <1>8 DEF run_http_or_tcp, X, K


\* A stage that is bounded by its own failures, blamed on HTTP or on nothing.
LEMMA QuicStageMoves ==
  ASSUME NEW m \in Quic, NEW t, NEW at \in Names \ {"dns", "tcp", "tls", "quic", "forget", "echo"},
         NEW gives \in {{}, {"http"}}, NEW limit \in Limits,
         NEW f \in {<<>>, [refused |-> "http"], [refused |-> "http", garbled |-> "http"]},
         NEW z \in SUBSET Causes
  PROVE  /\ Moves(m, t, Stage(at, gives, limit, f), "quic", "quic")
         /\ Moves(m, t, [Stage(at, gives, limit, f) EXCEPT !.soft = z], "quic", "quic")
<1>1. f \in FailMaps /\ BlamesOf(f) \subseteq {"http"}
  BY Blames DEF FailMaps
<1>2. at \in Names /\ gives \in SUBSET Phases
  BY DEF Phases
<1>3. ASSUME NEW s \in StageSet, s.at = at, s.gives = gives, s.leg = "none", s.fails = f
      PROVE  Moves(m, t, s, "quic", "quic")
  <2>1. ASSUME NEW G, NEW C, Level(m, t, "quic", G, C)
        PROVE  /\ \A e \in BlamesOf(s.fails) : Blamed(m, t, e, C)
               /\ Level(m, t, "quic", HeldAfter(s, G), C \cup {s.at})
    <3>1. HeldAfter(s, G) = G \cup gives
      BY <1>3 DEF HeldAfter
    <3>2. "tcp" \in HeldAfter(s, G) => "tcp" \in G
      BY <3>1
    <3>3. "tls" \in HeldAfter(s, G) => "tls" \in G
      BY <3>1
    <3>4. Reached(m, HeldAfter(s, G), C \cup {s.at})
      BY <2>1, <3>2, <3>3 DEF Level, Reached
    <3>5. Level(m, t, "quic", HeldAfter(s, G), C \cup {s.at})
      BY <3>4 DEF Level
    <3> QED BY <1>1, <1>3, <3>5 DEF Blamed
  <2>2. s.at # "echo" /\ "echo" \notin s.gives
    BY <1>3
  <2> QED BY <1>3, <2>1, <2>2 DEF Moves
<1> DEFINE u == Stage(at, gives, limit, f)
           v == [u EXCEPT !.soft = z]
<1>4. u \in StageSet /\ v \in StageSet
  BY <1>1, <1>2, StageTyped
<1>5. u.at = at /\ u.gives = gives /\ u.fails = f /\ u.leg = "none"
  BY StageFields
<1>6. v.at = at /\ v.gives = gives /\ v.fails = f /\ v.leg = "none"
  BY StageFields
<1> HIDE DEF u, v
<1>7. Moves(m, t, u, "quic", "quic") /\ Moves(m, t, v, "quic", "quic")
  BY <1>3, <1>4, <1>5, <1>6
<1> QED BY <1>7 DEF u, v

LEMMA QuicMoves ==
  ASSUME NEW m \in Quic, NEW t
  PROVE  Moves(m, t, Stage("quic", {"tls"}, "deadline", classify_quic_connection_error), "address", "quic")
<1> DEFINE f == classify_quic_connection_error
           s == Stage("quic", {"tls"}, "deadline", f)
<1>1. f \in FailMaps /\ BlamesOf(f) = {"tcp", "tls", "http"}
  BY Blames DEF FailMaps
<1> HIDE DEF f
<1>2. "quic" \in Names /\ {"tls"} \in SUBSET Phases /\ "deadline" \in Limits
  BY DEF Names, Phases, Limits
<1>3. s \in StageSet
  BY <1>1, <1>2, StageTyped
<1>4. s.at = "quic" /\ s.gives = {"tls"} /\ s.fails = f /\ s.leg = "none"
  BY StageFields
<1> HIDE DEF s
<1>5. ASSUME NEW G, NEW C, Level(m, t, "address", G, C)
      PROVE  /\ \A e \in BlamesOf(s.fails) : Blamed(m, t, e, C)
             /\ Level(m, t, "quic", HeldAfter(s, G), C \cup {s.at})
  BY <1>1, <1>4, <1>5 DEF Level, Reached, HeldAfter, Bare, Blamed
<1>6. Moves(m, t, s, "address", "quic")
  BY <1>3, <1>4, <1>5 DEF Moves
<1> QED BY <1>6 DEF s, f

LEMMA QuicSetupPath ==
  ASSUME NEW m \in Quic, NEW t, NEW only
  PROVE  Path(m, t, QuicSetup(t, only), "start", "quic")
<1>1. {"start", "address", "quic"} \subseteq Levels /\ (t.host # "none") \in BOOLEAN /\ resolve(t, only) \in BOOLEAN
  BY DEF Levels, resolve
<1> DEFINE A == <<Check("host", t.host # "none", "config"), Fallible("tls config", "tls")>>
           B == IF t.host = "literal" THEN <<>> ELSE <<Lookup(resolve(t, only))>>
           E == <<Fallible("endpoint", "config"),
                  Stage("quic", {"tls"}, "deadline", classify_quic_connection_error)>>
<1>2. Moves(m, t, Check("host", t.host # "none", "config"), "start", "start")
  BY <1>1, CheckMoves
<1>3. \A K \in {"start", "address"} : Moves(m, t, Fallible("tls config", "tls"), "start", K)
  BY <1>1, FallibleMoves
<1>4. \A K \in {"start", "address"} : Path(m, t, A, "start", K)
  BY <1>1, <1>2, <1>3, PathTwo
<1>5. Path(m, t, E, "address", "quic")
  BY <1>1, FallibleMoves, QuicMoves, PathTwo
<1>6. Path(m, t, <<>>, "address", "address") /\ Path(m, t, <<Lookup(resolve(t, only))>>, "start", "address")
  BY <1>1, PathNil, LookupMoves, PathOne
<1>7. Path(m, t, B, IF t.host = "literal" THEN "address" ELSE "start", "address")
  BY <1>6
<1> HIDE DEF A, B, E
<1>8. Path(m, t, A \o B, "start", "address")
  BY <1>4, <1>7, PathConcat
<1>9. Path(m, t, A \o B \o E, "start", "quic")
  BY <1>5, <1>8, PathConcat
<1> QED BY <1>9 DEF QuicSetup, A, B, E

LEMMA H3Path ==
  ASSUME NEW m \in Quic, NEW t
  PROVE  Path(m, t, run_http3_request_probe(m, t), "start", "quic")
<1> DEFINE f == [refused |-> "http", garbled |-> "http"]
           A == <<Stage("h3", {}, "none", f), Stage("request", {}, "deadline", f)>>
           B == IF m = "upload3" THEN <<Stage("send body", {}, "none", [refused |-> "http"])>> ELSE <<>>
           E == <<Stage("response", {}, "deadline", f),
                  [Stage("body", {"http"}, "deadline", <<>>) EXCEPT !.soft = {"refused", "garbled"}]>>
           D == measure_quic_resumption(m)
           only == IF m = "http3" THEN "any" ELSE t.only
<1>1. /\ {"h3", "request", "send body", "response", "body", "resumption"} \subseteq
           Names \ {"dns", "tcp", "tls", "quic", "forget", "echo"}
      /\ {"none", "deadline", "ignored"} \subseteq Limits /\ "quic" \in Levels
      /\ {"refused", "garbled"} \in SUBSET Causes /\ {"refused", "crypto"} \in SUBSET Causes
      /\ {} \in SUBSET Causes
  BY DEF Names, Limits, Levels, Causes
<1>2. Path(m, t, A, "quic", "quic")
  <2>1. Moves(m, t, Stage("h3", {}, "none", f), "quic", "quic")
    BY <1>1, QuicStageMoves
  <2>2. Moves(m, t, Stage("request", {}, "deadline", f), "quic", "quic")
    BY <1>1, QuicStageMoves
  <2> QED BY <1>1, <2>1, <2>2, PathTwo
<1>3. Path(m, t, B, "quic", "quic")
  <2>1. Moves(m, t, Stage("send body", {}, "none", [refused |-> "http"]), "quic", "quic")
    BY <1>1, QuicStageMoves
  <2> QED BY <1>1, <2>1, PathOne, PathNil
<1>4. Path(m, t, E, "quic", "quic")
  <2>1. Moves(m, t, Stage("response", {}, "deadline", f), "quic", "quic")
    BY <1>1, QuicStageMoves
  <2>2. Moves(m, t, [Stage("body", {"http"}, "deadline", <<>>) EXCEPT !.soft = {"refused", "garbled"}],
              "quic", "quic")
    BY <1>1, QuicStageMoves
  <2> QED BY <1>1, <2>1, <2>2, PathTwo
<1>5. Path(m, t, D, "quic", "quic")
  <2>1. Moves(m, t, [Stage("resumption", {}, "ignored", <<>>) EXCEPT !.soft = {"refused", "crypto"}],
              "quic", "quic")
    BY <1>1, QuicStageMoves
  <2> QED BY <1>1, <2>1, PathOne, PathNil DEF measure_quic_resumption
<1>6. H3Request(m) = A \o B \o E
  BY DEF H3Request
<1>7. run_http3_request_probe(m, t) = QuicSetup(t, only) \o H3Request(m) \o D
  BY DEF run_http3_request_probe
<1> HIDE DEF A, B, D, E, f, only
<1>8. Path(m, t, A \o B, "quic", "quic")
  BY <1>2, <1>3, PathConcat
<1>9. Path(m, t, H3Request(m), "quic", "quic")
  BY <1>4, <1>6, <1>8, PathConcat
<1>10. Path(m, t, QuicSetup(t, only) \o H3Request(m), "start", "quic")
  BY <1>9, QuicSetupPath, PathConcat
<1> QED BY <1>5, <1>7, <1>10, PathConcat


LEMMA TlsProbePath ==
  ASSUME NEW m, NEW t
  PROVE  Path(m, t, run_tls_probe(t), "start", "secured")
<1>1. {"address", "connected", "secured"} \subseteq Levels
  BY DEF Levels
<1>2. Moves(m, t, Connect, "address", "connected") /\ Moves(m, t, Handshake, "connected", "secured")
      /\ Moves(m, t, Fallible("tls config", "tls"), "connected", "connected")
  BY <1>1, ConnectMoves, HandshakeMoves, FallibleMoves
<1>3. Path(m, t, <<Connect, Fallible("tls config", "tls"), Handshake>>, "address", "secured")
  BY <1>1, <1>2, PathThree
<1> QED BY <1>3, AddressPath, PathConcat DEF run_tls_probe

\* A stage at which nothing is recorded and nothing can fail.
LEMMA QuietMoves ==
  ASSUME NEW m, NEW t, NEW at \in {"read", "resumed"}, NEW limit \in Limits, NEW z \in SUBSET Causes,
         NEW L \in Levels
  PROVE  /\ Moves(m, t, Stage(at, {}, limit, <<>>), L, L)
         /\ Moves(m, t, [Stage(at, {}, limit, <<>>) EXCEPT !.soft = z], L, L)
<1> DEFINE f == <<>>
           u == Stage(at, {}, limit, f)
           v == [u EXCEPT !.soft = z]
<1>1. f \in FailMaps /\ BlamesOf(f) = {}
  BY Blames DEF FailMaps
<1> HIDE DEF f
<1>2. at \in Names /\ {} \in SUBSET Phases
  BY DEF Names
<1>3. u \in StageSet /\ v \in StageSet
  BY <1>1, <1>2, StageTyped
<1>4. u.at = at /\ u.gives = {} /\ u.fails = f /\ u.leg = "none"
  BY StageFields
<1>5. v.at = at /\ v.gives = {} /\ v.fails = f /\ v.leg = "none"
  BY StageFields
<1> HIDE DEF u, v
<1>6. at \in Names \ {"dns", "tcp", "tls", "quic", "body", "forget", "echo"}
  BY <1>2
<1>7. Moves(m, t, u, L, L)
  BY <1>1, <1>3, <1>4, <1>6, Passes
<1>8. Moves(m, t, v, L, L)
  BY <1>1, <1>3, <1>5, <1>6, Passes
<1> QED BY <1>7, <1>8 DEF u, v, f

\* The first connection starts from the address, the second from what was kept.
LEMMA ResumedConnectionPath ==
  ASSUME NEW m, m = "tlsresume", NEW t, NEW L \in {"address", "forgotten"}
  PROVE  Path(m, t, run_one_tls_http_request, L, "secured")
<1> DEFINE J == IF L = "address" THEN "connected" ELSE "secured"
           A == Connect
           B == Fallible("sni", "tls")
           E == Stage("request", {}, "deadline", [refused |-> "http", bad |-> "config"])
           F == [Stage("read", {}, "ignored", <<>>) EXCEPT !.soft = {"refused", "crypto"}]
<1>1. /\ L \in Levels /\ J \in Levels /\ "secured" \in Levels
      /\ {"deadline", "ignored"} \subseteq Limits /\ {"refused", "crypto"} \in SUBSET Causes
  BY DEF Levels, Limits, Causes
<1>2. Moves(m, t, A, L, J)
  BY ConnectMoves
<1>3. Moves(m, t, B, J, J)
  BY <1>1, FallibleMoves
<1>4. Moves(m, t, Handshake, J, "secured")
  BY HandshakeMoves
<1>5. Moves(m, t, E, "secured", "secured")
  BY <1>1, SendingMoves
<1>6. Moves(m, t, F, "secured", "secured")
  BY <1>1, QuietMoves
<1> HIDE DEF A, B, E, F, J
<1>7. Path(m, t, <<A, B, Handshake, E, F>>, L, "secured")
  BY <1>1, <1>2, <1>3, <1>4, <1>5, <1>6, PathFive
<1> QED BY <1>7 DEF run_one_tls_http_request, A, B, E, F

LEMMA ForgetMoves ==
  ASSUME NEW m, m = "tlsresume", NEW t
  PROVE  Moves(m, t, Stage("forget", {}, "local", <<>>), "secured", "forgotten")
<1> DEFINE f == <<>>
           s == Stage("forget", {}, "local", f)
<1>1. f \in FailMaps /\ BlamesOf(f) = {}
  BY Blames DEF FailMaps
<1> HIDE DEF f
<1>2. "forget" \in Names /\ {} \in SUBSET Phases /\ "local" \in Limits
  BY DEF Names, Limits
<1>3. s \in StageSet
  BY <1>1, <1>2, StageTyped
<1>4. s.at = "forget" /\ s.gives = {} /\ s.fails = f /\ s.leg = "none"
  BY StageFields
<1>a. s.soft = {} /\ s.limit = "local"
  BY DEF Stage
<1> HIDE DEF s
<1>5. ASSUME NEW G, NEW C, Level(m, t, "secured", G, C)
      PROVE  Level(m, t, "forgotten", HeldAfter(s, G), C \cup {s.at})
  BY <1>4, <1>5 DEF Level, Reached, HeldAfter, Stands
<1>6. Moves(m, t, s, "secured", "forgotten")
  BY <1>1, <1>3, <1>4, <1>5, <1>a DEF Moves
<1> QED BY <1>6 DEF s, f

LEMMA ResumptionPath ==
  ASSUME NEW m, m = "tlsresume", NEW t, t.https \in BOOLEAN
  PROVE  Path(m, t, run_tls_resumption_probe(t), "start", "secured")
<1> DEFINE A == <<Check("host", t.host # "none", "config"), Check("scheme", t.https, "config")>>
           B == Tail(AddressStages(t, t.only))
           E == <<Fallible("tls config", "tls")>>
           F == <<Stage("forget", {}, "local", <<>>)>>
           D == <<Stage("resumed", {}, "local", <<>>)>>
           R == run_one_tls_http_request
<1>1. /\ {"start", "address", "secured", "forgotten"} \subseteq Levels
      /\ (t.host # "none") \in BOOLEAN /\ (t.host = "literal") \in BOOLEAN /\ resolve(t, t.only) \in BOOLEAN
      /\ "local" \in Limits /\ {} \in SUBSET Causes
  BY DEF Levels, resolve, Limits
<1>2. Path(m, t, A, "start", "start")
  BY <1>1, CheckMoves, PathTwo
<1>3. Path(m, t, B, "start", "address")
  <2>1. Path(m, t, <<Lookup(resolve(t, t.only))>>, "start", "address")
    BY <1>1, LookupMoves, PathOne
  <2>2. Path(m, t, <<Check("literal", t.host = "literal", "config")>>, "start", "address")
    BY <1>1, CheckMoves, PathOne
  <2>3. B = IF t.dns THEN <<Lookup(resolve(t, t.only))>>
                     ELSE <<Check("literal", t.host = "literal", "config")>>
    BY Juxtaposed DEF AddressStages
  <2> QED BY <2>1, <2>2, <2>3
<1>4. Path(m, t, E, "address", "address")
  BY <1>1, FallibleMoves, PathOne
<1>5. Path(m, t, F, "secured", "forgotten")
  BY <1>1, ForgetMoves, PathOne
<1>6. Path(m, t, D, "secured", "secured")
  BY <1>1, QuietMoves, PathOne
<1>7. Path(m, t, R, "address", "secured") /\ Path(m, t, R, "forgotten", "secured")
  BY ResumedConnectionPath
<1>8. run_tls_resumption_probe(t) = A \o B \o E \o R \o F \o R \o D
  BY DEF run_tls_resumption_probe
<1> HIDE DEF A, B, E, F, D, R
<1>9. Path(m, t, A \o B, "start", "address")
  BY <1>2, <1>3, PathConcat
<1>10. Path(m, t, A \o B \o E, "start", "address")
  BY <1>4, <1>9, PathConcat
<1>11. Path(m, t, A \o B \o E \o R, "start", "secured")
  BY <1>7, <1>10, PathConcat
<1>12. Path(m, t, A \o B \o E \o R \o F, "start", "forgotten")
  BY <1>5, <1>11, PathConcat
<1>13. Path(m, t, A \o B \o E \o R \o F \o R, "start", "secured")
  BY <1>7, <1>12, PathConcat
<1> QED BY <1>6, <1>8, <1>13, PathConcat

LEMMA NativePath ==
  ASSUME NEW m, NEW t
  PROVE  Path(m, t, run_native_probe(t), "start", "complete")
<1> DEFINE A == Stage("handshake", {}, "deadline", [refused |-> "http"])
           B == Stage("response", {}, "deadline", [bad |-> "http", refused |-> "http", garbled |-> "http"])
           E == [Stage("body", {"http"}, "none", <<>>) EXCEPT !.soft = {"refused", "crypto", "garbled"}]
           S == <<Fallible("tls config", "tls"), Handshake>>
<1>1. /\ {"start", "address", "connected", "secured", "complete"} \subseteq Levels
      /\ "deadline" \in Limits /\ {"refused", "crypto", "garbled"} \in SUBSET Causes
  BY DEF Levels, Limits, Causes
<1>2. Moves(m, t, A, "secured", "secured")
  BY <1>1, SendingMoves
<1>3. Moves(m, t, B, "secured", "secured")
  BY <1>1, SendingMoves
<1>4. Moves(m, t, E, "secured", "complete")
  BY <1>1, BodyMoves
<1>5. NativeRequest = <<A, B, E>> /\ run_native_https = S \o NativeRequest
  BY DEF NativeRequest, run_native_https
<1>6. Path(m, t, S, "connected", "secured")
  BY SessionPath
<1> HIDE DEF A, B, E, S
<1>7. Path(m, t, NativeRequest, "secured", "complete")
  BY <1>1, <1>2, <1>3, <1>4, <1>5, PathThree
<1>8. Path(m, t, run_native_https, "connected", "complete")
  BY <1>5, <1>6, <1>7, PathConcat
<1> DEFINE X == IF t.https THEN run_native_https ELSE NativeRequest
<1>9. Path(m, t, X, Reaches(t), "complete")
  BY <1>7, <1>8 DEF Reaches
<1>10. run_native_probe(t) = AddressStages(t, t.only) \o <<Connect>> \o X
  BY DEF run_native_probe
<1> HIDE DEF X
<1>11. Seen(m, t, t)
  BY DEF Seen
<1>12. Path(m, t, <<Connect>>, "address", Reaches(t))
  BY <1>11, ConnectPath
<1>13. Path(m, t, AddressStages(t, t.only) \o <<Connect>>, "start", Reaches(t))
  BY <1>12, AddressPath, PathConcat
<1> QED BY <1>9, <1>10, <1>13, PathConcat

LEMMA DnsPath == ASSUME NEW m, NEW t PROVE Path(m, t, run_dns_probe(t), "start", "address")
<1>1. {"start", "address"} \subseteq Levels /\ resolve_detailed(t) \in BOOLEAN
  BY DEF Levels, resolve_detailed
<1> QED BY <1>1, LookupMoves, PathOne DEF run_dns_probe


LEMMA CurlPath ==
  ASSUME NEW m, m = "curl", NEW t
  PROVE  Path(m, t, run_curl_probe(t), "start", "curled")
<1> DEFINE f == error_category_for_exit
           A == Fallible("spawn", "config")
           B == Stage("response", {}, "deadline", f)
           E == [Stage("body", curl_results(t), "ignored", <<>>) EXCEPT !.soft = {"refused", "crypto", "garbled"}]
<1>1. /\ {"start", "curled"} \subseteq Levels /\ {"deadline", "ignored"} \subseteq Limits
      /\ {"refused", "crypto", "garbled"} \in SUBSET Causes /\ {} \in SUBSET Phases
      /\ curl_results(t) \in SUBSET Phases /\ {"tcp", "http"} \subseteq curl_results(t)
      /\ "echo" \notin curl_results(t) /\ {"response", "body"} \subseteq Names
  BY DEF Levels, Limits, Causes, Names, Phases, curl_results
<1>2. Moves(m, t, A, "start", "start")
  BY <1>1, FallibleMoves
<1>3. Moves(m, t, B, "start", "start")
  <2>1. f \in FailMaps /\ BlamesOf(f) = {"dns", "tls", "http"}
    BY Blames DEF FailMaps
  <2> HIDE DEF f
  <2>2. B \in StageSet
    BY <1>1, <2>1, StageTyped
  <2>3. B.at = "response" /\ B.gives = {} /\ B.fails = f /\ B.leg = "none"
    BY StageFields
  <2> HIDE DEF B
  <2>4. \A G, C : Level(m, t, "start", G, C) => \A e \in BlamesOf(B.fails) : Blamed(m, t, e, C)
    BY <2>1, <2>3 DEF Level, Blamed
  <2>5. B.at \in Names \ {"dns", "tcp", "tls", "quic", "body", "forget", "echo"}
    BY <1>1, <2>3
  <2>6. Moves(m, t, B, "start", "start")
    BY <1>1, <2>2, <2>3, <2>4, <2>5, Passes
  <2> QED BY <2>6 DEF B, f
<1>4. Moves(m, t, E, "start", "curled")
  <2> DEFINE g == <<>>
             W == curl_results(t)
             V == [Stage("body", W, "ignored", g) EXCEPT !.soft = {"refused", "crypto", "garbled"}]
  <2>1. g \in FailMaps /\ BlamesOf(g) = {}
    BY Blames DEF FailMaps
  <2> HIDE DEF g, W
  <2>2. W \in SUBSET Phases /\ {"tcp", "http"} \subseteq W /\ "echo" \notin W
    BY <1>1 DEF W
  <2>3. V \in StageSet
    BY <1>1, <2>1, <2>2, StageTyped
  <2>4. V.at = "body" /\ V.gives = W /\ V.fails = g /\ V.leg = "none"
    BY StageFields
  <2> HIDE DEF V
  <2>5. ASSUME NEW G, NEW C, Level(m, t, "start", G, C)
        PROVE  Level(m, t, "curled", HeldAfter(V, G), C \cup {V.at})
    <3>1. "tcp" \in HeldAfter(V, G) /\ "body" \in C \cup {V.at}
      BY <2>2, <2>4 DEF HeldAfter
    <3> QED BY <3>1 DEF Level, Reached
  <2>6. Moves(m, t, V, "start", "curled")
    BY <2>1, <2>2, <2>3, <2>4, <2>5 DEF Moves
  <2> QED BY <2>6 DEF V, W, g
<1> HIDE DEF A, B, E
<1>5. Path(m, t, <<A, B, E>>, "start", "curled")
  BY <1>1, <1>2, <1>3, <1>4, PathThree
<1> QED BY <1>5 DEF run_curl_probe, A, B, E, f

LEMMA UpgradeMoves ==
  ASSUME NEW m, m = "websocket", NEW t
  PROVE  Moves(m, t, Stage("upgrade", {"upgrade"}, "deadline", [refused |-> "http", garbled |-> "http"]),
               "secured", "upgraded")
<1> DEFINE f == [refused |-> "http", garbled |-> "http"]
           s == Stage("upgrade", {"upgrade"}, "deadline", f)
<1>1. f \in FailMaps /\ BlamesOf(f) = {"http"}
  BY Blames DEF FailMaps
<1> HIDE DEF f
<1>2. "upgrade" \in Names /\ {"upgrade"} \in SUBSET Phases /\ "deadline" \in Limits
  BY DEF Names, Phases, Limits
<1>3. s \in StageSet
  BY <1>1, <1>2, StageTyped
<1>4. s.at = "upgrade" /\ s.gives = {"upgrade"} /\ s.fails = f /\ s.leg = "none"
  BY StageFields
<1> HIDE DEF s
<1>5. ASSUME NEW G, NEW C, Level(m, t, "secured", G, C)
      PROVE  /\ \A e \in BlamesOf(s.fails) : Blamed(m, t, e, C)
             /\ Level(m, t, "upgraded", HeldAfter(s, G), C \cup {s.at})
  BY <1>1, <1>4, <1>5 DEF Level, Reached, HeldAfter, Stands, Blamed
<1>6. Moves(m, t, s, "secured", "upgraded")
  BY <1>3, <1>4, <1>5 DEF Moves
<1> QED BY <1>6 DEF s, f

LEMMA EchoPath ==
  ASSUME NEW m, m = "websocket", NEW t
  PROVE  Path(m, t, [k \in 1..Messages |->
                       [Stage("echo", {"echo"}, "ignored", <<>>) EXCEPT !.soft = {"refused", "closed"}]],
              "upgraded", "upgraded")
<1> DEFINE f == <<>>
           s == [Stage("echo", {"echo"}, "ignored", f) EXCEPT !.soft = {"refused", "closed"}]
           X == [k \in 1..Messages |-> s]
<1>1. f \in FailMaps /\ BlamesOf(f) = {}
  BY Blames DEF FailMaps
<1>2. /\ "echo" \in Names /\ {"echo"} \in SUBSET Phases /\ "ignored" \in Limits
      /\ {"refused", "closed"} \in SUBSET Causes /\ "upgraded" \in Levels /\ Messages \in Nat
  BY PayloadAssumption DEF Names, Phases, Limits, Levels, Causes
<1> HIDE DEF f
<1>3. s \in StageSet
  BY <1>1, <1>2, StageTyped
<1>4. s.at = "echo" /\ s.gives = {"echo"} /\ s.fails = f /\ s.leg = "none"
  BY StageFields
<1> HIDE DEF s
<1>5. ASSUME NEW G, NEW C, Level(m, t, "upgraded", G, C)
      PROVE  Level(m, t, "upgraded", HeldAfter(s, G), C \cup {s.at})
  BY <1>4, <1>5 DEF Level, Reached, HeldAfter, Stands
<1>6. Moves(m, t, s, "upgraded", "upgraded")
  BY <1>1, <1>3, <1>4, <1>5 DEF Moves
<1>7. X \in Seq(StageSet) /\ Len(X) = Messages /\ \A i \in 1..Messages : X[i] = s
  BY <1>2, <1>3
<1> DEFINE l == [i \in 1..(Len(X) + 1) |-> "upgraded"]
<1>8. l \in [1..(Len(X) + 1) -> Levels] /\ l[1] = "upgraded" /\ l[Len(X) + 1] = "upgraded"
      /\ \A i \in 1..Len(X) : l[i] = "upgraded" /\ l[i + 1] = "upgraded"
  BY <1>2, <1>7
<1> HIDE DEF X, l
<1>9. \A i \in 1..Len(X) : Moves(m, t, X[i], l[i], l[i + 1])
  BY <1>6, <1>7, <1>8
<1>10. Path(m, t, X, "upgraded", "upgraded")
  BY <1>7, <1>8, <1>9 DEF Path
<1> QED BY <1>10 DEF X, s, f

LEMMA WebSocketPath ==
  ASSUME NEW m, m = "websocket", NEW t
  PROVE  Path(m, t, run_websocket_probe(t), "start", "upgraded")
<1>1. {"secured", "upgraded"} \subseteq Levels
  BY DEF Levels
<1>2. Path(m, t, <<Stage("upgrade", {"upgrade"}, "deadline", [refused |-> "http", garbled |-> "http"])>>,
           "secured", "upgraded")
  BY <1>1, UpgradeMoves, PathOne
<1>3. Path(m, t, ws_session, "secured", "upgraded")
  BY <1>2, EchoPath, PathConcat DEF ws_session
<1>4. Path(m, t, WssStages(t), Reaches(t), "secured")
  BY TlsPath DEF WssStages, TlsStages
<1>5. Seen(m, t, t)
  BY DEF Seen
<1>6. Path(m, t, <<Connect>>, "address", Reaches(t))
  BY <1>5, ConnectPath
<1>7. Path(m, t, AddressStages(t, t.only) \o <<Connect>>, "start", Reaches(t))
  BY <1>6, AddressPath, PathConcat
<1>8. Path(m, t, AddressStages(t, t.only) \o <<Connect>> \o WssStages(t), "start", "secured")
  BY <1>4, <1>7, PathConcat
<1>9. Path(m, t, AddressStages(t, t.only) \o <<Connect>> \o WssStages(t) \o ws_session, "start", "upgraded")
  BY <1>3, <1>8, PathConcat
<1> QED BY <1>9 DEF run_websocket_probe


\* Whatever level the stages of a prober end at, its attempt can be built.
LEMMA FinalLevels ==
  ASSUME NEW m \in StreamModes, NEW t
  PROVE  /\ Final(m, t, "complete") /\ Final(m, t, "upgraded") /\ Final(m, t, "curled")
         /\ Final(m, t, "quic")
         /\ m \in {"tcp", "tls", "tlsresume"} => Final(m, t, "secured") /\ Final(m, t, "connected")
         /\ m = "dns" => Final(m, t, "address")
<1>1. Final(m, t, "complete")
  BY DEF Final, Level
<1>2. Final(m, t, "upgraded")
  BY DEF Final, Level
<1>3. Final(m, t, "curled")
  BY DEF Final, Level
<1>4. Final(m, t, "quic")
  BY DEF Final, Level
<1>5. m \in {"tcp", "tls", "tlsresume"} => Final(m, t, "secured") /\ Final(m, t, "connected")
  BY DEF Final, Level
<1>6. m = "dns" => Final(m, t, "address")
  BY DEF Final, Level, Bare
<1> QED BY <1>1, <1>2, <1>3, <1>4, <1>5, <1>6

LEMMA StagesLead ==
  ASSUME NEW m \in StreamModes \ {"dualstack"}, NEW t \in Targets
  PROVE  \E K \in Levels : Path(m, t, Stages(m, t), "start", K) /\ Final(m, t, K)
<1>1. {"start", "address", "connected", "secured", "quic", "curled", "upgraded", "complete"} \subseteq Levels
  BY DEF Levels
<1>2. t.https \in BOOLEAN
  BY TargetAssumption
<1>3. CASE m \in Quic
  <2>1. Stages(m, t) = run_http3_request_probe(m, t)
    BY <1>3 DEF Stages, Quic
  <2> QED BY <1>1, <1>3, <2>1, H3Path, FinalLevels
<1>4. CASE m = "tls"
  <2>1. Stages(m, t) = run_tls_probe(t)
    BY <1>4 DEF Stages
  <2> QED BY <1>1, <1>4, <2>1, TlsProbePath, FinalLevels
<1>5. CASE m = "tlsresume"
  <2>1. Stages(m, t) = run_tls_resumption_probe(t)
    BY <1>5 DEF Stages
  <2> QED BY <1>1, <1>2, <1>5, <2>1, ResumptionPath, FinalLevels
<1>6. CASE m = "native"
  <2>1. Stages(m, t) = run_native_probe(t)
    BY <1>6 DEF Stages
  <2> QED BY <1>1, <2>1, NativePath, FinalLevels
<1>7. CASE m = "curl"
  <2>1. Stages(m, t) = run_curl_probe(t)
    BY <1>7 DEF Stages
  <2> QED BY <1>1, <1>7, <2>1, CurlPath, FinalLevels
<1>8. CASE m = "websocket"
  <2>1. Stages(m, t) = run_websocket_probe(t)
    BY <1>8 DEF Stages
  <2> QED BY <1>1, <1>8, <2>1, WebSocketPath, FinalLevels
<1>9. CASE m = "dns"
  <2>1. Stages(m, t) = run_dns_probe(t)
    BY <1>9 DEF Stages
  <2> QED BY <1>1, <1>9, <2>1, DnsPath, FinalLevels
<1>10. CASE m \in {"download1", "upload1"}
  <2> DEFINE u == [t EXCEPT !.https = FALSE]
  <2>1. Stages(m, t) = run_http_or_tcp(m, u, t.only)
    BY <1>10 DEF Stages
  <2>2. ~u.https
    BY TargetAssumption
  <2> HIDE DEF u
  <2>3. Seen(m, t, u) /\ m # "tcp"
    BY <1>10, <2>2 DEF Seen
  <2>4. Path(m, t, run_http_or_tcp(m, u, t.only), "start", "complete")
    BY <2>3, HttpPath
  <2> QED BY <1>1, <2>1, <2>4, FinalLevels
<1>11. CASE m \notin Quic \cup {"tls", "tlsresume", "native", "curl", "websocket", "dns", "download1", "upload1"}
  <2>1. Stages(m, t) = run_http_or_tcp(m, t, t.only)
    BY <1>11 DEF Stages, Quic
  <2>2. Seen(m, t, t)
    BY DEF Seen
  <2>3. Path(m, t, Stages(m, t), "start", IF m = "tcp" THEN Reaches(t) ELSE "complete")
    BY <2>1, <2>2, HttpPath
  <2> QED BY <1>1, <2>3, FinalLevels DEF Reaches
<1> QED BY <1>3, <1>4, <1>5, <1>6, <1>7, <1>8, <1>9, <1>10, <1>11

\* The stages of a leg are its own.
LEMMA LegTyped ==
  ASSUME NEW t, NEW f \in Families
  PROVE  run_leg(t, f) \in Seq(StageSet) /\ \A i \in DOMAIN run_leg(t, f) : run_leg(t, f)[i].leg # "none"
<1> DEFINE X == run_http_or_tcp("http1", t, f)
           Y == InLeg(X, f)
<1>1. Seen("http1", t, t)
  BY DEF Seen
<1>2. X \in Seq(StageSet)
  BY <1>1, HttpPath DEF Path
<1> HIDE DEF X
<1>3. Len(X) \in Nat /\ DOMAIN X = 1..Len(X) /\ \A i \in DOMAIN X : X[i] \in StageSet
  BY <1>2
<1>4. \A s \in StageSet : [s EXCEPT !.leg = f] \in StageSet /\ [s EXCEPT !.leg = f].leg = f
  BY DEF StageSet, Families
<1>5. Y = [i \in 1..Len(X) |-> [X[i] EXCEPT !.leg = f]]
  BY <1>3 DEF InLeg
<1> HIDE DEF Y
<1>8. \A i \in 1..Len(X) : Y[i] \in StageSet /\ Y[i].leg = f
  BY <1>3, <1>4, <1>5
<1>9. Y \in [1..Len(X) -> StageSet]
  BY <1>5, <1>8
<1>6. Y \in Seq(StageSet) /\ \A i \in DOMAIN Y : Y[i].leg = f
  BY <1>3, <1>8, <1>9
<1>7. f # "none" /\ <<>> \in Seq(StageSet) /\ DOMAIN <<>> = {}
  BY DEF Families
<1> QED BY <1>6, <1>7 DEF run_leg, X, Y

LEMMA EvidenceInit == Init => EvidenceInv
<1> SUFFICES ASSUME Init PROVE EvidenceInv
  OBVIOUS
<1>1. /\ todo = IF mode \in StreamModes THEN Stages(mode, tgt) ELSE <<>>
      /\ have = {} /\ completed = {} /\ silent = FALSE /\ attempt = NoAttempt
  BY DEF Init, StreamInit
<1>2. mode \in StreamModes => tgt \in Targets
  BY DEF Init, StreamInit
<1>3. EvidenceHonest
  BY <1>1 DEF EvidenceHonest, PhasesReached, BlameHonest, NoAttempt
<1>4. StageInv
  <2> SUFFICES ASSUME mode \in StreamModes \ {"dualstack"}
               PROVE  \E L, K \in Levels :
                        /\ Level(mode, tgt, L, have \ {"echo"}, completed)
                        /\ Path(mode, tgt, todo, L, K) /\ Final(mode, tgt, K)
    BY <1>1 DEF StageInv
  <2>1. PICK K \in Levels : Path(mode, tgt, todo, "start", K) /\ Final(mode, tgt, K)
    BY <1>1, <1>2, StagesLead
  <2>2. Level(mode, tgt, "start", have \ {"echo"}, completed)
    BY <1>1 DEF Level, Reached, Bare
  <2>3. "start" \in Levels
    BY DEF Levels
  <2> QED BY <2>1, <2>2, <2>3
<1>5. LegInv
  <2> SUFFICES ASSUME mode = "dualstack" PROVE LegInv
    BY DEF LegInv
  <2> DEFINE A == Check("host", tgt.host # "none", "config")
             B == Lookup(resolve_detailed(tgt))
             P == <<A, B>>
             Q == run_leg(tgt, "v4")
             R == run_leg(tgt, "v6")
  <2>1. todo = P \o Q \o R
    BY <1>1 DEF Stages, StreamModes, run_dualstack_probe
  <2>2. A \in StageSet /\ A.at = "host" /\ A.leg = "none" /\ BlamesOf(A.fails) \subseteq {"config"}
    BY CheckTyped
  <2>3. B \in StageSet /\ B.at = "dns" /\ B.leg = "none" /\ BlamesOf(B.fails) \subseteq {"dns"}
    BY LookupTyped DEF resolve_detailed
  <2>4. /\ Q \in Seq(StageSet) /\ \A i \in DOMAIN Q : Q[i].leg # "none"
        /\ R \in Seq(StageSet) /\ \A i \in DOMAIN R : R[i].leg # "none"
    BY LegTyped DEF Families
  <2> HIDE DEF A, B, Q, R
  <2>5. P \in Seq(StageSet) /\ Len(P) = 2 /\ P[1] = A /\ P[2] = B
    BY <2>2, <2>3
  <2> HIDE DEF P
  <2>6. /\ P \o Q \in Seq(StageSet) /\ Len(P \o Q) = 2 + Len(Q) /\ Len(Q) \in Nat /\ Len(R) \in Nat
        /\ \A i \in 1..(2 + Len(Q)) : (P \o Q)[i] = IF i <= 2 THEN P[i] ELSE Q[i - 2]
    <3>1. /\ P \o Q \in Seq(StageSet) /\ Len(P \o Q) = Len(P) + Len(Q)
          /\ \A i \in 1..(Len(P) + Len(Q)) : (P \o Q)[i] = IF i <= Len(P) THEN P[i] ELSE Q[i - Len(P)]
      BY <2>4, <2>5, ConcatProperties
    <3> QED BY <2>4, <2>5, <3>1
  <2>7. /\ todo \in Seq(StageSet) /\ Len(todo) = 2 + Len(Q) + Len(R)
        /\ \A i \in 1..(2 + Len(Q) + Len(R)) :
             todo[i] = IF i <= 2 + Len(Q) THEN (P \o Q)[i] ELSE R[i - (2 + Len(Q))]
    <3> DEFINE S == P \o Q
    <3>1. S \in Seq(StageSet)
      BY <2>6
    <3> HIDE DEF S
    <3>2. /\ S \o R \in Seq(StageSet) /\ Len(S \o R) = Len(S) + Len(R)
          /\ \A i \in 1..(Len(S) + Len(R)) : (S \o R)[i] = IF i <= Len(S) THEN S[i] ELSE R[i - Len(S)]
      BY <2>4, <3>1, ConcatProperties
    <3>3. todo = S \o R /\ Len(S) = 2 + Len(Q)
      BY <2>1, <2>6 DEF S
    <3> QED BY <3>2, <3>3 DEF S
  <2>8. ASSUME NEW i \in 1..Len(todo), i > 2 PROVE todo[i].leg # "none"
    <3>1. CASE i <= 2 + Len(Q)
      <4>1. todo[i] = Q[i - 2] /\ i - 2 \in 1..Len(Q)
        BY <2>6, <2>7, <2>8, <3>1
      <4> QED BY <2>4, <4>1
    <3>2. CASE i > 2 + Len(Q)
      <4>1. todo[i] = R[i - (2 + Len(Q))] /\ i - (2 + Len(Q)) \in 1..Len(R)
        BY <2>6, <2>7, <2>8, <3>2
      <4> QED BY <2>4, <4>1
    <3> QED BY <2>6, <3>1, <3>2
  <2>9. todo[1] = A /\ todo[2] = B
    BY <2>5, <2>6, <2>7
  <2>10. ASSUME NEW i \in DOMAIN todo, todo[i].leg = "none"
         PROVE  /\ BlamesOf(todo[i].fails) \subseteq {"config", "dns"}
                /\ "dns" \in BlamesOf(todo[i].fails) => "dns" \notin completed
                /\ \A j \in DOMAIN todo : j < i =>
                     /\ todo[j].leg = "none"
                     /\ "dns" \in BlamesOf(todo[i].fails) => todo[j].at # "dns"
    <3>1. i \in 1..Len(todo) /\ (i = 1 \/ i = 2)
      BY <2>7, <2>8, <2>10
    <3>2. BlamesOf(todo[i].fails) \subseteq {"config", "dns"} /\ "dns" \notin completed
      BY <1>1, <2>2, <2>3, <2>9, <3>1
    <3>3. ASSUME NEW j \in DOMAIN todo, j < i PROVE todo[j].leg = "none" /\ todo[j].at # "dns"
      <4>1. j = 1
        BY <2>7, <3>1, <3>3
      <4> QED BY <2>2, <2>9, <4>1
    <3> QED BY <3>2, <3>3
  <2> QED BY <2>7, <2>10 DEF LegInv
<1>6. WaitInv
  BY <1>1 DEF WaitInv
<1> QED BY <1>3, <1>4, <1>5, <1>6 DEF EvidenceInv


(***************************************************************************)
(* Steps.                                                                  *)
(***************************************************************************)
\* More completed stages are no less known of the connection.
LEMMA UpgradedKept ==
  ASSUME NEW m, NEW t, NEW G, NEW C, NEW e, Level(m, t, "upgraded", G, C)
  PROVE  Level(m, t, "upgraded", G, C \cup {e})
BY DEF Level, Reached, Stands

\* A wait begins at a stage to come and is over when the stage is.
LEMMA WaitKept == ASSUME WaitInv, StreamStep PROVE WaitInv'
<1>1. CASE Complete
  BY <1>1 DEF Complete, Advance, WaitInv
<1>2. CASE LateEcho
  BY <1>2 DEF LateEcho, WaitInv
<1>3. CASE Silence
  BY <1>3 DEF Silence, Running, WaitInv
<1>4. CASE Deadline
  BY <1>4 DEF Deadline, Abort, WaitInv
<1>5. CASE GiveUpWaiting
  BY <1>5 DEF GiveUpWaiting, WaitInv
<1>6. CASE Capped
  BY <1>6 DEF Capped, WaitInv
<1>7. CASE Finish
  BY <1>7 DEF Finish, WaitInv
<1>8. CASE \E c \in Causes : Fail(c)
  BY <1>8 DEF Fail, Abort, WaitInv
<1>9. CASE \E c \in Causes : Swallow(c)
  BY <1>9 DEF Swallow, WaitInv
<1> QED BY <1>1, <1>2, <1>3, <1>4, <1>5, <1>6, <1>7, <1>8, <1>9 DEF StreamStep

\* While no attempt is built there is nothing to be honest about.
LEMMA NothingSaid == ASSUME attempt' = NoAttempt PROVE EvidenceHonest'
BY DEF EvidenceHonest, PhasesReached, BlameHonest, NoAttempt

LEMMA Standing ==
  ASSUME StageInv, WaitInv, mode # "dualstack", mode \in StreamModes, todo # <<>>
  PROVE  /\ Now.leg = "none"
         /\ \E L, J, K \in Levels :
              /\ Level(mode, tgt, L, have \ {"echo"}, completed)
              /\ Moves(mode, tgt, Now, L, J)
              /\ Path(mode, tgt, Tail(todo), J, K) /\ Final(mode, tgt, K)
<1>1. PICK L \in Levels, K \in Levels :
        /\ Level(mode, tgt, L, have \ {"echo"}, completed)
        /\ Path(mode, tgt, todo, L, K) /\ Final(mode, tgt, K)
  BY DEF StageInv
<1>2. PICK J \in Levels : Moves(mode, tgt, Head(todo), L, J) /\ Path(mode, tgt, Tail(todo), J, K)
  BY <1>1, PathTail
<1>3. Now.leg = "none"
  BY <1>2 DEF Moves, Now
<1> QED BY <1>1, <1>2, <1>3 DEF Now

\* A stage ends well, or is given up and its results are recorded all the same.
LEMMA Advanced ==
  ASSUME StageInv, WaitInv, mode # "dualstack", mode \in StreamModes, todo # <<>>,
         mode' = mode, tgt' = tgt, todo' = Tail(todo), completed' = completed \cup {Now.at},
         \/ have' = IF Now.at = "forget" THEN have \ {"tcp"} ELSE have \cup Now.gives
         \/ Now.at = "echo" /\ have' = have
         \/ Now.at \notin {"forget", "echo"} /\ have' = have \cup Now.gives
  PROVE  StageInv'
<1>1. PICK L \in Levels, J \in Levels, K \in Levels :
        /\ Level(mode, tgt, L, have \ {"echo"}, completed)
        /\ Moves(mode, tgt, Now, L, J)
        /\ Path(mode, tgt, Tail(todo), J, K) /\ Final(mode, tgt, K)
  BY Standing
<1> DEFINE G == have \ {"echo"}
           s == Now
<1>2. /\ s.at = "echo" <=> "echo" \in s.gives
      /\ s.at = "echo" => L = "upgraded" /\ J = "upgraded"
      /\ Level(mode, tgt, J, HeldAfter(s, G), completed \cup {s.at})
  BY <1>1 DEF Moves
<1>3. Level(mode, tgt, J, have' \ {"echo"}, completed')
  <2>1. CASE Now.at = "echo" /\ have' = have
    <3>1. L = "upgraded" /\ J = "upgraded" /\ have' \ {"echo"} = G
      BY <1>2, <2>1
    <3>2. Level(mode, tgt, "upgraded", G, completed)
      BY <1>1, <3>1
    <3> HIDE DEF G, s
    <3>3. Level(mode, tgt, "upgraded", G, completed \cup {Now.at})
      BY <3>2, UpgradedKept
    <3> QED BY <3>1, <3>3
  <2>2. CASE have' = IF Now.at = "forget" THEN have \ {"tcp"} ELSE have \cup Now.gives
    <3>1. have' \ {"echo"} = HeldAfter(s, G)
      <4>1. CASE Now.at = "forget"
        BY <2>2, <4>1 DEF HeldAfter
      <4>2. CASE Now.at # "forget"
        BY <2>2, <4>2 DEF HeldAfter
      <4> QED BY <4>1, <4>2
    <3> QED BY <1>2, <3>1
  <2>3. CASE Now.at \notin {"forget", "echo"} /\ have' = have \cup Now.gives
    <3>1. have' \ {"echo"} = HeldAfter(s, G)
      BY <2>3 DEF HeldAfter
    <3> QED BY <1>2, <3>1
  <2> QED BY <2>1, <2>2, <2>3
<1>4. "echo" \in have' => "upgrade" \in have' /\ "echo" \in completed'
  <2> HAVE "echo" \in have'
  <2>1. "echo" \in have => "upgrade" \in have /\ "echo" \in completed
    BY DEF StageInv
  <2>2. CASE "echo" \in have
    BY <2>1, <2>2
  <2>3. CASE "echo" \notin have
    <3>1. "echo" \in s.gives /\ s.at = "echo"
      BY <1>2, <2>3
    <3>2. "upgrade" \in have
      BY <1>1, <1>2, <3>1 DEF Level
    <3> QED BY <3>1, <3>2
  <2> QED BY <2>2, <2>3
<1> QED BY <1>1, <1>3, <1>4 DEF StageInv

\* The last echoes are given up when the connection breaks.
LEMMA Broken ==
  ASSUME StageInv, WaitInv, mode # "dualstack", mode \in StreamModes, todo # <<>>, Now.at = "echo",
         mode' = mode, tgt' = tgt, todo' = <<>>, completed' = completed \cup {"echo"}, have' = have
  PROVE  StageInv'
<1>1. PICK L \in Levels, J \in Levels, K \in Levels :
        /\ Level(mode, tgt, L, have \ {"echo"}, completed)
        /\ Moves(mode, tgt, Now, L, J)
        /\ Path(mode, tgt, Tail(todo), J, K) /\ Final(mode, tgt, K)
  BY Standing
<1>2. L = "upgraded"
  BY <1>1 DEF Moves
<1>3. Level(mode, tgt, "upgraded", have' \ {"echo"}, completed')
  BY <1>1, <1>2, UpgradedKept
<1>4. "upgraded" \in Levels
  BY DEF Levels
<1>5. Path(mode, tgt, <<>>, "upgraded", "upgraded") /\ Final(mode, tgt, "upgraded")
  BY <1>4, PathNil, FinalLevels
<1>6. "echo" \in have' => "upgrade" \in have' /\ "echo" \in completed'
  BY DEF StageInv
<1> QED BY <1>3, <1>4, <1>5, <1>6 DEF StageInv

LEMMA LateEchoKept ==
  ASSUME StageInv, WaitInv, mode # "dualstack", LateEcho
  PROVE  StageInv'
<1>1. /\ mode \in StreamModes /\ todo # <<>> /\ Now.at = "echo" /\ "echo" \in completed
      /\ have' = have \cup {"echo"} /\ mode' = mode /\ tgt' = tgt /\ todo' = todo /\ completed' = completed
  BY DEF LateEcho, Running
<1>2. PICK L \in Levels, J \in Levels : Level(mode, tgt, L, have \ {"echo"}, completed) /\ Moves(mode, tgt, Now, L, J)
  BY <1>1, Standing
<1>3. "upgrade" \in have
  BY <1>1, <1>2 DEF Moves, Level
<1>4. have' \ {"echo"} = have \ {"echo"}
  BY <1>1
<1> QED BY <1>1, <1>3, <1>4 DEF StageInv

\* A failure is named after a layer in use, and what it carries over was
\* reached.
LEMMA AbortHonest ==
  ASSUME StageInv, WaitInv, mode # "dualstack", mode \in StreamModes, todo # <<>>,
         NEW cat, cat = "timeout" \/ cat \in BlamesOf(Now.fails), Abort(cat)
  PROVE  StageInv' /\ EvidenceHonest'
<1>1. PICK L \in Levels, J \in Levels, K \in Levels :
        /\ Level(mode, tgt, L, have \ {"echo"}, completed)
        /\ Moves(mode, tgt, Now, L, J)
        /\ Path(mode, tgt, Tail(todo), J, K) /\ Final(mode, tgt, K)
  BY Standing
<1>2. Now.leg = "none"
  BY Standing
<1>3. /\ attempt' = Attempt(FALSE, cat, have \cap Kept(mode))
      /\ mode' = mode /\ tgt' = tgt /\ todo' = todo /\ have' = have /\ completed' = completed
  BY <1>2 DEF Abort
<1>4. StageInv'
  BY <1>3 DEF StageInv
<1> DEFINE r == have \cap Kept(mode)
<1>5. Kept(mode) \subseteq {"dns", "tcp", "tls"} /\ ("tls" \in Kept(mode) => mode = "websocket" /\ "tcp" \in Kept(mode))
  BY DEF Kept
<1>6. Reached(mode, have \ {"echo"}, completed)
  BY <1>1 DEF Level
<1>7. /\ "tcp" \in r => {"tcp", "body"} \cap completed # {}
      /\ "tls" \in r => {"tls", "quic", "body"} \cap completed # {}
      /\ mode \notin Quic /\ r \cap {"tls", "http", "upgrade"} # {} => "tcp" \in r
      /\ "echo" \notin r /\ r \cap {"http", "upgrade", "echo"} = {}
  BY <1>5, <1>6 DEF Reached, Quic
<1>8. cat = "timeout" \/ Blamed(mode, tgt, cat, completed)
  BY <1>1 DEF Moves
<1>9. attempt'.results = r /\ attempt'.error = cat
  BY <1>3 DEF Attempt
<1> HIDE DEF r
<1>10. PhasesReached'
  BY <1>3, <1>7, <1>9 DEF PhasesReached
<1>11. BlameHonest'
  BY <1>3, <1>8, <1>9 DEF BlameHonest, Blamed, Stands, TlsStages
<1> QED BY <1>4, <1>10, <1>11 DEF EvidenceHonest


LEMMA PathEmpty == ASSUME NEW m, NEW t, NEW L, NEW K, Path(m, t, <<>>, L, K) PROVE L = K
BY DEF Path

\* What the attempt of a prober that ran all its stages says.
LEMMA OutcomeSays ==
  ASSUME NEW m \in StreamModes \ {"dualstack"}, NEW r
  PROVE  LET a == Outcome(m, r)
         IN  /\ a.results = have /\ a.error \in {"none", "http", "config", "tls"}
             /\ a.error = "http" => m \notin {"tcp", "dns", "tls", "tlsresume"}
<1>1. ASSUME NEW k
      PROVE  \E ok, e : HttpAttempt(k, r) = Attempt(ok, e, have) /\ e \in {"none", "http", "config"}
  BY DEF HttpAttempt
<1>2. ASSUME NEW ok, NEW e, NEW bytes
      PROVE  /\ verify_download(Attempt(ok, e, have), bytes).results = have
             /\ verify_download(Attempt(ok, e, have), bytes).error \in {e, "http"}
             /\ verify_upload(Attempt(ok, e, have), bytes).results = have
             /\ verify_upload(Attempt(ok, e, have), bytes).error \in {e, "http"}
  BY DEF verify_download, verify_upload, Attempt
<1>3. CASE m \in Downloads
  <2>1. Outcome(m, r) = verify_download(HttpAttempt(m, r), r.body)
    BY <1>3 DEF Outcome, Downloads, Uploads
  <2>2. PICK ok, e : HttpAttempt(m, r) = Attempt(ok, e, have) /\ e \in {"none", "http", "config"}
    BY <1>1
  <2>3. Outcome(m, r).results = have /\ Outcome(m, r).error \in {e, "http"}
    BY <1>2, <2>1, <2>2
  <2> QED BY <1>3, <2>2, <2>3 DEF Downloads
<1>4. CASE m \in Uploads
  <2>1. Outcome(m, r) = verify_upload(HttpAttempt(m, r), r.receipt)
    BY <1>4 DEF Outcome, Downloads, Uploads
  <2>2. PICK ok, e : HttpAttempt(m, r) = Attempt(ok, e, have) /\ e \in {"none", "http", "config"}
    BY <1>1
  <2>3. Outcome(m, r).results = have /\ Outcome(m, r).error \in {e, "http"}
    BY <1>2, <2>1, <2>2
  <2> QED BY <1>4, <2>2, <2>3 DEF Uploads
<1>5. CASE m = "websocket"
  <2>1. Outcome(m, r) = WebSocketAttempt
    BY <1>5 DEF Outcome, Downloads, Uploads
  <2> QED BY <1>5, <2>1 DEF WebSocketAttempt, Attempt
<1>6. CASE m = "tlsresume"
  <2>1. Outcome(m, r) = TlsResumeAttempt(r)
    BY <1>6 DEF Outcome, Downloads, Uploads
  <2> QED BY <2>1 DEF TlsResumeAttempt, Attempt
<1>7. CASE m \in {"tcp", "dns", "tls"}
  <2>1. Outcome(m, r) = Attempt(TRUE, "none", have)
    BY <1>7 DEF Outcome, Downloads, Uploads
  <2> QED BY <2>1 DEF Attempt
<1>8. CASE m \notin Downloads \cup Uploads \cup {"websocket", "tlsresume", "tcp", "dns", "tls"}
  <2>1. Outcome(m, r) = HttpAttempt(m, r)
    BY <1>8 DEF Outcome
  <2>2. PICK ok, e : HttpAttempt(m, r) = Attempt(ok, e, have) /\ e \in {"none", "http", "config"}
    BY <1>1
  <2>3. Outcome(m, r).results = have /\ Outcome(m, r).error = e
    BY <2>1, <2>2 DEF Attempt
  <2> QED BY <1>8, <2>2, <2>3
<1> QED BY <1>3, <1>4, <1>5, <1>6, <1>7, <1>8

LEMMA FinishHonest ==
  ASSUME StageInv, mode # "dualstack", Finish
  PROVE  StageInv' /\ EvidenceHonest'
<1>1. /\ mode \in StreamModes /\ todo = <<>> /\ attempt' = Outcome(mode, resp)
      /\ mode' = mode /\ tgt' = tgt /\ todo' = todo /\ have' = have /\ completed' = completed
  BY DEF Finish, Running
<1>2. StageInv'
  BY <1>1 DEF StageInv
<1>3. PICK L \in Levels, K \in Levels :
        /\ Level(mode, tgt, L, have \ {"echo"}, completed)
        /\ Path(mode, tgt, todo, L, K) /\ Final(mode, tgt, K)
  BY <1>1 DEF StageInv
<1>4. L = K
  BY <1>1, <1>3, PathEmpty
<1>5. /\ mode \notin Quic /\ (have \ {"echo"}) \cap {"tls", "http", "upgrade"} # {} => "tcp" \in have \ {"echo"}
      /\ mode \notin Quic \cup {"curl", "dns", "tcp", "tls", "tlsresume"} => Stands(mode, tgt, completed)
  BY <1>3, <1>4 DEF Final
<1>6. Reached(mode, have \ {"echo"}, completed)
  BY <1>3 DEF Level
<1>7. "echo" \in have => "upgrade" \in have /\ "echo" \in completed
  BY <1>1 DEF StageInv
<1>8. /\ attempt'.results = have /\ attempt'.error \in {"none", "http", "config", "tls"}
      /\ attempt'.error = "http" => mode \notin {"tcp", "dns", "tls", "tlsresume"}
  BY <1>1, OutcomeSays
<1>9. /\ "tcp" \in have => {"tcp", "body"} \cap completed # {}
      /\ "tls" \in have => {"tls", "quic", "body"} \cap completed # {}
      /\ mode \notin Quic /\ have \cap {"tls", "http", "upgrade"} # {} => "tcp" \in have
  BY <1>5, <1>6 DEF Reached
<1>10. PhasesReached'
  BY <1>1, <1>7, <1>8, <1>9 DEF PhasesReached
<1>11. BlameHonest'
  BY <1>1, <1>5, <1>8 DEF BlameHonest, Stands, TlsStages
<1> QED BY <1>2, <1>10, <1>11 DEF EvidenceHonest

\* The deadline of a capped diagnostic carries nothing over.
LEMMA CappedHonest == ASSUME StageInv, Capped PROVE StageInv' /\ EvidenceHonest'
<1>1. /\ attempt' = Attempt(FALSE, "timeout", {})
      /\ mode' = mode /\ tgt' = tgt /\ todo' = todo /\ have' = have /\ completed' = completed
  BY DEF Capped
<1>2. attempt'.results = {} /\ attempt'.error = "timeout"
  BY <1>1 DEF Attempt
<1>3. EvidenceHonest'
  BY <1>2 DEF EvidenceHonest, PhasesReached, BlameHonest
<1> QED BY <1>1, <1>3 DEF StageInv

LEMMA EvidenceStep ==
  ASSUME StageInv, WaitInv, mode # "dualstack", StreamStep
  PROVE  StageInv' /\ EvidenceHonest'
<1>1. mode \in StreamModes /\ attempt = NoAttempt
  BY DEF StreamStep, Complete, LateEcho, Silence, Deadline, GiveUpWaiting, Capped, Finish, Fail, Swallow,
         Running
<1>2. CASE Complete
  <2>1. todo # <<>> /\ \E r : Advance(r)
    BY <1>2 DEF Complete
  <2>2. Now.leg = "none"
    BY <1>1, <2>1, Standing
  <2>3. /\ mode' = mode /\ tgt' = tgt /\ todo' = Tail(todo) /\ completed' = completed \cup {Now.at}
        /\ attempt' = NoAttempt
        /\ have' = IF Now.at = "forget" THEN have \ {"tcp"} ELSE have \cup Now.gives
    BY <1>1, <2>1, <2>2 DEF Advance, LastOfLeg
  <2>4. StageInv'
    BY <1>1, <2>1, <2>3, Advanced
  <2> QED BY <2>3, <2>4, NothingSaid
<1>3. CASE LateEcho
  BY <1>1, <1>3, LateEchoKept, NothingSaid DEF LateEcho
<1>4. CASE Silence
  BY <1>1, <1>4, NothingSaid DEF Silence, StageInv
<1>5. CASE Deadline
  BY <1>1, <1>5, AbortHonest DEF Deadline, WaitInv
<1>6. CASE GiveUpWaiting
  <2>1. todo # <<>> /\ Now.limit = "ignored"
    BY <1>6 DEF GiveUpWaiting, WaitInv
  <2>2. Now.at # "forget"
    BY <1>1, <2>1, Standing DEF Moves
  <2>3. /\ mode' = mode /\ tgt' = tgt /\ todo' = Tail(todo) /\ completed' = completed \cup {Now.at}
        /\ attempt' = NoAttempt
        /\ \/ Now.at = "echo" /\ have' = have
           \/ Now.at \notin {"forget", "echo"} /\ have' = have \cup Now.gives
    BY <1>1, <1>6, <2>2 DEF GiveUpWaiting
  <2>4. StageInv'
    BY <1>1, <2>1, <2>3, Advanced
  <2> QED BY <2>3, <2>4, NothingSaid
<1>7. CASE Capped
  BY <1>7, CappedHonest
<1>8. CASE Finish
  BY <1>8, FinishHonest
<1>9. ASSUME NEW c \in Causes, Fail(c) PROVE StageInv' /\ EvidenceHonest'
  <2>1. todo # <<>> /\ Now.fails[c] \in BlamesOf(Now.fails) /\ Abort(Now.fails[c])
    BY <1>9 DEF Fail, BlamesOf
  <2> QED BY <1>1, <2>1, AbortHonest
<1>10. ASSUME NEW c \in Causes, Swallow(c) PROVE StageInv' /\ EvidenceHonest'
  <2>1. /\ todo # <<>> /\ c \in Now.soft /\ mode' = mode /\ tgt' = tgt /\ attempt' = NoAttempt
        /\ completed' = completed \cup {Now.at}
        /\ have' = IF Now.at = "echo" THEN have ELSE have \cup Now.gives
        /\ todo' = IF Now.at = "echo" THEN <<>> ELSE Tail(todo)
    BY <1>1, <1>10 DEF Swallow
  <2>2. Now.at # "forget"
    BY <1>1, <2>1, Standing DEF Moves
  <2>3. CASE Now.at = "echo"
    BY <1>1, <2>1, <2>3, Broken, NothingSaid
  <2>4. CASE Now.at # "echo"
    <3>1. Now.at \notin {"forget", "echo"} /\ have' = have \cup Now.gives /\ todo' = Tail(todo)
      BY <2>1, <2>2, <2>4
    <3>2. StageInv'
      BY <1>1, <2>1, <3>1, Advanced
    <3> QED BY <2>1, <3>2, NothingSaid
  <2> QED BY <2>3, <2>4
<1> QED BY <1>2, <1>3, <1>4, <1>5, <1>6, <1>7, <1>8, <1>9, <1>10 DEF StreamStep


(***************************************************************************)
(* The pair of legs.                                                       *)
(***************************************************************************)
LEMMA LegAdvanced ==
  ASSUME LegInv, mode' = mode, todo # <<>>, todo' = Tail(todo), completed' = completed \cup {Now.at}
  PROVE  LegInv'
<1> SUFFICES ASSUME mode = "dualstack" PROVE LegInv'
  BY DEF LegInv
<1>1. todo \in Seq(StageSet)
  BY DEF LegInv
<1>2. /\ todo' \in Seq(StageSet) /\ Len(todo) \in Nat /\ Len(todo) > 0 /\ Now = todo[1]
      /\ Len(todo') = Len(todo) - 1 /\ \A i \in 1..Len(todo') : todo'[i] = todo[i + 1]
  BY <1>1, HeadTailProperties, EmptySeq DEF Now
<1>3. ASSUME NEW i \in DOMAIN todo', todo'[i].leg = "none"
      PROVE  /\ BlamesOf(todo'[i].fails) \subseteq {"config", "dns"}
             /\ "dns" \in BlamesOf(todo'[i].fails) => "dns" \notin completed'
             /\ \A j \in DOMAIN todo' : j < i =>
                  /\ todo'[j].leg = "none"
                  /\ "dns" \in BlamesOf(todo'[i].fails) => todo'[j].at # "dns"
  <2>1. i \in 1..Len(todo') /\ i + 1 \in DOMAIN todo /\ 1 \in DOMAIN todo /\ 1 < i + 1 /\ todo'[i] = todo[i + 1]
    BY <1>1, <1>2, <1>3
  <2>2. todo[i + 1].leg = "none"
    BY <1>3, <2>1
  <2>3. /\ BlamesOf(todo[i + 1].fails) \subseteq {"config", "dns"}
        /\ "dns" \in BlamesOf(todo[i + 1].fails) => "dns" \notin completed
        /\ \A j \in DOMAIN todo : j < i + 1 =>
             /\ todo[j].leg = "none"
             /\ "dns" \in BlamesOf(todo[i + 1].fails) => todo[j].at # "dns"
    BY <2>1, <2>2 DEF LegInv
  <2>4. "dns" \in BlamesOf(todo[i + 1].fails) => "dns" \notin completed'
    BY <1>2, <2>1, <2>3
  <2>5. ASSUME NEW j \in DOMAIN todo', j < i
        PROVE  todo'[j].leg = "none" /\ ("dns" \in BlamesOf(todo'[i].fails) => todo'[j].at # "dns")
    <3>1. j \in 1..Len(todo') /\ j + 1 \in DOMAIN todo /\ j + 1 < i + 1 /\ todo'[j] = todo[j + 1]
      BY <1>1, <1>2, <2>1, <2>5
    <3> QED BY <2>1, <2>3, <3>1
  <2> QED BY <2>1, <2>3, <2>4, <2>5
<1> QED BY <1>2, <1>3 DEF LegInv

\* Once a leg is under way, only stages of legs are left.
LEMMA LegLeft ==
  ASSUME LegInv, mode = "dualstack", mode' = mode, todo # <<>>, Now.leg # "none", todo' = AfterLeg
  PROVE  LegInv'
<1>1. todo \in Seq(StageSet)
  BY DEF LegInv
<1>2. Len(todo) \in Nat /\ Len(todo) > 0 /\ DOMAIN todo = 1..Len(todo) /\ Now = todo[1]
  BY <1>1, EmptySeq DEF Now
<1>3. ASSUME NEW i \in DOMAIN todo PROVE todo[i].leg # "none"
  <2>1. CASE i = 1
    BY <1>2, <2>1
  <2>2. CASE i # 1
    <3>1. 1 \in DOMAIN todo /\ 1 < i /\ todo[1].leg # "none"
      BY <1>2, <2>2
    <3> QED BY <3>1 DEF LegInv
  <2> QED BY <2>1, <2>2
<1> DEFINE n == Cardinality({i \in DOMAIN todo : todo[i].leg = Now.leg})
<1>4. n \in Nat
  <2>1. IsFiniteSet(1..Len(todo))
    BY <1>2, FS_Interval
  <2>2. IsFiniteSet({i \in DOMAIN todo : todo[i].leg = Now.leg})
    BY <1>2, <2>1, FS_Subset
  <2> QED BY <2>2, FS_CardinalityType
<1>5. todo' = SubSeq(todo, 1 + n, Len(todo))
  BY DEF AfterLeg
<1> HIDE DEF n
<1>6. todo' \in Seq(StageSet) /\ \A i \in DOMAIN todo' : \E k \in DOMAIN todo : todo'[i] = todo[k]
  <2>1. todo' = [i \in 1..(Len(todo) - n) |-> todo[i + n]]
    BY <1>2, <1>4, <1>5
  <2>2. \A i \in 1..(Len(todo) - n) : i + n \in DOMAIN todo
    BY <1>2, <1>4
  <2>3. Len(todo) - n \in Nat \/ Len(todo) - n < 0
    BY <1>2, <1>4
  <2>4. CASE Len(todo) - n \in Nat
    BY <1>1, <1>2, <2>1, <2>2, <2>4
  <2>5. CASE Len(todo) - n < 0
    <3>1. 1..(Len(todo) - n) = {}
      BY <1>2, <1>4, <2>5
    <3>2. todo' = <<>>
      BY <1>2, <1>4, <1>5, <2>5, SubSeqProperties, EmptySeq
    <3> QED BY <3>2
  <2> QED BY <2>3, <2>4, <2>5
<1>7. \A i \in DOMAIN todo' : todo'[i].leg # "none"
  BY <1>3, <1>6
<1> QED BY <1>6, <1>7 DEF LegInv

LEMMA LegStep ==
  ASSUME LegInv, WaitInv, mode = "dualstack", StreamStep
  PROVE  LegInv' /\ EvidenceHonest'
<1>1. attempt = NoAttempt /\ mode' = mode
  BY StreamKeepsMode
     DEF StreamStep, Complete, LateEcho, Silence, Deadline, GiveUpWaiting, Capped, Finish, Fail, Swallow,
         Running
<1>2. ASSUME todo' = <<>> PROVE LegInv'
  <2>1. <<>> \in Seq(StageSet) /\ DOMAIN <<>> = {}
    OBVIOUS
  <2> QED BY <1>2, <2>1 DEF LegInv
<1>3. ASSUME todo' = todo, completed' = completed PROVE LegInv'
  BY <1>1, <1>3 DEF LegInv
<1>4. ASSUME NEW cat, todo # <<>>, Abort(cat), cat = "timeout" \/ cat \in BlamesOf(Now.fails)
      PROVE  LegInv' /\ EvidenceHonest'
  <2>1. CASE Now.leg # "none"
    <3>1. todo' = AfterLeg /\ attempt' = attempt
      BY <1>4, <2>1 DEF Abort
    <3> QED BY <1>1, <1>4, <2>1, <3>1, LegLeft, NothingSaid
  <2>2. CASE Now.leg = "none"
    <3>1. attempt' = Attempt(FALSE, cat, have \cap Kept(mode)) /\ todo' = todo /\ completed' = completed
      BY <1>4, <2>2 DEF Abort
    <3>2. attempt'.results = {} /\ attempt'.error = cat
      BY <3>1 DEF Kept, Attempt
    <3>3. cat = "timeout" \/ cat = "config" \/ (cat = "dns" /\ "dns" \notin completed)
      <4>1. todo \in Seq(StageSet)
        BY DEF LegInv
      <4>2. 1 \in DOMAIN todo /\ Now = todo[1]
        BY <1>4, <4>1, EmptySeq DEF Now
      <4>3. BlamesOf(Now.fails) \subseteq {"config", "dns"} /\ ("dns" \in BlamesOf(Now.fails) => "dns" \notin completed)
        BY <2>2, <4>2 DEF LegInv
      <4> QED BY <1>4, <4>3
    <3>4. EvidenceHonest'
      BY <3>1, <3>2, <3>3 DEF EvidenceHonest, PhasesReached, BlameHonest
    <3> QED BY <1>3, <3>1, <3>4
  <2> QED BY <2>1, <2>2
<1>5. CASE Complete
  <2>1. todo # <<>> /\ \E r : Advance(r)
    BY <1>5 DEF Complete
  <2>2. todo' = Tail(todo) /\ completed' = completed \cup {Now.at} /\ attempt' = attempt
    BY <2>1 DEF Advance
  <2> QED BY <1>1, <2>1, <2>2, LegAdvanced, NothingSaid
<1>6. CASE LateEcho
  BY <1>1, <1>3, <1>6, NothingSaid DEF LateEcho
<1>7. CASE Silence
  BY <1>1, <1>3, <1>7, NothingSaid DEF Silence
<1>8. CASE Deadline
  BY <1>4, <1>8 DEF Deadline, WaitInv
<1>9. CASE GiveUpWaiting
  <2>1. todo # <<>> /\ todo' = Tail(todo) /\ completed' = completed \cup {Now.at} /\ attempt' = attempt
    BY <1>9 DEF GiveUpWaiting, WaitInv
  <2> QED BY <1>1, <2>1, LegAdvanced, NothingSaid
<1>10. CASE Capped
  <2>1. attempt' = Attempt(FALSE, "timeout", {}) /\ todo' = todo /\ completed' = completed
    BY <1>10 DEF Capped
  <2>2. attempt'.results = {} /\ attempt'.error = "timeout"
    BY <2>1 DEF Attempt
  <2> QED BY <1>3, <2>1, <2>2 DEF EvidenceHonest, PhasesReached, BlameHonest
<1>11. CASE Finish
  <2>1. attempt' = Outcome(mode, resp) /\ todo' = todo /\ completed' = completed
    BY <1>11 DEF Finish
  <2>2. Outcome(mode, resp) = DualStackAttempt
    BY DEF Outcome, Downloads, Uploads
  <2>3. attempt'.results = {"dualstack"} /\ attempt'.error \in {"none", "http"}
    BY <2>1, <2>2 DEF DualStackAttempt, Attempt
  <2>4. EvidenceHonest'
    BY <1>1, <2>3 DEF EvidenceHonest, PhasesReached, BlameHonest
  <2> QED BY <1>3, <2>1, <2>4
<1>12. ASSUME NEW c \in Causes, Fail(c) PROVE LegInv' /\ EvidenceHonest'
  <2>1. todo # <<>> /\ Now.fails[c] \in BlamesOf(Now.fails) /\ Abort(Now.fails[c])
    BY <1>12 DEF Fail, BlamesOf
  <2> QED BY <1>4, <2>1
<1>13. ASSUME NEW c \in Causes, Swallow(c) PROVE LegInv' /\ EvidenceHonest'
  <2>1. /\ (todo' = <<>> \/ todo' = Tail(todo))
        /\ completed' = completed \cup {Now.at} /\ attempt' = attempt
    BY <1>13 DEF Swallow
  <2>2. todo # <<>>
    BY <1>13 DEF Swallow
  <2> QED BY <1>1, <1>2, <2>1, <2>2, LegAdvanced, NothingSaid
<1> QED BY <1>5, <1>6, <1>7, <1>8, <1>9, <1>10, <1>11, <1>12, <1>13 DEF StreamStep


LEMMA EvidenceNext == FamilyInv /\ EvidenceInv /\ [Next]_vars => EvidenceInv'
<1> SUFFICES ASSUME FamilyInv, EvidenceInv, [Next]_vars PROVE EvidenceInv'
  OBVIOUS
<1>1. mode' = mode
  BY FamilyNext
<1>2. CASE UNCHANGED streamVars
  <2>1. UNCHANGED <<mode, tgt, todo, have, completed, silent, attempt>>
    BY <1>1, <1>2 DEF streamVars
  <2>2. EvidenceHonest'
    BY <2>1 DEF EvidenceInv, EvidenceHonest, PhasesReached, BlameHonest, TlsStages
  <2>3. StageInv' /\ LegInv' /\ WaitInv'
    BY <2>1 DEF EvidenceInv, StageInv, LegInv, WaitInv
  <2> QED BY <2>2, <2>3 DEF EvidenceInv
<1>3. CASE StreamStep
  <2>1. WaitInv'
    BY <1>3, WaitKept DEF EvidenceInv
  <2>2. CASE mode = "dualstack"
    <3>1. LegInv' /\ EvidenceHonest'
      BY <1>3, <2>2, LegStep DEF EvidenceInv
    <3>2. StageInv'
      BY <1>1, <2>2 DEF StageInv
    <3> QED BY <2>1, <3>1, <3>2 DEF EvidenceInv
  <2>3. CASE mode # "dualstack"
    <3>1. StageInv' /\ EvidenceHonest'
      BY <1>3, <2>3, EvidenceStep DEF EvidenceInv
    <3>2. LegInv'
      BY <1>1, <2>3 DEF LegInv
    <3> QED BY <2>1, <3>1, <3>2 DEF EvidenceInv
  <2> QED BY <2>2, <2>3
<1> QED BY <1>2, <1>3 DEF Next, Train, Transfer, PathProbe, Stream, Endpoint, Network, vars

\* What an attempt says it measured and what it blames is what happened: no
\* phase that was not reached, no phase without those below it, and no layer
\* blamed that was not in use, for every prober, however it was cut short.
THEOREM EvidenceIsHonest == Spec => []EvidenceHonest
<1>1. Init => FamilyInv /\ EvidenceInv
  BY FamilyInit, EvidenceInit
<1>2. (FamilyInv /\ EvidenceInv) /\ [Next]_vars => (FamilyInv /\ EvidenceInv)'
  BY FamilyNext, EvidenceNext
<1>3. FamilyInv /\ EvidenceInv => EvidenceHonest
  BY DEF EvidenceInv
<1> QED BY <1>1, <1>2, <1>3, PTL DEF Spec

=============================================================================
