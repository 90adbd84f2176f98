----------------------------- MODULE WireProbes ------------------------------
(***************************************************************************)
(* One probe attempt of any mode that is a single exchange with the        *)
(* target: the packet trains, the UDP transfers, the path searches and the *)
(* request-response probers, under dispatch_once.                          *)
(***************************************************************************)
EXTENDS EchoTrain, UdpThroughput, PathSearch, StreamProbes

packet == <<pc, result, network, train, transfer, search>>
vars == <<mode, packet, streamVars>>

\* The family of the mode starts; the others keep their initial state.
Init ==
  /\ mode \in TrainModes \cup TransferModes \cup PathModes \cup StreamModes
  /\ pc = "start" /\ result = NoResult
  /\ toServer = {} /\ toClient = {} /\ dups = 0
  /\ TrainInit /\ TransferInit /\ PathInit /\ StreamInit

Train == TrainStep /\ UNCHANGED <<transfer, search, streamVars>>
Transfer == TransferStep /\ UNCHANGED <<train, search, streamVars>>
PathProbe == PathStep /\ UNCHANGED <<train, transfer, streamVars>>
Stream == StreamStep /\ UNCHANGED packet

Endpoint ==
  \/ ReflectorStep /\ UNCHANGED <<transfer, search, streamVars>>
  \/ ThroughputServerStep /\ UNCHANGED <<train, search, streamVars>>

Network == NetworkStep /\ UNCHANGED <<train, transfer, search, streamVars>>

Ended == IF mode \in StreamModes THEN ~Running ELSE pc = "done" /\ result # NoResult

Next ==
  \/ Train \/ Transfer \/ PathProbe \/ Stream \/ Endpoint \/ Network
  \/ (Ended \/ Stuck) /\ UNCHANGED vars

\* The prober's own steps and its timers always come.  Nothing is assumed of
\* the network and of the endpoint, except that a stream's peer answers, fails
\* or falls silent.
Spec ==
  /\ Init /\ [][Next]_vars
  /\ WF_vars(Train) /\ WF_vars(Transfer) /\ WF_vars(PathProbe) /\ WF_vars(Stream)

-----------------------------------------------------------------------------
\* What a train reports is what happened on the wire, and its figures agree.
TrainHonest == CreditsExact /\ TrainReconciles

\* What the path searches report is true of the path.
PathHonest == MtuHonest /\ TraceHonest

\* A wedged probe cannot hang the run (attempt_cap): every packet probe and
\* every short diagnostic ends with a result, whatever the network loses and
\* wherever the peer falls silent.
ProbesEnd == mode \notin SizedModes \/ mode \in TransferModes ~> Ended

=============================================================================
