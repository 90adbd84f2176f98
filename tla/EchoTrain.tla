----------------------------- MODULE EchoTrain -------------------------------
(***************************************************************************)
(* The probe trains of networker-tester: the UDP echo train (udp), the     *)
(* ICMP echo train (ping, over ICMP sockets on Unix and over IcmpSendEcho  *)
(* on Windows) and the STAMP train (stamp), with the endpoint's UDP echo   *)
(* server and its stateful STAMP reflector.                                *)
(*                                                                         *)
(* A train sends ProbeCount numbered probes and credits every reply to the *)
(* probe whose number it carries.  Times are abstracted: a window may end  *)
(* at any moment.                                                          *)
(***************************************************************************)
EXTENDS Datagrams

CONSTANTS
  ProbeCount,    \* probes of a train
  MIN_LOSS_PATTERN_PROBES,   \* shortest train whose loss pattern is reported
  StaleSeqs      \* reflector counters an earlier session may have left

ASSUME TrainAssumption == ProbeCount \in Nat \ {0} /\ StaleSeqs \subseteq Nat

VARIABLES
  seq,           \* number of the probe being sent or waited for
  sent,          \* probes whose send succeeded (send_times)
  credited,      \* probe_rtts / replies: None, or the reply's reflector number
  tcp,           \* outcomes of the TCP connects of ping's fallback, in order
  arrived,       \* probes that reached the endpoint
  returned,      \* probes a reply to which was read off the socket
  nextSeq        \* Session.next_seq of the STAMP reflector

train == <<seq, sent, credited, tcp, arrived, returned, nextSeq>>

Seqs == 0..(ProbeCount - 1)
TrainModes == {"udp", "ping", "winping", "stamp"}

NoPattern == [lost_count |-> None]

Credits(c) == {s \in Seqs : c[s] # None}

TrainInit ==
  /\ seq = 0 /\ sent = {} /\ tcp = <<>>
  /\ credited = [s \in Seqs |-> None]
  /\ arrived = {} /\ returned = {}
  /\ nextSeq \in IF mode = "stamp" THEN StaleSeqs ELSE {0}

\* Categories of the errors that end a train before its first probe: name
\* resolution, bind and connect; for ping also the denied, the unsupported and
\* the broken ICMP socket, and a lost worker task.
SetupErrors(m) ==
  IF m \in {"ping", "winping"} THEN {"dns", "config", "other"} ELSE {"udp"}

TrainSetup ==
  /\ pc = "start" /\ mode \in TrainModes
  /\ pc' = "send"
  /\ UNCHANGED <<mode, result, network, train>>

TrainSetupFails ==
  /\ pc = "start" /\ mode \in TrainModes
  /\ pc' = "done"
  /\ \E e \in SetupErrors(mode) : result' = Failed(e)
  /\ UNCHANGED <<mode, network, train>>

(***************************************************************************)
(* The train.  udp and ping wait for a probe whose send succeeded until it *)
(* is credited or its timeout passes; stamp waits one interval whatever    *)
(* happened.                                                               *)
(***************************************************************************)
SendProbe(ok) ==
  /\ pc = "send" /\ mode \in {"udp", "ping", "stamp"} /\ seq < ProbeCount
  /\ IF ok
     THEN /\ sent' = sent \cup {seq}
          /\ toServer' = toServer \cup {[kind |-> "probe", seq |-> seq, copy |-> 0]}
     ELSE UNCHANGED <<sent, toServer>>
  /\ IF ok \/ mode = "stamp"
     THEN pc' = "wait" /\ UNCHANGED seq
     ELSE pc' = "send" /\ seq' = seq + 1
  /\ UNCHANGED <<mode, result, toClient, dups, credited, tcp, arrived, returned, nextSeq>>

\* Mutant: the receiver takes a reply for the current probe's only.
CreditCurrent(c, p) == IF p.seq = seq THEN [c EXCEPT ![seq] = p.rseq] ELSE c

\* A reply is credited to the probe it names, once, if that probe was sent.
Credit(c, p) ==
  IF p.seq \in sent /\ c[p.seq] = None THEN [c EXCEPT ![p.seq] = p.rseq] ELSE c

\* recv_outstanding_echoes and recv_until run until the current probe is
\* credited, recv_replies until every probe is.
WindowFilled(c) ==
  IF mode = "stamp" THEN Credits(c) = Seqs ELSE pc = "wait" /\ c[seq] # None

AfterWindow == IF pc = "wait" THEN pc' = "send" /\ seq' = seq + 1
               ELSE pc' = "tally" /\ UNCHANGED seq

RecvReply(p) ==
  /\ pc \in {"wait", "drain"} /\ mode \in {"udp", "ping", "stamp"}
  /\ p \in toClient
  /\ toClient' = toClient \ {p}
  /\ returned' = returned \cup {p.seq}
  /\ credited' = Credit(credited, p)
  /\ IF WindowFilled(credited') THEN AfterWindow ELSE UNCHANGED <<pc, seq>>
  /\ UNCHANGED <<mode, result, toServer, dups, sent, tcp, arrived, nextSeq>>

\* The deadline passes, or the socket reports an error.
WindowEnds ==
  /\ pc \in {"wait", "drain"} /\ mode \in TrainModes
  /\ AfterWindow
  /\ UNCHANGED <<mode, result, network, sent, credited, tcp, arrived, returned, nextSeq>>

\* After the last probe stamp waits once more, until the last sent probe has
\* had its full timeout.
TrainSent ==
  /\ pc = "send" /\ mode \in TrainModes /\ seq = ProbeCount
  /\ pc' = IF mode = "stamp" /\ Credits(credited) # Seqs /\ sent # {}
           THEN "drain" ELSE "tally"
  /\ UNCHANGED <<mode, result, network, train>>

\* Windows: one synchronous IcmpSendEcho per probe.  A status or a timeout is
\* a lost probe, an error outside IP_STATUS ends the train.
IcmpSendEcho(ok) ==
  /\ pc = "send" /\ mode = "winping" /\ seq < ProbeCount
  /\ credited' = IF ok THEN [credited EXCEPT ![seq] = 0] ELSE credited
  /\ returned' = IF ok THEN returned \cup {seq} ELSE returned
  /\ arrived' = IF ok THEN arrived \cup {seq} ELSE arrived
  /\ sent' = sent \cup {seq} /\ seq' = seq + 1
  /\ UNCHANGED <<probe, network, tcp, nextSeq>>

IcmpSendEchoError ==
  /\ pc = "send" /\ mode = "winping" /\ seq < ProbeCount
  /\ pc' = "done" /\ result' = Failed("other")
  /\ UNCHANGED <<mode, network, train>>

(***************************************************************************)
(* The endpoint.                                                           *)
(***************************************************************************)
\* run_udp_echo (and the peer's ICMP): the datagram goes back as it came.
UdpEcho(p) ==
  /\ mode \in {"udp", "ping"} /\ p \in toServer
  /\ toServer' = toServer \ {p}
  /\ toClient' = toClient \cup {[kind |-> "reply", seq |-> p.seq, rseq |-> 0, copy |-> p.copy]}
  /\ arrived' = arrived \cup {p.seq}
  /\ UNCHANGED <<probe, dups, seq, sent, credited, tcp, returned, nextSeq>>

\* run_stamp_reflector: every packet takes the session's next number.
StampReflect(p) ==
  /\ mode = "stamp" /\ p \in toServer
  /\ toServer' = toServer \ {p}
  /\ toClient' = toClient \cup {[kind |-> "reply", seq |-> p.seq, rseq |-> nextSeq, copy |-> 0]}
  /\ nextSeq' = nextSeq + 1
  /\ arrived' = arrived \cup {p.seq}
  /\ UNCHANGED <<probe, dups, seq, sent, credited, tcp, returned>>

\* sweep_idle_sessions: a session of an earlier train from the same address
\* may be dropped before this train's first packet (60 s idle), not after.
SweepIdleSession ==
  /\ mode = "stamp" /\ arrived = {} /\ nextSeq > 0
  /\ nextSeq' = 0
  /\ UNCHANGED <<probe, network, seq, sent, credited, tcp, arrived, returned>>

(***************************************************************************)
(* Results.                                                                *)
(***************************************************************************)
\* The maximal runs of lost probes, each by its first and last probe.
LossPeriods(lost) ==
  {r \in lost \X lost : /\ r[1] <= r[2] /\ r[1]..r[2] \subseteq lost
                        /\ r[1] - 1 \notin lost /\ r[2] + 1 \notin lost}

\* compute_loss_pattern, without the mean distance: nothing for a short train.
\* The lengths of the runs add up to the pairs of a run and a probe in it.
compute_loss_pattern(c) ==
  LET lost == {s \in Seqs : c[s] = None}
      runs == LossPeriods(lost)
      lengths == {r[2] - r[1] + 1 : r \in runs}
      longest == Max(lengths \cup {0})
  IN  IF ProbeCount < MIN_LOSS_PATTERN_PROBES THEN NoPattern
      ELSE [lost_count |-> Cardinality({p \in runs \X lost : p[2] \in p[1][1]..p[1][2]}),
            loss_burst_count |-> Cardinality(runs),
            loss_max_burst |-> longest,
            classification |->
              CASE runs = {} -> "no-loss"
                [] longest >= 3 -> "bursty"
                [] longest = 2 /\ Cardinality(runs) = 1 -> "single-burst"
                [] OTHER -> "random-like"]

\* aggregate_udp_rtts, but for the times: the probes lost.
aggregate_lost(c) == ProbeCount - Cardinality(Credits(c))

UdpResult ==
  [kind |-> "udp", success |-> Credits(credited) # {},
   success_count |-> Cardinality(Credits(credited)), lost |-> aggregate_lost(credited),
   loss_pattern |-> compute_loss_pattern(credited),
   error |-> IF Credits(credited) = {} THEN "udp" ELSE "none"]

PingResult ==
  [kind |-> "ping", success |-> Credits(credited) # {},
   success_count |-> Cardinality(Credits(credited)), lost |-> aggregate_lost(credited),
   fallback |-> FALSE]

\* Directional loss (RFC 8762): the highest reflector number seen says how
\* many probes reached the reflector.
directional_loss(top, replies) ==
  LET reached == Min({top + 1, ProbeCount})
  IN  [fwd_lost |-> ProbeCount - reached,
       rev_lost |-> IF reached > replies THEN reached - replies ELSE 0]

StampResult ==
  LET got == Credits(credited)
  IN  IF got = {} THEN Failed("udp")
      ELSE [kind |-> "stamp", success |-> TRUE, replies |-> Cardinality(got),
            loss |-> directional_loss(Max({credited[s] : s \in got}), Cardinality(got))]

TrainDone ==
  /\ pc = "tally" /\ mode \in TrainModes
  /\ \/ /\ mode \in {"ping", "winping"} /\ Credits(credited) = {}
        /\ pc' = "fallback" /\ UNCHANGED result
     \/ /\ pc' = "done"
        /\ result' = CASE mode = "udp" -> UdpResult
                       [] mode = "stamp" -> StampResult
                       [] OTHER -> PingResult
  /\ UNCHANGED <<mode, network, train>>

\* ping's labelled fallback, taken when it is configured and no echo came
\* back: as many TCP connects, reported only if one of them succeeded.
TcpRttProbe(ok) ==
  /\ pc = "fallback" /\ Len(tcp) < ProbeCount
  /\ tcp' = Append(tcp, ok)
  /\ UNCHANGED <<probe, network, seq, sent, credited, arrived, returned, nextSeq>>

FallbackDone ==
  /\ pc = "fallback" /\ Len(tcp) = ProbeCount
  /\ pc' = "done"
  /\ LET ok == Cardinality({i \in 1..Len(tcp) : tcp[i]})
     IN  result' = IF ok > 0
                   THEN [kind |-> "ping", success |-> TRUE, success_count |-> ok,
                         lost |-> ProbeCount - ok, fallback |-> TRUE]
                   ELSE PingResult
  /\ UNCHANGED <<mode, network, train>>

TrainStep ==
  \/ TrainSetup \/ TrainSetupFails \/ TrainSent \/ WindowEnds \/ IcmpSendEchoError
  \/ TrainDone \/ FallbackDone
  \/ \E ok \in BOOLEAN : SendProbe(ok) \/ IcmpSendEcho(ok) \/ TcpRttProbe(ok)
  \/ \E p \in toClient : RecvReply(p)

ReflectorStep ==
  SweepIdleSession \/ \E p \in toServer : UdpEcho(p) \/ StampReflect(p)

-----------------------------------------------------------------------------
\* Replies are credited exactly: whatever the network lost, repeated or
\* reordered, the probes counted as answered are those of which a reply was
\* read, and each of them did reach the endpoint (the V12 audit's rule).
CreditsExact ==
  mode \in TrainModes => Credits(credited) = returned /\ returned \subseteq arrived

\* The two loss computations of udp agree.
UdpReconciles ==
  result.kind = "udp" =>
    /\ result.loss_pattern # NoPattern =>
         /\ result.loss_pattern.lost_count = result.lost
         /\ result.loss_pattern.loss_burst_count <= result.success_count + 1
         /\ result.loss_pattern.classification = "no-loss" <=> result.lost = 0
    /\ result.lost + result.success_count = ProbeCount
    /\ result.success <=> result.error = "none"

\* The two directions of stamp agree with the total ("totals always
\* reconcile").
StampReconciles ==
  result.kind = "stamp" =>
    result.loss.fwd_lost + result.loss.rev_lost + result.replies = ProbeCount

\* ping's figures agree, and with where they came from.
PingReconciles ==
  result.kind = "ping" =>
    /\ result.success <=> result.success_count > 0
    /\ result.fallback => returned = {}
    /\ result.lost + result.success_count = ProbeCount

\* The figures of a finished train agree with each other.
TrainReconciles == UdpReconciles /\ StampReconciles /\ PingReconciles

=============================================================================
