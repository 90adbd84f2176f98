----------------------------- MODULE PathSearch ------------------------------
(***************************************************************************)
(* The path probes of networker-tester: path-MTU discovery (pmtud) and the *)
(* TTL scan (path).  Both send one datagram at a time and attribute the    *)
(* feedback they read, an echo or an ICMP error, to the datagram sent      *)
(* last; feedback that comes after its window is late and is read in a     *)
(* later window.                                                           *)
(*                                                                         *)
(* Sizes are IP packet sizes less the header, so the header is 0.          *)
(***************************************************************************)
EXTENDS Datagrams

CONSTANTS
  MinimalSize,   \* the minimal datagram (32 bytes)
  FloorSize,     \* the size every path carries
  CeilSize,      \* the configured ceiling
  Retries,       \* retries_per_size
  MaxTtl,        \* max_ttl of a trace
  MaxLate        \* bound on late answers at a time

ASSUME PathAssumption ==
  /\ {MinimalSize, FloorSize, CeilSize, Retries, MaxTtl, MaxLate} \subseteq Nat
  /\ MinimalSize < FloorSize /\ FloorSize <= CeilSize /\ MaxTtl > 0

VARIABLES
  platform,   \* "linux", "portable" or "windows"
  path,       \* the path: its MTU, length and what answers on it
  kernelMtu,  \* the kernel's estimate for the connected socket
  lo, hi,     \* the search interval; during a trace hi is the TTL
  size,       \* size being classified
  tries,      \* datagrams sent for this size
  confirm,    \* confirm_kind
  seen,       \* evidence: confirmed, wire ICMP, a bound, the least ICMP MTU
  hops,       \* a trace's hops
  late,       \* feedback that missed its window, oldest first
  stale,      \* late feedback was attributed to a datagram it is not about
  dropped     \* a datagram, or the feedback to it, was lost

search == <<platform, path, kernelMtu, lo, hi, size, tries, confirm, seen, hops, late, stale,
            dropped>>

PathModes == {"pmtud", "path"}
NoEvidence == [confirmed |-> FALSE, wire |-> FALSE, bound |-> FALSE, icmp_mtu |-> None]

\* External: the path.  `mtu' is the largest size it carries, `local' the
\* interface's, `icmp' whether routers report what they drop, `dest' what the
\* destination does with a datagram, `length' the TTL that reaches it.
Paths ==
  [mtu : {MinimalSize, FloorSize} \cup (FloorSize + 1)..CeilSize, local : {CeilSize - 1, CeilSize},
   icmp : BOOLEAN, dest : {"echo", "unreach", "silent"}, length : 1..(MaxTtl + 1)]

PathInit ==
  /\ platform \in IF mode = "pmtud" THEN {"linux", "portable", "windows"}
                 ELSE IF mode = "path" THEN {"linux", "portable"} ELSE {"linux"}
  /\ path \in IF mode = "pmtud" THEN {p \in Paths : p.mtu <= p.local /\ p.length = 1}
              ELSE IF mode = "path"
                   THEN {p \in Paths : p.mtu = CeilSize /\ p.local = CeilSize /\ p.dest # "echo"}
              ELSE {[mtu |-> CeilSize, local |-> CeilSize, icmp |-> TRUE, dest |-> "echo", length |-> 1]}
  /\ kernelMtu = path.local
  /\ lo = FloorSize /\ hi = IF mode = "path" THEN 1 ELSE CeilSize
  /\ size = FloorSize /\ tries = 0 /\ confirm = "none" /\ seen = NoEvidence
  /\ hops = <<>> /\ late = <<>> /\ stale = FALSE /\ dropped = FALSE

\* What comes back for a datagram of a size, if nothing is lost: a router's
\* fragmentation-needed with its MTU, or the destination's answer.
Answer(s) ==
  IF s > path.mtu
  THEN IF path.icmp THEN [kind |-> "frag", mtu |-> path.mtu] ELSE [kind |-> "nothing"]
  ELSE IF path.dest = "silent" THEN [kind |-> "nothing"] ELSE [kind |-> path.dest]

Nothing == [kind |-> "nothing"]

\* Resolution, the worker task, bind, connect or a socket option fails.
PathSetupFails ==
  /\ pc = "start" /\ mode \in PathModes
  /\ pc' = "done" /\ \E e \in {"dns", "other"} : result' = Failed(e)
  /\ UNCHANGED <<mode, network, search>>

(***************************************************************************)
(* Feedback.  An answer arrives in its window, late, or never.  Only the   *)
(* error queue is drained before a send (and only on Linux), so a late     *)
(* echo is still there, or on its way, when the next window opens.         *)
(***************************************************************************)
Deliver(answer, f) ==
  \/ f = answer /\ UNCHANGED <<late, stale, dropped>>
  \/ /\ answer # Nothing /\ f = Nothing /\ Len(late) < MaxLate
     /\ late' = Append(late, answer) /\ UNCHANGED <<stale, dropped>>
  \/ answer # Nothing /\ f = Nothing /\ dropped' = TRUE /\ UNCHANGED <<late, stale>>
  \/ /\ late # <<>> /\ f = Head(late)
     /\ late' = IF answer = Nothing THEN Tail(late) ELSE Append(Tail(late), answer)
     /\ stale' = TRUE /\ dropped' = dropped

\* drain_all before a send discards what the error queue holds by then.
DrainLate ==
  /\ pc \in {"floor", "search"} /\ platform = "linux"
  /\ late # <<>> /\ Head(late).kind # "echo"
  /\ late' = Tail(late) /\ dropped' = TRUE
  /\ UNCHANGED <<mode, pc, result, network, platform, path, kernelMtu, lo, hi, size, tries,
                 confirm, seen, hops, stale>>

(***************************************************************************)
(* What each platform lets the probe see.                                  *)
(***************************************************************************)
Fit == [class |-> "fit"]
Silent == [class |-> "silent"]
TooBig(mtu, wire) == [class |-> "toobig", mtu |-> mtu, wire |-> wire]

\* Linux: the error queue tells the ICMP errors apart, with the next-hop MTU.
linux_feedback(f) ==
  CASE f.kind \in {"echo", "unreach"} -> Fit
    [] f.kind = "frag" -> TooBig(f.mtu, TRUE)
    [] OTHER -> Silent

\* macOS: an error surfaces on a receive, without an MTU.
portable_feedback(f) ==
  CASE f.kind \in {"echo", "unreach"} -> Fit
    [] f.kind = "frag" -> TooBig(None, TRUE)
    [] OTHER -> Silent

\* Windows: fragmentation feedback does not reach the socket.
windows_feedback(f) == IF f.kind \in {"echo", "unreach"} THEN Fit ELSE Silent

FeedbackClass(f) ==
  CASE platform = "linux" -> linux_feedback(f)
    [] platform = "portable" -> portable_feedback(f)
    [] OTHER -> windows_feedback(f)

Feedbacks(s) == {Answer(s), Nothing} \cup {late[i] : i \in DOMAIN late}

ConfirmKind(f) == IF f.kind = "echo" THEN "udp-echo" ELSE "port-unreach"

\* discover_blocking: the capability probe at the floor size.
CapabilityProbe(f) ==
  /\ pc = "start" /\ mode = "pmtud"
  /\ Deliver(Answer(FloorSize), f)
  /\ confirm' = IF f.kind \in {"echo", "unreach"} THEN ConfirmKind(f) ELSE confirm
  /\ kernelMtu' = IF f.kind = "frag" THEN Min({kernelMtu, f.mtu}) ELSE kernelMtu
  /\ pc' = "floor"
  /\ UNCHANGED <<mode, result, network, platform, path, lo, hi, size, tries, seen, hops>>

(***************************************************************************)
(* The classifier: what one size told.                                     *)
(***************************************************************************)
\* note: the evidence a class adds.
Note(c) ==
  CASE c.class = "fit" -> [seen EXCEPT !.confirmed = TRUE]
    [] c.class = "silent" -> seen
    [] c.class = "toobig" ->
         [seen EXCEPT !.bound = TRUE, !.wire = @ \/ c.wire,
                      !.icmp_mtu = IF ~c.wire \/ c.mtu = None THEN @
                                   ELSE IF @ = None THEN c.mtu ELSE Min({@, c.mtu})]

\* Mutant: the header is taken off the reported MTU twice.
BoundHeaderTwice(s, c) ==
  IF c.mtu = None THEN Min({hi, s - 1}) ELSE Min({hi, s - 1, c.mtu - 1})

\* The new upper bound: below the size, and the reported MTU if there is one.
Bound(s, c) ==
  IF c.mtu = None THEN Min({hi, s - 1}) ELSE Min({hi, s - 1, c.mtu})

\* search_largest_fit: first the floor and the minimal datagram, then the
\* binary search of the interval.
Classified(c) ==
  /\ seen' = Note(c)
  /\ tries' = 0
  /\ IF c.class = "toobig"
     THEN /\ hi' = Bound(size, c)
          /\ \/ /\ pc = "floor" /\ size = FloorSize
                /\ pc' = "floor" /\ lo' = lo /\ size' = MinimalSize
             \/ /\ pc = "floor" /\ size = MinimalSize
                /\ pc' = "verdict" /\ lo' = None /\ size' = size
             \/ /\ pc = "search" /\ pc' = "search" /\ lo' = lo
                /\ size' = lo + (hi' - lo + 1) \div 2
     ELSE /\ hi' = hi /\ lo' = size /\ pc' = "search"
          /\ size' = size + (hi - size + 1) \div 2

Tries == IF confirm # "none" THEN Retries + 1 ELSE 1

\* The kernel refuses the size at once; Linux tells its estimate.  Not
\* evidence from the wire.
SizeRefused ==
  /\ mode = "pmtud" /\ pc \in {"floor", "search"} /\ (pc = "floor" \/ lo < hi)
  /\ size > kernelMtu
  /\ Classified(TooBig(IF platform = "linux" THEN kernelMtu ELSE None, FALSE))
  /\ UNCHANGED <<mode, result, network, platform, path, kernelMtu, confirm, hops, late, stale,
                 dropped>>

SendFatal ==
  /\ mode = "pmtud" /\ pc \in {"floor", "search"}
  /\ pc' = "done" /\ result' = Failed("other")
  /\ UNCHANGED <<mode, network, search>>

\* A datagram goes out and its window ends with f; after the last try of a
\* path known to answer, silence means too big.
ProbeSize(f) ==
  /\ mode = "pmtud" /\ pc \in {"floor", "search"} /\ (pc = "floor" \/ lo < hi)
  /\ size <= kernelMtu
  /\ f \in Feedbacks(size) /\ Deliver(Answer(size), f)
  /\ kernelMtu' = IF Answer(size).kind = "frag" THEN Min({kernelMtu, Answer(size).mtu})
                  ELSE kernelMtu
  /\ confirm' = IF f.kind \in {"echo", "unreach"} /\ confirm = "none"
                THEN ConfirmKind(f) ELSE confirm
  /\ IF FeedbackClass(f) # Silent THEN Classified(FeedbackClass(f))
     ELSE IF tries + 1 < Tries THEN tries' = tries + 1 /\ UNCHANGED <<pc, lo, hi, size, seen>>
     ELSE Classified(IF confirm # "none" THEN TooBig(None, FALSE) ELSE Silent)
  /\ UNCHANGED <<mode, result, network, platform, path, hops>>

\* The verdict needs delivery confirmed, or fragmentation feedback from the wire.
PmtudVerdict ==
  /\ mode = "pmtud"
  /\ pc = "verdict" \/ (pc = "search" /\ lo >= hi)
  /\ LET known == lo # None /\ (confirm # "none" \/ seen.wire)
     IN  result' = [kind |-> "pmtud", path_mtu |-> IF known THEN lo ELSE None,
                    success |-> known, confirmed |-> confirm # "none", icmp_mtu |-> seen.icmp_mtu,
                    lower_bound_only |-> confirm # "none" /\ lo = CeilSize /\ ~seen.bound
                                         /\ seen.confirmed]
  /\ pc' = "done"
  /\ UNCHANGED <<mode, network, search>>

(***************************************************************************)
(* The TTL scan.  Linux reads every ICMP error off one socket; elsewhere a *)
(* fresh socket per TTL sees the destination's answer only.                *)
(***************************************************************************)
\* External: the path drops a datagram of TTL t at router t, or delivers it.
\* The destination is hop 0.
TtlAnswer(t) ==
  IF t >= path.length
  THEN IF path.dest = "unreach" THEN [kind |-> "reached", from |-> 0] ELSE Nothing
  ELSE IF path.icmp THEN [kind |-> "exceeded", from |-> t] ELSE Nothing

TraceStart ==
  /\ pc = "start" /\ mode = "path"
  /\ pc' = "trace"
  /\ UNCHANGED <<mode, result, network, search>>

ProbeTtl(f) ==
  /\ pc = "trace" /\ platform = "linux" /\ hi <= MaxTtl
  /\ f \in {TtlAnswer(hi), Nothing} \cup {late[i] : i \in DOMAIN late}
  /\ Deliver(TtlAnswer(hi), f)
  /\ hops' = Append(hops, IF f.kind = "nothing" THEN None ELSE f.from)
  /\ hi' = hi + 1
  /\ pc' = IF f.kind = "reached" THEN "reached" ELSE "trace"
  /\ UNCHANGED <<mode, result, network, platform, path, kernelMtu, lo, size, tries, confirm, seen>>

\* Another unreachable from a router: the scan stops there.
ProbeTtlUnreachable ==
  /\ pc = "trace" /\ platform = "linux" /\ hi <= MaxTtl /\ hi < path.length
  /\ hops' = Append(hops, hi) /\ hi' = hi + 1
  /\ pc' = "blocked"
  /\ UNCHANGED <<mode, result, network, platform, path, kernelMtu, lo, size, tries, confirm,
                 seen, late, stale, dropped>>

ProbeTtlPortable(f) ==
  /\ pc = "trace" /\ platform # "linux" /\ hi <= MaxTtl
  /\ f \in {TtlAnswer(hi), Nothing}
  /\ dropped' = (dropped \/ f # TtlAnswer(hi))
  /\ hi' = hi + 1
  /\ pc' = IF f.kind = "reached" THEN "reached" ELSE "trace"
  /\ UNCHANGED <<mode, result, network, platform, path, kernelMtu, lo, size, tries, confirm,
                 seen, hops, late, stale>>

\* The scan ends: at the destination, at a refusal, at the last TTL or at the
\* total budget.  A scan that nothing answered reports no hops, and one TCP
\* connect tells a blocked environment from a blocked path.
TraceDone(tcpReachable) ==
  /\ mode = "path" /\ pc \in {"trace", "reached", "blocked"}
  /\ LET silent == pc # "reached" /\ \A i \in DOMAIN hops : hops[i] = None
         info == pc = "reached" \/ ~silent
     IN  result' = [kind |-> "path", hops |-> IF silent THEN <<>> ELSE hops,
                    reached |-> pc = "reached",
                    hop_count |-> IF pc = "reached" THEN hi - 1 ELSE None,
                    error |-> IF info THEN "none" ELSE IF tcpReachable THEN "config" ELSE "udp"]
  /\ pc' = "done"
  /\ UNCHANGED <<mode, network, search>>

PathStep ==
  \/ PathSetupFails \/ SizeRefused \/ SendFatal \/ DrainLate \/ PmtudVerdict \/ TraceStart
  \/ ProbeTtlUnreachable
  \/ \E f \in Feedbacks(FloorSize) : CapabilityProbe(f)
  \/ \E f \in Feedbacks(size) : ProbeSize(f)
  \/ \E f \in {TtlAnswer(hi), Nothing} \cup {late[i] : i \in DOMAIN late} :
       ProbeTtl(f) \/ ProbeTtlPortable(f)
  \/ \E ok \in BOOLEAN : TraceDone(ok)

-----------------------------------------------------------------------------
\* The discovered MTU is one the path carries, and the largest such when no
\* datagram was lost: unless a late answer was taken for that of a larger
\* datagram, or, without delivery confirmation, a router's report was lost.
MtuHonest ==
  result.kind = "pmtud" /\ result.success /\ ~stale =>
    /\ result.confirmed \/ (~dropped /\ late = <<>> /\ path.icmp) => result.path_mtu <= path.mtu
    /\ ~dropped /\ late = <<>> /\ result.confirmed => result.path_mtu = path.mtu
    /\ result.lower_bound_only => result.path_mtu = CeilSize /\ path.mtu = CeilSize

\* A trace without misattributed answers names each router at its own TTL and
\* counts the hops right.
TraceHonest ==
  result.kind = "path" /\ ~stale =>
    /\ \A i \in DOMAIN result.hops : result.hops[i] \in {None, IF i = result.hop_count THEN 0 ELSE i}
    /\ result.reached /\ ~dropped /\ late = <<>> => result.hop_count = path.length
    /\ result.hop_count # None => result.hop_count >= path.length

=============================================================================
