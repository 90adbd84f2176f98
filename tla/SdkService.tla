---------------------------- MODULE SdkService --------------------------------
(***************************************************************************)
(* The Rust SDK's LagHound service: the request pipeline (kill switch,     *)
(* rate limits, authentication, concurrency caps, route) and the shared    *)
(* state it goes through.  Requests run on several threads.  The rate      *)
(* limiter and the byte budget are behind a mutex, but read the clock      *)
(* before they lock it; the concurrency caps are two atomics taken and     *)
(* given back one after the other.                                         *)
(*                                                                         *)
(* Bytes are counted in chunks, time in clock ticks.                       *)
(***************************************************************************)
EXTENDS Integers, FiniteSets, FiniteSetsExt, Functions

CONSTANTS
  Requests,       \* 1..n, in the order they arrive
  Kinds,          \* what a request may be, see RequestKind
  Disabled,       \* the values the kill switch may be seen to have
  Toggles,        \* RouteToggles: the optional routes that are enabled
  Tokens,         \* the configured tokens
  GlobalRate,     \* rate_global, [rps, burst]
  IpRate,         \* rate_per_ip
  MaxEntries,     \* per_ip_table_max_entries
  MaxConcurrent,  \* max_concurrent
  MaxTransfers,   \* max_concurrent_transfers
  EchoCap,        \* ECHO_REQUEST_BODY_MAX_BYTES
  DefaultCapBytes,     \* DEFAULT_CAP_BYTES: what a download without ?bytes asks for
  DownloadCapBytes,    \* download_cap_bytes
  UploadCapBytes,      \* upload_cap_bytes
  AbsoluteMax,    \* ABSOLUTE_MAX_BYTES
  Budget,         \* byte_budget, [bytes, window]
  MaxNow          \* bound: the clock

Absent == -1   \* no parameter or header
Invalid == -2  \* one that does not parse
Routes == {"health", "info", "echo", "download", "upload"}

\* A request: its path (outside, the prefix alone, a route or an unknown one),
\* who sends it with which token, whether the method fits the route, the
\* number asked for or declared, and the bytes its body really has.
RequestKind ==
  [route : Routes \union {"outside", "unknown"}, ip : STRING, token : STRING, method : BOOLEAN,
   asked : Nat \union {Absent, Invalid}, body : Nat]

\* Config: refuses to mount without one or two tokens and clamps the caps.
build ==
  /\ Cardinality(Tokens) \in 1..2
  /\ DownloadCapBytes <= AbsoluteMax /\ UploadCapBytes <= AbsoluteMax

\* The host's HTTP layer frames a body by its declared length: it delivers no
\* more than that to the service.
FramedBodies == \A k \in Kinds : k.route = "upload" /\ k.asked >= 0 => k.body <= k.asked

ASSUME SdkAssumption ==
  /\ build
  /\ IsFiniteSet(Requests) /\ Requests = 1..Cardinality(Requests) /\ Disabled \subseteq BOOLEAN
  /\ Kinds \subseteq RequestKind /\ Toggles \subseteq Routes
  /\ \A rate \in {GlobalRate, IpRate} : rate.rps \in Nat /\ rate.burst \in Nat
  /\ MaxEntries \in Nat /\ MaxConcurrent \in Nat /\ MaxTransfers \in Nat
  /\ {EchoCap, DefaultCapBytes, DownloadCapBytes, UploadCapBytes, AbsoluteMax, MaxNow} \subseteq Nat
  /\ Budget.bytes \in Nat /\ Budget.window \in Nat \ {0}
  /\ FramedBodies

VARIABLES
  now,        \* the clock
  global,     \* RateInner.global
  ips,        \* RateInner.ips: the buckets of the addresses in the table
  in_flight,  \* Counters.in_flight
  transfers,  \* Counters.transfers
  used,       \* BudgetInner.used
  opened,     \* BudgetInner.window_start
  req         \* the requests

limits == <<global, ips>>
slots == <<in_flight, transfers>>
budget == <<used, opened>>
sdkvars == <<now, limits, slots, budget, req>>

\* last and last_touched are always set together.
Bucket(tokens, at) == [tokens |-> tokens, last |-> at]
NoRequest == [pc |-> "idle", kind |-> [route |-> "outside"], stamp |-> 0, reserved |-> 0,
              moved |-> 0, answer |-> 0]

SdkInit ==
  /\ now = 0
  /\ global = Bucket(GlobalRate.burst, 0) /\ ips = <<>>
  /\ in_flight = 0 /\ transfers = 0
  /\ used = 0 /\ opened = 0
  /\ req = [r \in Requests |-> NoRequest]

IsTransfer(r) == req[r].kind.route \in {"download", "upload"}
is_authed(r) == req[r].kind.token \in Tokens

Goto(r, pc) == req' = [req EXCEPT ![r].pc = pc, ![r].stamp = 0]
\* The request is over and forgotten.
Over == [NoRequest EXCEPT !.pc = "done"]
Finish(r) == req' = [req EXCEPT ![r] = Over]

(***************************************************************************)
(* Arrival, kill switch and rate limits.                                   *)
(***************************************************************************)
\* The kill switch, read from a cache that may be a second old: nothing is
\* assumed about which of its values a request sees.
is_disabled == Disabled

\* A path outside the prefix goes to the host's own service.  The limiter reads
\* the clock before it takes the lock.
Arrive(r, kind, disabled) ==
  /\ req[r].pc = "idle" /\ \A q \in Requests : q < r => req[q].pc # "idle"
  /\ req' = [req EXCEPT ![r] =
       IF kind.route = "outside" \/ disabled THEN Over
       ELSE [@ EXCEPT !.pc = "rate", !.kind = kind, !.stamp = now]]
  /\ UNCHANGED <<now, limits, slots, budget>>

\* Bucket::take at the time the caller read.
refill(b, limit, at) ==
  LET elapsed == IF at > b.last THEN at - b.last ELSE 0
      rps == IF limit.rps = 0 THEN 1 ELSE limit.rps
      full == b.tokens + elapsed * rps
  IN  Bucket(IF full < limit.burst THEN full ELSE limit.burst, at)
take(b, limit, at) ==
  LET f == refill(b, limit, at)
  IN  IF f.tokens >= 1 THEN [f EXCEPT !.tokens = @ - 1] ELSE f
taken(b, limit, at) == refill(b, limit, at).tokens >= 1

\* The table without its least recently touched entry when a new address
\* finds it full; among equally old ones the map's order decides.
Evictions(ip) ==
  IF ip \in DOMAIN ips \/ Cardinality(DOMAIN ips) < (IF MaxEntries = 0 THEN 1 ELSE MaxEntries) THEN {ips}
  ELSE {Restrict(ips, DOMAIN ips \ {old}) :
          old \in {i \in DOMAIN ips : \A j \in DOMAIN ips : ips[i].last <= ips[j].last}}

\* The token is looked at only after the limits.
Allowed(r) == IF is_authed(r) THEN Goto(r, "acquire") ELSE Finish(r)

\* RateLimiter::check: the global token is spent before the address's bucket
\* is looked at.
RateCheck(r) ==
  LET ip == req[r].kind.ip
      at == req[r].stamp
  IN  /\ req[r].pc = "rate"
      /\ global' = take(global, GlobalRate, at)
      /\ IF taken(global, GlobalRate, at)
         THEN \E table \in Evictions(ip) :
                   LET bucket == IF ip \in DOMAIN table THEN table[ip] ELSE Bucket(IpRate.burst, at)
                   IN  /\ ips' = [i \in DOMAIN table \union {ip} |->
                                    IF i = ip THEN take(bucket, IpRate, at) ELSE table[i]]
                       /\ IF taken(bucket, IpRate, at) THEN Allowed(r) ELSE Finish(r)
         ELSE /\ Finish(r) /\ UNCHANGED ips
      /\ UNCHANGED <<now, slots, budget>>

(***************************************************************************)
(* Concurrency::acquire and the drop of a Permit.                          *)
(***************************************************************************)
Holders == {r \in Requests : req[r].pc \in {"route", "budget", "drain", "stream", "drop"}}

\* The compare-and-swap loop on in_flight, at the iteration that decides.
AcquireSlot(r) ==
  /\ req[r].pc = "acquire"
  /\ IF in_flight >= MaxConcurrent
     THEN Finish(r) /\ UNCHANGED in_flight
     ELSE /\ in_flight' = in_flight + 1
          /\ Goto(r, IF IsTransfer(r) THEN "acquire_transfer" ELSE "route")
  /\ UNCHANGED <<now, limits, transfers, budget>>

\* The loop on transfers, then the roll-back of in_flight in a step of its own.
AcquireTransfer(r) ==
  /\ req[r].pc = "acquire_transfer"
  /\ IF transfers >= MaxTransfers
     THEN Goto(r, "rollback") /\ UNCHANGED transfers
     ELSE Goto(r, "route") /\ transfers' = transfers + 1
  /\ UNCHANGED <<now, limits, in_flight, budget>>

RollbackForgotten(r) ==
  /\ req[r].pc = "rollback"
  /\ Finish(r)
  /\ UNCHANGED <<now, limits, slots, budget>>

Rollback(r) ==
  /\ req[r].pc = "rollback"
  /\ in_flight' = in_flight - 1
  /\ Finish(r)
  /\ UNCHANGED <<now, limits, transfers, budget>>

\* Drop of the Permit: first one counter, then the other.
DropSlot(r) ==
  /\ req[r].pc = "drop"
  /\ in_flight' = in_flight - 1
  /\ IF IsTransfer(r) THEN Goto(r, "drop_transfer") ELSE Finish(r)
  /\ UNCHANGED <<now, limits, transfers, budget>>

DropTransfer(r) ==
  /\ req[r].pc = "drop_transfer"
  /\ transfers' = transfers - 1
  /\ Finish(r)
  /\ UNCHANGED <<now, limits, in_flight, budget>>

(***************************************************************************)
(* The routes.                                                             *)
(***************************************************************************)
Smaller(a, b) == IF a < b THEN a ELSE b

\* The response is built; the permit is dropped when the handler returns.
Respond(r, status) == req' = [req EXCEPT ![r].pc = "drop", ![r].answer = status]

\* Unknown and disabled routes, and the ones that answer from a template.
SimpleRoute(r) ==
  LET k == req[r].kind
  IN  /\ req[r].pc = "route"
      /\ k.route \notin {"echo", "download", "upload"} \/ k.route \notin Toggles
      /\ Respond(r, IF k.route \notin {"health"} \union Toggles THEN 404
                    ELSE IF ~k.method THEN 405 ELSE 200)
      /\ UNCHANGED <<now, limits, slots, budget>>

\* A declared length above the cap is refused before the body is read.
route_echo(r) ==
  LET k == req[r].kind
  IN  /\ req[r].pc = "route" /\ k.route = "echo" /\ "echo" \in Toggles
      /\ IF ~k.method THEN Respond(r, 405)
         ELSE IF k.asked > EchoCap THEN Respond(r, 413)
         ELSE Goto(r, "drain")
      /\ UNCHANGED <<now, limits, slots, budget>>

\* What a transfer reserves of the byte budget.  A download that names no
\* number asks for the default, and the clamped cap (see build) is below the
\* absolute maximum.  An undeclared upload reserves the cap.
download_size(k) == Smaller(IF k.asked = Absent THEN DefaultCapBytes ELSE k.asked, DownloadCapBytes)
upload_reserve_declared(k) == IF k.asked < 0 THEN 0 ELSE Smaller(k.asked, UploadCapBytes)
upload_reserve(k) == IF k.asked < 0 THEN UploadCapBytes ELSE Smaller(k.asked, UploadCapBytes)

\* reserve reads the clock before it takes the lock.
route_download(r) ==
  LET k == req[r].kind
  IN  /\ req[r].pc = "route" /\ k.route = "download" /\ "download" \in Toggles
      /\ IF ~k.method THEN Respond(r, 405)
         ELSE IF k.asked = Invalid THEN Respond(r, 400)
         ELSE req' = [req EXCEPT ![r].pc = "budget", ![r].stamp = now, ![r].reserved = download_size(k)]
      /\ UNCHANGED <<now, limits, slots, budget>>

route_upload(r) ==
  LET k == req[r].kind
  IN  /\ req[r].pc = "route" /\ k.route = "upload" /\ "upload" \in Toggles
      /\ IF ~k.method THEN Respond(r, 405)
         ELSE IF k.asked > UploadCapBytes THEN Respond(r, 413)
         ELSE req' = [req EXCEPT ![r].pc = "budget", ![r].stamp = now, ![r].reserved = upload_reserve(k)]
      /\ UNCHANGED <<now, limits, slots, budget>>

\* ByteBudgetTracker::reserve.  A download's permit moves into its body.
reserve(r) ==
  LET at == req[r].stamp
      expired == at >= opened + Budget.window
      spent == IF expired THEN 0 ELSE used
      fits == spent + req[r].reserved <= Budget.bytes
  IN  /\ req[r].pc = "budget"
      /\ opened' = IF expired THEN at ELSE opened
      /\ used' = IF fits THEN spent + req[r].reserved ELSE spent
      /\ req' = [req EXCEPT ![r] =
           IF ~fits THEN [@ EXCEPT !.pc = "drop", !.stamp = 0, !.reserved = 0, !.answer = 429]
           ELSE IF @.kind.route = "download" THEN [@ EXCEPT !.pc = "stream", !.stamp = 0, !.answer = 200]
           ELSE [@ EXCEPT !.pc = "drain", !.stamp = 0]]
      /\ UNCHANGED <<now, limits, slots>>

(***************************************************************************)
(* Bodies.                                                                 *)
(***************************************************************************)
\* DownloadBody::poll_frame: exactly the reserved bytes, then the body ends
\* and is dropped with its permit.
StreamFrame(r) ==
  /\ req[r].pc = "stream"
  /\ IF req[r].moved < req[r].reserved THEN req' = [req EXCEPT ![r].moved = @ + 1] ELSE Goto(r, "drop")
  /\ UNCHANGED <<now, limits, slots, budget>>

DrainCap(r) == IF req[r].kind.route = "echo" THEN EchoCap ELSE UploadCapBytes

\* A frame of the request body arrives, or the body is over.
drain_capped(r) ==
  /\ req[r].pc = "drain"
  /\ IF req[r].moved < req[r].kind.body
     THEN IF req[r].moved + 1 > DrainCap(r) THEN Respond(r, 413)
          ELSE req' = [req EXCEPT ![r].moved = @ + 1]
     ELSE Respond(r, 200)
  /\ UNCHANGED <<now, limits, slots, budget>>

\* The body breaks off while it is drained.
DrainBreaks(r) ==
  /\ req[r].pc = "drain"
  /\ Respond(r, 500)
  /\ UNCHANGED <<now, limits, slots, budget>>

\* The client goes away: the handler's future or the response body is dropped
\* wherever it stands, the permit with it.
Hangup(r) ==
  /\ req[r].pc \in {"drain", "stream"}
  /\ Respond(r, 0)
  /\ UNCHANGED <<now, limits, slots, budget>>

ClockTick ==
  /\ now < MaxNow
  /\ now' = now + 1
  /\ UNCHANGED <<limits, slots, budget, req>>

SdkStep(r) ==
  \/ \E kind \in Kinds, disabled \in is_disabled : Arrive(r, kind, disabled)
  \/ RateCheck(r)
  \/ AcquireSlot(r) \/ AcquireTransfer(r) \/ Rollback(r) \/ DropSlot(r) \/ DropTransfer(r)
  \/ SimpleRoute(r) \/ route_echo(r) \/ route_download(r) \/ route_upload(r) \/ reserve(r)
  \/ StreamFrame(r) \/ drain_capped(r) \/ DrainBreaks(r) \/ Hangup(r)

SdkNext == ClockTick \/ \E r \in Requests : SdkStep(r)

SdkSpec == SdkInit /\ [][SdkNext]_sdkvars

(***************************************************************************)
(* Properties.                                                             *)
(***************************************************************************)
\* The requests whose step into a counter has been taken and not yet undone.
CountedInFlight == Holders \union {r \in Requests : req[r].pc \in {"acquire_transfer", "rollback"}}
CountedTransfers ==
  {r \in Requests : IsTransfer(r) /\ (r \in Holders \/ req[r].pc = "drop_transfer")}

(* Whatever the order in which threads reserve, roll back and release, the
   two atomics count exactly the requests inside: no cap is exceeded, every
   body still moving holds its transfer slot, and nothing leaks. *)
SlotsConserved ==
  /\ in_flight = Cardinality(CountedInFlight) /\ in_flight <= MaxConcurrent
  /\ transfers = Cardinality(CountedTransfers) /\ transfers <= MaxTransfers
  /\ \A r \in Requests : IsTransfer(r) /\ req[r].pc \in {"stream", "drain"} => r \in CountedTransfers

(* No transfer moves more bytes than it reserved, a transfer answered with
   success moved what it says, and no window hands out more than the budget. *)
BudgetHeld ==
  /\ used <= Budget.bytes
  /\ \A r \in Requests : IsTransfer(r) =>
       /\ req[r].moved <= req[r].reserved
       /\ req[r].answer = 200 /\ req[r].pc = "drop" =>
            req[r].moved = IF req[r].kind.route = "upload" THEN req[r].kind.body ELSE req[r].reserved
=============================================================================
