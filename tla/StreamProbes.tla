---------------------------- MODULE StreamProbes ----------------------------
(***************************************************************************)
(* The request-response probers: tcp, http1, http2, http3, the sized       *)
(* transfers built on them, tls, tlsresume, native, curl, websocket, dns   *)
(* and dualstack, under dispatch_once.                                     *)
(*                                                                         *)
(* A prober is the sequence of stages it awaits.  A stage says what it     *)
(* records when it completes, what a failure of it is called, and whether  *)
(* a deadline ends the wait for a peer that has gone silent.  The network  *)
(* chooses how every stage ends.                                           *)
(***************************************************************************)
EXTENDS Dispatch

CONSTANTS
  Targets,      \* the targets considered: see tgt below
  Size,         \* the payload of a sized transfer
  Messages      \* WebSocketProbeConfig::message_count

ASSUME PayloadAssumption == Size \in Nat \ {0} /\ Messages \in Nat \ {0}

ASSUME TargetAssumption ==
  Targets \subseteq
    [host : {"none", "name", "literal"}, https : BOOLEAN, dns : BOOLEAN,
     via : SUBSET {"--no-proxy", "--proxy", "NO_PROXY", "HTTP_PROXY", "HTTPS_PROXY", "ALL_PROXY"},
     records : [{"v4", "v6"} -> {"ips", "none", "error"}], only : {"any", "v4", "v6"}]

VARIABLES
  tgt,        \* [host, https, dns, via, records, only]: the URL and RunConfig
  todo,       \* the stages not yet completed
  have,       \* the phase results held in local variables
  completed,  \* history: the stages completed
  resp,       \* [status, body, receipt, resumed]: what the response carried so far
  legs,       \* dualstack's finished legs and whether they succeeded
  silent,     \* the peer has stopped answering the stage being awaited
  attempt     \* the RequestAttempt, or NoAttempt

streamVars == <<tgt, todo, have, completed, resp, legs, silent, attempt>>

-----------------------------------------------------------------------------
(***************************************************************************)
(* Stages.  limit: "deadline" fails the wait, "ignored" ends it as if the  *)
(* stage had completed, "none" waits for ever, "local" never waits.        *)
(* fails maps a cause to the ErrorCategory reported; soft causes are       *)
(* swallowed and the stage counts as complete.                             *)
(***************************************************************************)
Causes == {"bad", "unknown", "refused", "crypto", "garbled", "closed"}

Stage(at, gives, limit, fails) ==
  [at |-> at, gives |-> gives, limit |-> limit, fails |-> fails, ok |-> TRUE,
   soft |-> {}, leg |-> "none"]

\* A check of the input that either holds or fails with category cat.
Check(at, holds, cat) ==
  [Stage(at, {}, "local", IF holds THEN <<>> ELSE [bad |-> cat]) EXCEPT !.ok = holds]

\* Local work that may turn out impossible (a CA bundle, an SNI name).
Fallible(at, cat) == Stage(at, {}, "local", [bad |-> cat])

InLeg(stages, leg) == [i \in DOMAIN stages |-> [stages[i] EXCEPT !.leg = leg]]

(***************************************************************************)
(* Name resolution.  tgt.records says what the resolver answers per family *)
(* ("ips", "none" or "error"); the resolver's own timeouts end every query.*)
(***************************************************************************)
Families == {"v4", "v6"}

\* resolve: the pinned family's own record type, else A before AAAA.
resolve(t, only) ==
  \/ t.host = "literal" /\ (only # "any" => t.records[only] = "ips")
  \/ t.host = "name" /\ only # "any" /\ t.records[only] = "ips"
  \/ t.host = "name" /\ only = "any" /\ \E f \in Families : t.records[f] = "ips"

\* resolve_detailed: both lookups, an error only if all of them fail or none
\* has an address.
resolve_detailed(t) ==
  t.host = "literal" \/ (t.host = "name" /\ \E f \in Families : t.records[f] = "ips")

Lookup(holds) ==
  [Stage("dns", {"dns"}, "local", IF holds THEN <<>> ELSE [unknown |-> "dns"])
     EXCEPT !.ok = holds]

\* Host check, then resolution, or an IP literal when DNS is disabled.
AddressStages(t, only) ==
  <<Check("host", t.host # "none", "config")>>
  \o IF t.dns THEN <<Lookup(resolve(t, only))>>
              ELSE <<Check("literal", t.host = "literal", "config")>>

(***************************************************************************)
(* run_http_or_tcp.                                                        *)
(***************************************************************************)
\* effective_proxy: --no-proxy, then --proxy, then NO_PROXY, then the
\* environment's proxy for the scheme or for all of them.
effective_proxy(t) ==
  /\ "--no-proxy" \notin t.via
  /\ \/ "--proxy" \in t.via
     \/ /\ "NO_PROXY" \notin t.via
        /\ t.via \cap {IF t.https THEN "HTTPS_PROXY" ELSE "HTTP_PROXY", "ALL_PROXY"} # {}

\* Through a proxy it is the proxy that is resolved and connected to.
HttpAddress(t, only) ==
  IF effective_proxy(t) THEN <<Check("host", t.host # "none", "config"), Lookup(TRUE)>>
                        ELSE AddressStages(t, only)

Connect == Stage("tcp", {"tcp"}, "deadline", [refused |-> "tcp"])

connect_via_proxy_tunnel(t) ==
  IF effective_proxy(t) /\ t.https
  THEN <<Stage("tunnel", {}, "deadline", [refused |-> "tcp", garbled |-> "tcp"])>>
  ELSE <<>>

Handshake == Stage("tls", {"tls"}, "deadline", [crypto |-> "tls", refused |-> "tls"])

\* Client configuration, SNI and handshake, for https only.
TlsStages(t) ==
  IF t.https THEN <<Fallible("tls config", "tls"), Handshake>> ELSE <<>>

\* A failure once the connection stands is named by its cause.
classify_request_error == [refused |-> "tcp", crypto |-> "tls", garbled |-> "http"]

\* send_http1, send_http2: only the wait for the response head is bounded.
send_request ==
  <<Stage("handshake", {}, "local", classify_request_error),
    Stage("response", {}, "deadline", classify_request_error)>>

\* collect_response awaits the body without a deadline.
collect_response == <<Stage("body", {"http"}, "none", classify_request_error)>>

run_http_or_tcp(m, t, only) ==
  HttpAddress(t, only) \o <<Connect>> \o connect_via_proxy_tunnel(t)
    \o IF m = "tcp" THEN <<>> ELSE TlsStages(t) \o send_request \o collect_response

(***************************************************************************)
(* run_http3_request_probe.                                                *)
(***************************************************************************)
classify_quic_connection_error == [refused |-> "tcp", crypto |-> "tls", closed |-> "http"]

QuicSetup(t, only) ==
  <<Check("host", t.host # "none", "config"), Fallible("tls config", "tls")>>
  \o (IF t.host = "literal" THEN <<>> ELSE <<Lookup(resolve(t, only))>>)
  \o <<Fallible("endpoint", "config"),
       Stage("quic", {"tls"}, "deadline", classify_quic_connection_error)>>

\* Opening HTTP/3 and pushing the request body have no deadline; a stream
\* error in the response body ends it like the end of the stream.
H3Request(m) ==
  LET upload == m = "upload3"
  IN  <<Stage("h3", {}, "none", [refused |-> "http", garbled |-> "http"]),
        Stage("request", {}, "deadline", [refused |-> "http", garbled |-> "http"])>>
      \o (IF upload THEN <<Stage("send body", {}, "none", [refused |-> "http"])>> ELSE <<>>)
      \o <<Stage("response", {}, "deadline", [refused |-> "http", garbled |-> "http"]),
           [Stage("body", {"http"}, "deadline", <<>>) EXCEPT !.soft = {"refused", "garbled"}]>>

\* The resumption measurement never fails the probe: whatever it could not
\* learn before the deadline stays unknown.
measure_quic_resumption(m) ==
  IF m # "http3" THEN <<>>
  ELSE <<[Stage("resumption", {}, "ignored", <<>>) EXCEPT !.soft = {"refused", "crypto"}]>>

run_http3_request_probe(m, t) ==
  QuicSetup(t, IF m = "http3" THEN "any" ELSE t.only) \o H3Request(m)
    \o measure_quic_resumption(m)

(***************************************************************************)
(* run_tls_probe and run_tls_resumption_probe.                             *)
(***************************************************************************)
run_tls_probe(t) ==
  AddressStages(t, t.only) \o <<Connect, Fallible("tls config", "tls"), Handshake>>

\* One connection of the resumption probe: the response may be anything, and
\* may never come.
run_one_tls_http_request ==
  <<Connect, Fallible("sni", "tls"), Handshake,
    Stage("request", {}, "deadline", [refused |-> "http", bad |-> "config"]),
    [Stage("read", {}, "ignored", <<>>) EXCEPT !.soft = {"refused", "crypto"}]>>

\* The second connection must be a resumed one; if it fails, what the first one
\* measured is not reported.
run_tls_resumption_probe(t) ==
  <<Check("host", t.host # "none", "config"), Check("scheme", t.https, "config")>>
  \o Tail(AddressStages(t, t.only)) \o <<Fallible("tls config", "tls")>>
  \o run_one_tls_http_request \o <<Stage("forget", {}, "local", <<>>)>>
  \o run_one_tls_http_request \o <<Stage("resumed", {}, "local", <<>>)>>

(***************************************************************************)
(* run_native_probe: the platform's TLS; any request error is an HTTP      *)
(* error, and a body that breaks off is recorded as an empty one.          *)
(***************************************************************************)
NativeRequest ==
  <<Stage("handshake", {}, "deadline", [refused |-> "http"]),
    Stage("response", {}, "deadline", [bad |-> "http", refused |-> "http", garbled |-> "http"]),
    [Stage("body", {"http"}, "none", <<>>) EXCEPT !.soft = {"refused", "crypto", "garbled"}]>>

run_native_https == <<Fallible("tls config", "tls"), Handshake>> \o NativeRequest

run_native_probe(t) ==
  AddressStages(t, t.only) \o <<Connect>>
    \o IF t.https THEN run_native_https ELSE NativeRequest

(***************************************************************************)
(* run_curl_probe: the whole request is curl's, under --max-time; its exit *)
(* code names the failure (6 and 7, no address and no connection, alike)   *)
(* unless a status line was already seen.                                  *)
(***************************************************************************)
error_category_for_exit ==
  [unknown |-> "dns", refused |-> "dns", crypto |-> "tls", garbled |-> "http"]

\* The phases curl's write-out times, once there was a response.
curl_results(t) == {"dns", "tcp", "http"} \cup (IF t.https THEN {"tls"} ELSE {})

run_curl_probe(t) ==
  <<Fallible("spawn", "config"),
    Stage("response", {}, "deadline", error_category_for_exit),
    [Stage("body", curl_results(t), "ignored", <<>>)
       EXCEPT !.soft = {"refused", "crypto", "garbled"}]>>

(***************************************************************************)
(* run_websocket_probe and ws_session: after the upgrade, one echo at a    *)
(* time; a lost echo costs its deadline, a broken connection the rest.     *)
(***************************************************************************)
ws_session ==
  <<Stage("upgrade", {"upgrade"}, "deadline", [refused |-> "http", garbled |-> "http"])>>
  \o [k \in 1..Messages |->
        [Stage("echo", {"echo"}, "ignored", <<>>) EXCEPT !.soft = {"refused", "closed"}]]

\* wss negotiates http/1.1 only: the upgrade needs it.
WssStages(t) == IF t.https THEN <<Fallible("tls config", "tls"), Handshake>> ELSE <<>>

run_websocket_probe(t) ==
  AddressStages(t, t.only) \o <<Connect>> \o WssStages(t) \o ws_session

(***************************************************************************)
(* run_dns_probe and run_dualstack_probe: a family-pinned HTTP/1.1 probe   *)
(* per family that has records, one after the other.                       *)
(***************************************************************************)
run_dns_probe(t) == <<Lookup(resolve_detailed(t))>>

run_leg(t, f) ==
  IF t.records[f] = "ips" THEN InLeg(run_http_or_tcp("http1", t, f), f) ELSE <<>>

run_dualstack_probe(t) ==
  <<Check("host", t.host # "none", "config"), Lookup(resolve_detailed(t))>>
  \o run_leg(t, "v4") \o run_leg(t, "v6")

(***************************************************************************)
(* dispatch_once_inner: the prober of a mode.                              *)
(***************************************************************************)
StreamModes ==
  {"tcp", "http1", "http2", "sdkprobe", "http3", "tls", "tlsresume", "native",
   "curl", "websocket", "dns", "dualstack"} \cup (SizedModes \ {"udpdownload", "udpupload"})

Stages(m, t) ==
  CASE m \in {"http3", "download3", "upload3"} -> run_http3_request_probe(m, t)
    [] m = "tls"       -> run_tls_probe(t)
    [] m = "tlsresume" -> run_tls_resumption_probe(t)
    [] m = "native"    -> run_native_probe(t)
    [] m = "curl"      -> run_curl_probe(t)
    [] m = "websocket" -> run_websocket_probe(t)
    [] m = "dns"       -> run_dns_probe(t)
    [] m = "dualstack" -> run_dualstack_probe(t)
    [] m \in {"download1", "upload1"} ->      \* rewrite_to_http
         run_http_or_tcp(m, [t EXCEPT !.https = FALSE], t.only)
    [] OTHER           -> run_http_or_tcp(m, t, t.only)

Downloads == {"download", "download1", "download2", "download3", "webdownload"}
Uploads == {"upload", "upload1", "upload2", "upload3", "webupload"}

-----------------------------------------------------------------------------
(***************************************************************************)
(* Attempts.                                                               *)
(***************************************************************************)
NoAttempt == [success |-> FALSE, error |-> "running", results |-> {}]
Attempt(ok, error, results) == [success |-> ok, error |-> error, results |-> results]

\* Mutant: the TLS result is passed where the TCP result belongs.
KeptSwapped(m) == {"dns", "tls"}

\* What the failure constructors of each prober carry over.
Kept(m) ==
  CASE m \in {"http3", "download3", "upload3", "curl", "dns", "dualstack"} -> {}
    [] m = "websocket" -> {"dns", "tcp", "tls"}
    [] OTHER           -> {"dns", "tcp"}

\* Mutant: a short body passes.
verify_download_short(a, got) ==
  IF a.success /\ got > Size THEN [a EXCEPT !.success = FALSE, !.error = "http"] ELSE a

\* Only a success is verified; the mismatch becomes its error.
verify_download(a, got) ==
  IF a.success /\ got # Size THEN [a EXCEPT !.success = FALSE, !.error = "http"] ELSE a

\* receipt is X-Networker-Received-Bytes, -1 when the server sent none or none
\* that parses: the upload is then not verified.
verify_upload(a, receipt) ==
  IF a.success /\ receipt \notin {-1, Size}
  THEN [a EXCEPT !.success = FALSE, !.error = "http"] ELSE a

\* The attempt of a response: every prober but HTTP/3 fails a 4xx and says so;
\* sdkprobe reads a 404 as a bad token.
HttpAttempt(m, r) ==
  IF m \in {"http3", "download3", "upload3"}
  THEN Attempt(r.status < 500, "none", have)
  ELSE Attempt(r.status < 400,
               IF r.status < 400 THEN "none"
               ELSE IF m = "sdkprobe" /\ r.status = 404 THEN "config" ELSE "http",
               have)

\* One echo is enough; both families must fail; the second handshake decides.
WebSocketAttempt ==
  Attempt("echo" \in have, IF "echo" \in have THEN "none" ELSE "http", have)
DualStackAttempt ==
  LET any == \E l \in legs : l.ok
  IN  Attempt(any, IF any THEN "none" ELSE "http", {"dualstack"})
TlsResumeAttempt(r) == Attempt(r.resumed, IF r.resumed THEN "none" ELSE "tls", have)

\* A probe that ran all its stages.
Outcome(m, r) ==
  CASE m \in Downloads -> verify_download(HttpAttempt(m, r), r.body)
    [] m \in Uploads   -> verify_upload(HttpAttempt(m, r), r.receipt)
    [] m = "websocket" -> WebSocketAttempt
    [] m = "dualstack" -> DualStackAttempt
    [] m = "tlsresume" -> TlsResumeAttempt(r)
    [] m \in {"tcp", "dns", "tls"} -> Attempt(TRUE, "none", have)
    [] OTHER           -> HttpAttempt(m, r)

-----------------------------------------------------------------------------
NoResponse == [status |-> 0, body |-> 0, receipt |-> -1, resumed |-> FALSE]

StreamInit ==
  /\ tgt \in IF mode \in StreamModes THEN Targets ELSE {CHOOSE t \in Targets : TRUE}
  /\ todo = IF mode \in StreamModes THEN Stages(mode, tgt) ELSE <<>>
  /\ have = {} /\ completed = {} /\ legs = {} /\ resp = NoResponse
  /\ silent = FALSE /\ attempt = NoAttempt

Running == mode \in StreamModes /\ attempt = NoAttempt
Now == Head(todo)
LastOfLeg == Now.leg # "none" /\ (Len(todo) = 1 \/ todo[2].leg # Now.leg)

\* A leg's own attempt is folded into the pair when it ends.
EndLeg(ok) == legs' = IF Now.leg = "none" THEN legs ELSE legs \cup {[family |-> Now.leg, ok |-> ok]}

\* The stage ends well, recording r of the response.
Advance(r) ==
  /\ resp' = r
  /\ have' = IF Now.at = "forget" THEN have \ {"tcp"}
             ELSE IF LastOfLeg THEN {} ELSE have \cup Now.gives
  /\ completed' = completed \cup {Now.at}
  /\ todo' = Tail(todo)
  /\ IF LastOfLeg THEN EndLeg(r.status < 400) ELSE UNCHANGED legs
  /\ silent' = FALSE
  /\ UNCHANGED <<mode, tgt, attempt>>

Complete ==
  /\ Running /\ todo # <<>> /\ Now.ok /\ ~silent
  /\ CASE Now.at = "response" ->
            \E s \in {200, 404, 503}, n \in {-1, Size - 1, Size} :
              Advance([resp EXCEPT !.status = s, !.receipt = n])
       [] Now.at = "body" ->
            \E n \in {Size - 1, Size} : Advance([resp EXCEPT !.body = n])
       [] Now.at = "resumed" ->
            \E b \in BOOLEAN : Advance([resp EXCEPT !.resumed = b])
       [] OTHER -> Advance(resp)

\* An earlier message's echo arrives while a later one is awaited.
LateEcho ==
  /\ Running /\ todo # <<>> /\ Now.at = "echo" /\ ~silent /\ "echo" \in completed
  /\ have' = have \cup {"echo"}
  /\ UNCHANGED <<mode, tgt, todo, completed, resp, legs, silent, attempt>>

\* A failure the prober swallows: the body is cut short, the echo is lost.
Swallow(cause) ==
  /\ Running /\ todo # <<>> /\ cause \in Now.soft /\ ~silent
  /\ resp' = [resp EXCEPT !.body = 0]
  /\ have' = IF Now.at = "echo" THEN have ELSE have \cup Now.gives
  /\ completed' = completed \cup {Now.at}
  /\ todo' = IF Now.at = "echo" THEN <<>> ELSE Tail(todo)
  /\ UNCHANGED <<mode, tgt, legs, silent, attempt>>

\* What follows the leg under way, whose stages come first.
AfterLeg ==
  SubSeq(todo, 1 + Cardinality({i \in DOMAIN todo : todo[i].leg = Now.leg}), Len(todo))

\* The rest of a failed leg is skipped; any other failure ends the probe.
Abort(cat) ==
  IF Now.leg # "none"
  THEN /\ todo' = AfterLeg
       /\ EndLeg(FALSE) /\ have' = {} /\ silent' = FALSE
       /\ UNCHANGED <<mode, tgt, completed, resp, attempt>>
  ELSE /\ attempt' = Attempt(FALSE, cat, have \cap Kept(mode))
       /\ silent' = FALSE
       /\ UNCHANGED <<mode, tgt, todo, have, completed, resp, legs>>

Fail(cause) ==
  /\ Running /\ todo # <<>> /\ cause \in DOMAIN Now.fails /\ ~silent
  /\ Abort(Now.fails[cause])

\* The peer stops answering.
Silence ==
  /\ Running /\ todo # <<>> /\ Now.limit # "local" /\ ~silent
  /\ silent' = TRUE
  /\ UNCHANGED <<mode, tgt, todo, have, completed, resp, legs, attempt>>

Deadline ==
  /\ Running /\ silent /\ Now.limit = "deadline"
  /\ Abort("timeout")

\* The deadline passes and the prober goes on with what it has.
GiveUpWaiting ==
  /\ Running /\ silent /\ Now.limit = "ignored"
  /\ silent' = FALSE /\ todo' = Tail(todo)
  /\ have' = IF Now.at = "echo" THEN have ELSE have \cup Now.gives
  /\ completed' = completed \cup {Now.at}
  /\ UNCHANGED <<mode, tgt, resp, legs, attempt>>

\* dispatch_once abandons a short diagnostic at its cap (stalled_attempt).
Capped ==
  /\ Running /\ silent /\ Now.limit = "none" /\ mode \in CappedModes
  /\ attempt' = Attempt(FALSE, "timeout", {})
  /\ UNCHANGED <<mode, tgt, todo, have, completed, resp, legs, silent>>

Finish ==
  /\ Running /\ todo = <<>>
  /\ attempt' = Outcome(mode, resp)
  /\ UNCHANGED <<mode, tgt, todo, have, completed, resp, legs, silent>>

StreamStep ==
  \/ Complete \/ LateEcho \/ Silence \/ Deadline \/ GiveUpWaiting \/ Capped \/ Finish
  \/ \E c \in Causes : Fail(c) \/ Swallow(c)

\* A sized transfer has no cap: it waits for a silent peer as long as that
\* keeps the connection open.
Stuck == Running /\ silent /\ Now.limit = "none" /\ mode \notin CappedModes

-----------------------------------------------------------------------------
(***************************************************************************)
(* Properties.                                                             *)
(***************************************************************************)
Quic == {"http3", "download3", "upload3"}

\* An attempt claims no phase that did not complete, and no phase without the
\* ones below it: TLS and HTTP rest on a connection, an echo on an upgrade,
\* whichever of the failure paths built the attempt.
PhasesReached ==
  LET r == attempt.results
  IN  /\ "tcp" \in r => {"tcp", "body"} \cap completed # {}
      /\ "tls" \in r => {"tls", "quic", "body"} \cap completed # {}
      /\ mode \notin Quic /\ r \cap {"tls", "http", "upgrade"} # {} => "tcp" \in r
      /\ "echo" \in r => "upgrade" \in r /\ "echo" \in completed
      /\ attempt.error = "timeout" => r \cap {"http", "upgrade", "echo"} = {}

\* The error names a layer that was really in use: "dns" only if nothing had
\* been resolved, "tcp" only if no request was complete, "http" over TCP only
\* after the connection (and its TLS session) stood.
BlameHonest ==
  /\ attempt.error = "dns" => "dns" \notin completed
  /\ attempt.error = "tcp" => "body" \notin completed
  /\ attempt.error = "http" /\ mode \notin Quic \cup {"dualstack", "curl"} =>
       "tcp" \in completed /\ (TlsStages(tgt) # <<>> /\ mode \notin {"download1", "upload1"}
                               => "tls" \in completed)

\* What an attempt says it measured, and what it blames, is what happened: both
\* of the above, whichever of the failure constructors built it.
EvidenceHonest == PhasesReached /\ BlameHonest

\* A throughput figure is not reported against the evidence: a successful
\* download received the whole payload, and a successful upload was not
\* contradicted by the server's own count.  The doc of verify_upload asks for
\* more, that an answer without the count fails the upload; its code lets such
\* an upload pass unverified, so the property cannot claim that its bytes
\* arrived.
TransferVerified ==
  attempt.success =>
    /\ mode \in Downloads => resp.body = Size
    /\ mode \in Uploads => resp.receipt \in {-1, Size}

=============================================================================
