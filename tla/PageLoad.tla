------------------------------ MODULE PageLoad -------------------------------
(***************************************************************************)
(* The synthetic page loads: pageload (HTTP/1.1 over up to MaxConns        *)
(* keep-alive connections), pageload2 and pageload3 (one multiplexed       *)
(* HTTP/2 or HTTP/3 connection), cold or, after a warm-up load, over the   *)
(* connection the target run shares.                                       *)
(*                                                                         *)
(* The peer answers, refuses, breaks off or goes silent at every wait.     *)
(***************************************************************************)
EXTENDS Dispatch

CONSTANTS
  PageSizes,    \* the numbers of assets a page may have (asset_sizes.len())
  MaxConns,     \* connections of an HTTP/1.1 page load (6 in the code)
  MaxLoads      \* bound: page loads that share a connection

ASSUME PageAssumption ==
  PageSizes \subseteq Nat /\ MaxConns \in Nat \ {0} /\ MaxLoads \in Nat

VARIABLES
  page,      \* [n, https, reuse]: PageLoadConfig and --connection-reuse
  shared,    \* SharedH2Conn / SharedH3Conn is held by the target run
  warm,      \* connection_reused of the load being run
  at,        \* where the task of each connection is
  up,        \* the connection of each task stands at the peer
  silent,    \* connections whose peer has stopped answering
  asset,     \* per asset, [at, ok, drained]: its fetch and what its head said
  asked,     \* history: the requests made for each asset by this load
  opened,    \* history: the connections established by this load
  loads      \* the RequestAttempts returned so far

pageVars == <<page, shared, warm, at, up, silent, asset, asked, opened, loads>>

Conns == 0..(MaxConns - 1)
Assets == 0..(page.n - 1)
Multiplexed == mode # "pageload"

\* k of run_pageload_probe.
Used ==
  IF Multiplexed THEN {0}
  ELSE 0..((IF page.n = 0 THEN 1 ELSE IF page.n < MaxConns THEN page.n ELSE MaxConns) - 1)

\* Assets are dealt to the connections in turn.
conn_of(a) == IF Multiplexed THEN 0 ELSE a % Cardinality(Used)

\* Something is heard of connection c: answers, or its end.
Heard(c) == c \notin silent \/ ~up[c]

\* Loads that share nothing are taken one at a time.
Budget == IF page.reuse /\ Multiplexed THEN MaxLoads ELSE 1

Idle == [c \in Conns |-> "idle"]
Running == at # Idle
Unfetched == [at |-> "queued", ok |-> FALSE, drained |-> FALSE]

PageModes == {"pageload", "pageload2", "pageload3"}

PageInit ==
  /\ page \in IF mode \in PageModes
              THEN [n : PageSizes, https : BOOLEAN, reuse : BOOLEAN]
              ELSE {[n |-> 0, https |-> TRUE, reuse |-> FALSE]}
  /\ shared = FALSE /\ warm = FALSE
  /\ at = Idle /\ up = [c \in Conns |-> FALSE] /\ silent = {}
  /\ asset = [a \in Assets |-> Unfetched]
  /\ asked = [a \in Assets |-> 0] /\ opened = 0 /\ loads = <<>>

-----------------------------------------------------------------------------
(***************************************************************************)
(* The attempt a load returns.                                             *)
(***************************************************************************)
\* History: what the load really got: every asset asked for once, answered with
\* a 2xx, and the number of 2xx bodies that came in whole.
Got ==
  [once |-> \A a \in Assets : asked[a] = 1, ok |-> \A a \in Assets : asset[a].ok,
   whole |-> Cardinality({a \in Assets : asset[a].ok /\ asset[a].drained})]

\* error_attempt_proto: no phase of the load is kept.
Failed(category) ==
  [success |-> FALSE, error |-> category, pageload |-> FALSE, fetched |-> 0, failed |-> 0,
   claimed |-> 0, reused |-> FALSE, opened |-> opened, got |-> Got]

\* asset_fetch_ok over the results an asset fetch produced.
Fetched(a) == asset[a].at = "done" /\ asset[a].ok

\* page_load_error: none only for a page with assets, all of them fetched.
page_load_error(fetched) == IF page.n > 0 /\ fetched = page.n THEN "none" ELSE "http"

\* The page load completed: what the three builders and the two warm ones fill
\* in.  Only HTTP/1.1 refuses success to a page without assets.
Loaded ==
  LET fetched == Cardinality({a \in Assets : Fetched(a)})
  IN  [success |-> (Multiplexed \/ page.n > 0) /\ fetched = page.n,
       error |-> page_load_error(fetched), pageload |-> TRUE,
       fetched |-> fetched, failed |-> page.n - fetched,
       claimed |-> IF warm THEN 0 ELSE Cardinality(Used), reused |-> warm,
       opened |-> opened, got |-> Got]

\* The load returns attempt r, and the warm-up of a run that reuses its
\* connection hands it over if it was established, however the fetch went.
Return(r) ==
  /\ loads' = Append(loads, r)
  /\ at' = Idle
  /\ shared' = (shared \/ (page.reuse /\ Multiplexed /\ loads = <<>> /\ opened = 1))
  /\ up' = [c \in Conns |-> up[c] /\ c = 0 /\ shared']
  /\ silent' = {c \in silent : up'[c]}
  /\ warm' = FALSE /\ opened' = 0
  /\ asset' = [a \in Assets |-> Unfetched]
  /\ asked' = [a \in Assets |-> 0]
  /\ UNCHANGED page

-----------------------------------------------------------------------------
(***************************************************************************)
(* Starting a load.                                                        *)
(***************************************************************************)
\* A load that opens connections of its own starts on them.
Start(m) ==
  /\ mode = m /\ ~Running /\ Len(loads) < Budget /\ ~shared
  /\ at' = [c \in Conns |-> IF c \in Used THEN "connect" ELSE "idle"]
  /\ UNCHANGED <<page, shared, warm, up, silent, asset, asked, opened, loads>>

WarmingUp == page.reuse /\ loads = <<>>

run_pageload_probe == Start("pageload")
run_pageload2_probe == page.https /\ ~WarmingUp /\ Start("pageload2")
run_pageload3_probe == page.https /\ ~WarmingUp /\ Start("pageload3")
warmup_pageload2 == page.https /\ WarmingUp /\ Start("pageload2")
warmup_pageload3 == page.https /\ WarmingUp /\ Start("pageload3")

\* The checks before the first connection fail: the host, https for the
\* multiplexed modes, resolution or a literal address, the TLS configuration.
Refuse ==
  /\ ~Running /\ Len(loads) < Budget /\ ~shared
  /\ \E category \in IF Multiplexed /\ ~page.https THEN {"config"} ELSE {"config", "dns", "tls"} :
       Return(Failed(category))

\* run_pageload2_warm, run_pageload3_warm: straight to the manifest, on the
\* shared connection in whatever state it is.
StartWarm ==
  /\ ~Running /\ Len(loads) < Budget /\ shared
  /\ warm' = TRUE
  /\ at' = [Idle EXCEPT ![0] = "manifest"]
  /\ UNCHANGED <<page, shared, up, silent, asset, asked, opened, loads>>

-----------------------------------------------------------------------------
(***************************************************************************)
(* Connecting: TCP, then TLS and the protocol handshake; or QUIC and the   *)
(* HTTP/3 handshake.                                                       *)
(***************************************************************************)
Established(c) == IF c = 0 THEN "manifest" ELSE "assets"

\* TcpStream::connect; an HTTP/1.1 load is rewritten to http and is ready, a
\* QUIC connection carries TLS already.
Connect(c) ==
  /\ at[c] = "connect" /\ c \notin silent
  /\ at' = [at EXCEPT ![c] = CASE mode = "pageload" -> Established(c)
                               [] mode = "pageload2" -> "tls"
                               [] mode = "pageload3" -> "http"]
  /\ up' = [up EXCEPT ![c] = TRUE]
  /\ opened' = IF Multiplexed THEN opened ELSE opened + 1
  /\ UNCHANGED <<page, shared, warm, silent, asset, asked, loads>>

TlsHandshake ==
  /\ at[0] = "tls" /\ up[0] /\ 0 \notin silent
  /\ at' = [at EXCEPT ![0] = "http"]
  /\ UNCHANGED <<page, shared, warm, up, silent, asset, asked, opened, loads>>

\* The HTTP/2 preface or the HTTP/3 control streams; nothing is awaited.
HttpHandshake ==
  /\ at[0] = "http" /\ up[0]
  /\ at' = [at EXCEPT ![0] = "manifest"] /\ opened' = opened + 1
  /\ UNCHANGED <<page, shared, warm, up, silent, asset, asked, loads>>

ConnectErrors ==
  [connect |-> IF mode = "pageload3" THEN {"tcp", "tls"} ELSE {"tcp"},
   tls |-> {"tls"}, http |-> {"http"}]

\* An HTTP/1.1 connection that fails loses its assets only; a multiplexed load
\* has no other and ends.  Every handshake but the last has a deadline.
ConnectFails(c) ==
  /\ at[c] \in {"connect", "tls", "http"}
  /\ IF Multiplexed
     THEN \E category \in IF c \in silent /\ at[c] # "http" THEN {"timeout"} ELSE ConnectErrors[at[c]] :
            Return(Failed(category))
     ELSE /\ at' = [at EXCEPT ![c] = "error"]
          /\ UNCHANGED <<page, shared, warm, up, silent, asset, asked, opened, loads>>

-----------------------------------------------------------------------------
(***************************************************************************)
(* The manifest, on connection 0: its status and its body are not judged.  *)
(***************************************************************************)
ToAssets(c) ==
  /\ at' = [at EXCEPT ![c] = "assets"]
  /\ UNCHANGED <<page, shared, warm, up, silent, asset, asked, opened, loads>>

ManifestHead ==
  /\ at[0] = "manifest" /\ up[0] /\ 0 \notin silent
  /\ at' = [at EXCEPT ![0] = "manifest body"]
  /\ UNCHANGED <<page, shared, warm, up, silent, asset, asked, opened, loads>>

\* No manifest: HTTP/1.1 goes on to the assets, a multiplexed load ends.
ManifestFails ==
  /\ at[0] = "manifest" /\ Heard(0)
  /\ IF Multiplexed THEN Return(Failed("http")) ELSE ToAssets(0)

\* The deadline on the manifest's head; HTTP/3 has none.
ManifestDeadline ==
  /\ at[0] = "manifest" /\ 0 \in silent /\ mode # "pageload3"
  /\ IF Multiplexed THEN Return(Failed("timeout")) ELSE ToAssets(0)

\* The body ends, or breaks off and is taken as it is.  No deadline.
ManifestBody ==
  /\ at[0] = "manifest body" /\ Heard(0)
  /\ ToAssets(0)

-----------------------------------------------------------------------------
(***************************************************************************)
(* The assets.  A connection of HTTP/1.1 fetches its own one after the     *)
(* other; HTTP/2 and a cold HTTP/3 load have all of them in flight; a warm *)
(* HTTP/3 load opens every stream, in order, before it reads any.          *)
(***************************************************************************)
WarmH3 == mode = "pageload3" /\ (warm \/ WarmingUp)

Over(a) == asset[a].at \in {"done", "lost"}

Turn(a) ==
  /\ at[conn_of(a)] = "assets"
  /\ asset[a].at = "queued"
  /\ mode = "pageload" =>
       \A b \in Assets : b < a /\ conn_of(b) = conn_of(a) => Over(b)
  /\ WarmH3 => \A b \in Assets : b < a => asset[b].at # "queued"

Answerable(a) == WarmH3 => \A b \in Assets : asset[b].at # "queued"

\* The assets become f, nothing else of the load changes.
Fetch(f) ==
  /\ asset' = f
  /\ UNCHANGED <<page, shared, warm, at, up, silent, asked, opened, loads>>

Send(a) ==
  /\ Turn(a)
  /\ asset' = [asset EXCEPT ![a].at = "sent"]
  /\ asked' = [asked EXCEPT ![a] = @ + 1]
  /\ UNCHANGED <<page, shared, warm, at, up, silent, opened, loads>>

\* The send or the wait for the head fails: the connection is gone, or the
\* peer resets the stream or the exchange.
RequestFails(a) ==
  /\ \/ Turn(a) /\ ~up[conn_of(a)]
     \/ asset[a].at = "sent" /\ Answerable(a) /\ Heard(conn_of(a))
  /\ Fetch([asset EXCEPT ![a].at = "lost"])

AssetHead(a) ==
  /\ asset[a].at = "sent" /\ Answerable(a)
  /\ up[conn_of(a)] /\ conn_of(a) \notin silent
  /\ \E ok \in BOOLEAN : Fetch([asset EXCEPT ![a].at = "head", ![a].ok = ok])

\* Mutant: the deadline is armed for HTTP/2 only.
HeadDeadlineH2(a) ==
  /\ conn_of(a) \in silent
  /\ mode = "pageload2" /\ asset[a].at = "sent"
  /\ Fetch([asset EXCEPT ![a].at = "lost"])

\* The deadline of send_request covers the head over HTTP/1.1 and HTTP/2; over
\* HTTP/3 only the opening of the stream.
HeadDeadline(a) ==
  /\ conn_of(a) \in silent
  /\ IF mode = "pageload3" THEN Turn(a) ELSE asset[a].at = "sent"
  /\ Fetch([asset EXCEPT ![a].at = "lost"])

AssetBody(a) ==
  /\ asset[a].at = "head" /\ conn_of(a) \notin silent /\ up[conn_of(a)]
  /\ Fetch([asset EXCEPT ![a].at = "done", ![a].drained = TRUE])

\* Mutant: a cold HTTP/3 load takes an error for the end of the body too.
BodyBreaksQuietly(a) ==
  /\ asset[a].at = "head" /\ Heard(conn_of(a))
  /\ Fetch([asset EXCEPT ![a].at = "done"])

\* A body that breaks off is an error to a cold HTTP/3 load and the end of the
\* body to the others (`collect().await.ok()`, `recv_data().await.ok()`).
BodyBreaks(a) ==
  /\ asset[a].at = "head" /\ Heard(conn_of(a))
  /\ Fetch([asset EXCEPT
       ![a].at = IF mode = "pageload3" /\ ~WarmH3 THEN "lost" ELSE "done"])

\* Every connection has ended.  A failed connection 0 fails an HTTP/1.1 load.
Finish ==
  /\ Running
  /\ \A c \in Used : at[c] \in {"assets", "error"}
  /\ \A a \in Assets : Over(a) \/ at[conn_of(a)] = "error"
  /\ Return(IF at[0] = "error" THEN Failed("tcp") ELSE Loaded)

-----------------------------------------------------------------------------
(***************************************************************************)
(* The peer.                                                               *)
(***************************************************************************)
\* It closes a connection, in use or shared between two loads.
PeerCloses(c) ==
  /\ up[c] /\ (Running \/ shared)
  /\ up' = [up EXCEPT ![c] = FALSE]
  /\ UNCHANGED <<page, shared, warm, at, silent, asset, asked, opened, loads>>

\* It stops answering, its transport still alive.
PeerSilent(c) ==
  /\ c \notin silent /\ at[c] # "idle"
  /\ silent' = silent \cup {c}
  /\ UNCHANGED <<page, shared, warm, at, up, asset, asked, opened, loads>>

Peer == \E c \in Conns : PeerCloses(c) \/ PeerSilent(c)

Transport == TlsHandshake \/ HttpHandshake \/ \E c \in Conns : Connect(c) \/ ConnectFails(c)
Manifest == ManifestHead \/ ManifestFails \/ ManifestDeadline \/ ManifestBody
Exchange ==
  \E a \in Assets :
    Send(a) \/ RequestFails(a) \/ AssetHead(a) \/ HeadDeadline(a) \/ AssetBody(a) \/ BodyBreaks(a)

Load == Transport \/ Manifest \/ Exchange \/ Finish
Begin ==
  \/ run_pageload_probe \/ run_pageload2_probe \/ run_pageload3_probe
  \/ warmup_pageload2 \/ warmup_pageload3 \/ StartWarm \/ Refuse

-----------------------------------------------------------------------------
(***************************************************************************)
(* Properties.                                                             *)
(***************************************************************************)
Claims == {loads[i] : i \in DOMAIN loads}

\* A page load that reports success asked for every asset of the page exactly
\* once, whichever connection an asset was dealt to, and every answer had a 2xx
\* head.  Its counts add up and count every 2xx body that came in whole, and
\* over a cold HTTP/3 connection nothing else; the other loads count a 2xx head
\* whose body broke off as well, against the rule that asset_fetch_ok states
\* ("only a fully drained 2xx response").  Of a page with assets the error
\* record agrees with the verdict; a page without any is a success with an error
\* over a multiplexed connection.
PageHonest ==
  \A r \in Claims :
    /\ r.success => r.got.once /\ r.got.ok
    /\ r.pageload =>
         /\ r.fetched + r.failed = page.n
         /\ r.got.whole <= r.fetched
         /\ mode = "pageload3" /\ ~page.reuse => r.got.whole = r.fetched
    /\ page.n > 0 => (r.success <=> r.error = "none")
    /\ r.error = "none" => r.success

\* A load that says it reused the connection opened none, follows one that
\* opened it, and one that does not say so over a multiplexed protocol opened
\* exactly the one it claims.
ReuseHonest ==
  \A i \in DOMAIN loads : loads[i].pageload =>
    /\ loads[i].reused =>
         /\ loads[i].opened = 0 /\ loads[i].claimed = 0
         /\ \E j \in 1..(i - 1) : loads[j].opened = 1
    /\ ~loads[i].reused =>
         /\ loads[i].opened <= loads[i].claimed /\ loads[i].opened > 0
         /\ Multiplexed => loads[i].opened = loads[i].claimed

\* Waits no deadline ends: a body, and over HTTP/3 the manifest and the heads.
Unbounded ==
  \/ at[0] = "manifest body" /\ ~Heard(0)
  \/ at[0] = "manifest" /\ ~Heard(0) /\ mode = "pageload3"
  \/ \E a \in Assets : ~Heard(conn_of(a)) /\
       asset[a].at \in (IF mode = "pageload3" THEN {"sent", "head"} ELSE {"head"})

=============================================================================
