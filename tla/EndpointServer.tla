--------------------------- MODULE EndpointServer -----------------------------
(***************************************************************************)
(* networker-endpoint processes on one host: how an instance binds its     *)
(* ports and starts, what it reports on /health, how it answers over       *)
(* HTTP/1.1, HTTP/3 and UDP, and how it stops.                             *)
(*                                                                         *)
(* Several instances share a host (a network-mode one and an app-mode one  *)
(* behind a proxy), so binds contend.  The service manager starts an       *)
(* instance again whenever it is down.  Sizes are counted in small units.  *)
(***************************************************************************)
EXTENDS Integers, Sequences, FiniteSets, Functions

CONSTANTS
  Instances,
  Configs,      \* per instance, the ServerConfigs it may be started with
  Datasets,     \* what load_bench_data may meet: "shared", "missing", "corrupt"
  Addresses,    \* the host's addresses
  Sessions,     \* bound: requests and datagrams in progress
  Asks,         \* the requests clients send, see Ask
  DownloadCap, AssetCap,  \* the largest bodies of /download and /asset
  H1Chunk, H3Chunk,       \* bytes of a full chunk on either transport
  MaxConnections,         \* MAX_CONNECTIONS of the HTTP/3 server
  MaxStreams              \* MAX_STREAMS_PER_CONN

UdpServices == <<"echo", "throughput", "stamp">>
Ask == [route : STRING, asked : Nat, token : BOOLEAN, body : Nat]
ConfigSet == [http : Nat, https : Nat, echo : Nat, throughput : Nat, stamp : Nat,
           upstream : BOOLEAN, token : BOOLEAN]

ASSUME EndpointAssumption ==
  /\ \A i \in Instances : Configs[i] \subseteq ConfigSet
  /\ Datasets \subseteq {"shared", "missing", "corrupt"}
  /\ Asks \subseteq Ask /\ IsFiniteSet(Sessions) /\ IsFiniteSet(Addresses)
  /\ {H1Chunk, H3Chunk} \subseteq Nat \ {0} /\ {DownloadCap, AssetCap, MaxConnections, MaxStreams} \subseteq Nat

VARIABLES
  pc,        \* where each instance's run_with_shutdown is
  cfg,       \* its ServerConfig
  h3_port,   \* whether its AppState advertises HTTP/3
  sockets,   \* the sockets it holds, <<"tcp" or "udp", port>>
  tasks,     \* its tasks: UDP services, "h3", "http", "https"
  up,        \* the addresses whose interface is up
  session    \* requests and datagrams in progress

process == <<pc, cfg, h3_port, sockets, tasks>>
endvars == <<process, up, session>>

NoSession == [pc |-> "none"]
NoConfig == [http |-> 0, https |-> 0, echo |-> 0, throughput |-> 0, stamp |-> 0,
             upstream |-> FALSE, token |-> FALSE]

EndpointInit ==
  /\ pc = [i \in Instances |-> "down"] /\ cfg = [i \in Instances |-> NoConfig]
  /\ h3_port = [i \in Instances |-> FALSE]
  /\ sockets = [i \in Instances |-> {}] /\ tasks = [i \in Instances |-> {}]
  /\ up = Addresses /\ session = [s \in Sessions |-> NoSession]

Free(socket) == \A i \in Instances : socket \notin sockets[i]
Serves(i) == {s \in Sessions : session[s].pc # "none" /\ session[s].inst = i}

(***************************************************************************)
(* Start: run_with_shutdown up to its select.                              *)
(***************************************************************************)
\* main: command line over config file over defaults.
Start(i, c) ==
  /\ pc[i] = "down"
  /\ pc' = [pc EXCEPT ![i] = "cert"] /\ cfg' = [cfg EXCEPT ![i] = c]
  /\ UNCHANGED <<h3_port, sockets, tasks, up, session>>

\* The process ends: its sockets are closed and every task is gone.
Exit(i) ==
  /\ pc' = [pc EXCEPT ![i] = "down"] /\ cfg' = [cfg EXCEPT ![i] = NoConfig]
  /\ h3_port' = [h3_port EXCEPT ![i] = FALSE]
  /\ sockets' = [sockets EXCEPT ![i] = {}] /\ tasks' = [tasks EXCEPT ![i] = {}]
  /\ session' = [s \in Sessions |-> IF s \in Serves(i) THEN NoSession ELSE session[s]]

\* Without a certificate, or a TLS configuration from it, nothing starts.
generate_self_signed_cert(i) ==
  /\ pc[i] = "cert"
  /\ \/ pc' = [pc EXCEPT ![i] = "quic"] /\ UNCHANGED <<cfg, h3_port, sockets, tasks, session>>
     \/ Exit(i)
  /\ UNCHANGED up

bind_h3_configured(i) ==
  LET socket == <<"udp", cfg[i].https>>
  IN  /\ pc[i] = "quic"
      /\ h3_port' = [h3_port EXCEPT ![i] = TRUE]
      /\ sockets' = [sockets EXCEPT ![i] = IF Free(socket) THEN @ \union {socket} ELSE @]
      /\ pc' = [pc EXCEPT ![i] = "router"]
      /\ UNCHANGED <<cfg, tasks, up, session>>
\* The QUIC socket is bound before HTTP/3 is advertised; a failure turns it off.
bind_h3(i) ==
  LET socket == <<"udp", cfg[i].https>>
  IN  /\ pc[i] = "quic"
      /\ h3_port' = [h3_port EXCEPT ![i] = Free(socket)]
      /\ sockets' = [sockets EXCEPT ![i] = IF Free(socket) THEN @ \union {socket} ELSE @]
      /\ pc' = [pc EXCEPT ![i] = "router"]
      /\ UNCHANGED <<cfg, tasks, up, session>>

\* build_router loads the shared dataset: a corrupt one ends the process, none
\* at all is tolerated.
build_router(i, dataset) ==
  /\ pc[i] = "router"
  /\ \/ dataset = "corrupt" /\ Exit(i)
     \/ /\ dataset # "corrupt" /\ pc' = [pc EXCEPT ![i] = "echo"]
        /\ UNCHANGED <<cfg, h3_port, sockets, tasks, session>>
  /\ UNCHANGED up

AfterUdp == [echo |-> "throughput", throughput |-> "stamp", stamp |-> "spawn"]

\* Port 0 disables the service; a port that is taken ends the start.
bind_udp(i, service) ==
  LET socket == <<"udp", cfg[i][service]>>
      bound == Free(socket)
  IN  /\ pc[i] = service
      /\ \/ /\ cfg[i][service] = 0
            /\ pc' = [pc EXCEPT ![i] = AfterUdp[service]]
            /\ UNCHANGED <<cfg, h3_port, sockets, tasks, session>>
         \/ /\ cfg[i][service] # 0 /\ bound
            /\ sockets' = [sockets EXCEPT ![i] = @ \union {socket}]
            /\ tasks' = [tasks EXCEPT ![i] = @ \union {service}]
            /\ pc' = [pc EXCEPT ![i] = AfterUdp[service]]
            /\ UNCHANGED <<cfg, h3_port, session>>
         \/ cfg[i][service] # 0 /\ ~bound /\ Exit(i)
      /\ UNCHANGED up

\* The web servers are spawned and bind inside their tasks.
SpawnServers(i) ==
  /\ pc[i] = "spawn"
  /\ pc' = [pc EXCEPT ![i] = "serving"]
  /\ tasks' = [tasks EXCEPT ![i] = @ \union {"http", "https"} \union (IF h3_port[i] THEN {"h3"} ELSE {})]
  /\ UNCHANGED <<cfg, h3_port, sockets, up, session>>

Listening(i, server) == server \in tasks[i] /\ <<"tcp", cfg[i][server]>> \in sockets[i]

\* A web server that cannot bind ends its task.
BindWeb(i, server) ==
  LET socket == <<"tcp", cfg[i][server]>>
  IN  /\ pc[i] = "serving" /\ server \in tasks[i] /\ ~Listening(i, server)
      /\ IF Free(socket)
         THEN sockets' = [sockets EXCEPT ![i] = @ \union {socket}] /\ UNCHANGED tasks
         ELSE tasks' = [tasks EXCEPT ![i] = @ \ {server}] /\ UNCHANGED sockets
      /\ UNCHANGED <<pc, cfg, h3_port, up, session>>

(***************************************************************************)
(* Stop.                                                                   *)
(***************************************************************************)
\* The select ends on a signal or because a web server ended; the datagram and
\* QUIC tasks are aborted, the web servers' handles only dropped.
Stop(i) ==
  /\ pc[i] = "serving"
  /\ pc' = [pc EXCEPT ![i] = "stopped"]
  /\ tasks' = [tasks EXCEPT ![i] = @ \ {"echo", "throughput", "stamp", "h3"}]
  /\ UNCHANGED <<cfg, h3_port, sockets, up, session>>

Signal(i) == Stop(i)
ServerExits(i) == ~({"http", "https"} \subseteq tasks[i]) /\ Stop(i)

\* main returns and takes what is in progress with it.
MainReturns(i) ==
  /\ pc[i] = "stopped"
  /\ Exit(i)
  /\ UNCHANGED up

(***************************************************************************)
(* HTTP.                                                                   *)
(***************************************************************************)
Lesser(a, b) == IF a < b THEN a ELSE b

\* What the routers mount.  With an upstream, every /api request is proxied.
H1Routes == {"health", "echo", "download", "upload", "delay", "page", "browser-page", "asset", "api"}
H3Routes == {"health", "download", "upload", "page", "browser-page", "asset"}
mounted(proto) == IF proto = "h1" THEN H1Routes ELSE H3Routes

\* The declared length of the bodies that are streamed.
body_size(q) ==
  IF q.route = "download" THEN Lesser(q.asked, DownloadCap)
  ELSE IF q.route = "asset" THEN Lesser(q.asked, AssetCap)
  ELSE 0

\* bench_auth_middleware is a layer of the HTTP/1.1 and HTTP/2 router.
authorized(i, proto, q) == proto = "h3" \/ q.route = "health" \/ ~cfg[i].token \/ q.token

\* How a request begins: streaming a body, draining one, waiting for the
\* upstream or a sleep, or with an answer that is ready.
FirstStep(i, proto, q) ==
  IF ~authorized(i, proto, q) \/ q.route \notin mounted(proto) THEN "answered"
  ELSE IF q.route \in {"download", "asset"} THEN "stream"
  ELSE IF q.route = "upload" THEN "drain"
  ELSE IF q.route = "api" /\ cfg[i].upstream THEN "upstream"
  ELSE IF q.route = "delay" THEN "sleep"
  ELSE "answered"

Opened(i, proto, conn, q) ==
  [pc |-> FirstStep(i, proto, q), inst |-> i, proto |-> proto, conn |-> conn,
   size |-> IF FirstStep(i, proto, q) = "stream" THEN body_size(q) ELSE 0, sent |-> 0, moved |-> 0, body |-> q.body]

\* A request over a connection that a web server accepted.
H1Request(s, i, server, q) ==
  /\ session[s].pc = "none" /\ Listening(i, server)
  /\ session' = [session EXCEPT ![s] = Opened(i, "h1", 0, q)]
  /\ UNCHANGED <<process, up>>

\* A request stream of an HTTP/3 connection.  Both semaphores are tried, never
\* waited for: beyond a cap the connection is refused, the stream dropped.
Streams(i, conn) == {s \in Serves(i) : session[s].proto = "h3" /\ session[s].conn = conn}
Connections(i) == {session[s].conn : s \in {t \in Serves(i) : session[t].proto = "h3"}}
H3Request(s, i, conn, q) ==
  /\ session[s].pc = "none" /\ "h3" \in tasks[i]
  /\ conn \in Connections(i) \/ Cardinality(Connections(i)) < MaxConnections
  /\ Cardinality(Streams(i, conn)) < MaxStreams
  /\ session' = [session EXCEPT ![s] = Opened(i, "h3", conn, q)]
  /\ UNCHANGED <<process, up>>

\* The chunks of a body: HTTP/1.1 chains the full ones and the remainder,
\* HTTP/3 takes the lesser of what remains and a chunk until nothing does.
Full(size, chunk) == [n \in 1..(size \div chunk) |-> chunk]
chunks_full(proto, size) ==
  IF proto = "h1" THEN Full(size, H1Chunk)
  ELSE [n \in 1..((size + H3Chunk - 1) \div H3Chunk) |-> Lesser(size - (n - 1) * H3Chunk, H3Chunk)]
chunks(proto, size) ==
  IF proto = "h1"
  THEN Full(size, H1Chunk) \o (IF size % H1Chunk > 0 THEN <<size % H1Chunk>> ELSE <<>>)
  ELSE [n \in 1..((size + H3Chunk - 1) \div H3Chunk) |-> Lesser(size - (n - 1) * H3Chunk, H3Chunk)]

\* The body's stream yields its next chunk, or ends.
SendChunk(s) ==
  LET x == session[s]
      cs == chunks(x.proto, x.size)
  IN  /\ x.pc = "stream"
      /\ session' = [session EXCEPT ![s] =
           IF x.sent < Len(cs) THEN [x EXCEPT !.sent = @ + 1, !.moved = @ + cs[x.sent + 1]]
           ELSE [x EXCEPT !.pc = "answered"]]
      /\ UNCHANGED <<process, up>>

\* The handlers of /upload drain until the body ends or breaks off, and report
\* what came.
Drained(x) == [x EXCEPT !.pc = "reported"]

DrainFrame(s) ==
  LET x == session[s]
  IN  /\ x.pc = "drain"
      /\ session' = [session EXCEPT ![s] =
           IF x.moved < x.body THEN [x EXCEPT !.moved = @ + 1] ELSE Drained(x)]
      /\ UNCHANGED <<process, up>>

BodyBreaks(s) ==
  /\ session[s].pc = "drain" /\ session[s].moved < session[s].body
  /\ session' = [session EXCEPT ![s] = Drained(session[s])]
  /\ UNCHANGED <<process, up>>

\* A sleep runs out; the upstream answers or is unreachable, which is a 502.
Answered(s) ==
  /\ session[s].pc \in {"sleep", "upstream"}
  /\ session' = [session EXCEPT ![s].pc = "answered", ![s].size = 0]
  /\ UNCHANGED <<process, up>>

\* The response is over, or the client gave up on it.
CloseSession(s) ==
  /\ session[s].pc \in {"answered", "reported", "stream", "drain", "replied"}
  /\ session' = [session EXCEPT ![s] = NoSession]
  /\ UNCHANGED <<process, up>>

(***************************************************************************)
(* UDP replies through PktInfoSocket.                                      *)
(***************************************************************************)
\* recv_from reports the address a datagram came to in dst_ip, a set of at most
\* one address: none where the platform has no destination tracking, or where
\* this datagram carried no ancillary data.  "came" is history.
Receive(s, i, service, address, dst_ip) ==
  /\ session[s].pc = "none" /\ service \in tasks[i] /\ address \in up
  /\ session' = [session EXCEPT ![s] =
       [pc |-> "reply", inst |-> i, proto |-> "udp", came |-> address, dst_ip |-> dst_ip,
        source |-> address, valid |-> FALSE]]
  /\ UNCHANGED <<process, up>>

\* send_to pins the source to dst_ip.  The kernel chooses it when none was
\* reported, and in the retry when the address is gone; a reply that cannot be
\* sent is dropped.
reply_sources_routed(dst_ip) == up
reply_sources(dst_ip) == IF dst_ip # {} /\ dst_ip \subseteq up THEN dst_ip ELSE up

SendReply(s) ==
  /\ session[s].pc = "reply"
  /\ \/ \E source \in reply_sources(session[s].dst_ip) :
          session' = [session EXCEPT ![s].pc = "replied", ![s].source = source,
                                     ![s].valid = session[s].dst_ip \intersect up # {}]
     \/ up = {} /\ session' = [session EXCEPT ![s] = NoSession]
  /\ UNCHANGED <<process, up>>

\* An interface goes away or comes back.
Interface(address) ==
  /\ up' = IF address \in up THEN up \ {address} ELSE up \union {address}
  /\ UNCHANGED <<process, session>>

InstanceStep(i) ==
  \/ \E c \in Configs[i] : Start(i, c)
  \/ generate_self_signed_cert(i) \/ bind_h3(i)
  \/ \E dataset \in Datasets : build_router(i, dataset)
  \/ \E n \in DOMAIN UdpServices : bind_udp(i, UdpServices[n])
  \/ SpawnServers(i)
  \/ \E server \in {"http", "https"} : BindWeb(i, server)
  \/ Signal(i) \/ ServerExits(i) \/ MainReturns(i)

SessionStep(s) ==
  \/ \E i \in Instances, q \in Asks :
       \/ \E server \in {"http", "https"} : H1Request(s, i, server, q)
       \/ \E conn \in 1..(MaxConnections + 1) : H3Request(s, i, conn, q)
  \/ \E i \in Instances, address \in Addresses, n \in DOMAIN UdpServices :
       \E dst_ip \in {{address}, {}} : Receive(s, i, UdpServices[n], address, dst_ip)
  \/ SendChunk(s) \/ DrainFrame(s) \/ BodyBreaks(s) \/ Answered(s) \/ CloseSession(s) \/ SendReply(s)

EndpointNext ==
  \/ \E i \in Instances : InstanceStep(i)
  \/ \E s \in Sessions : SessionStep(s)
  \/ \E address \in Addresses : Interface(address)

EndpointSpec == EndpointInit /\ [][EndpointNext]_endvars

(***************************************************************************)
(* Properties.                                                             *)
(***************************************************************************)
\* What the handler of /health reports from the AppState.
health(i) ==
  {service \in {"echo", "throughput", "stamp"} : cfg[i][service] # 0}
    \union (IF h3_port[i] THEN {"h3"} ELSE {})
PortOf(i, service) == <<"udp", IF service = "h3" THEN cfg[i].https ELSE cfg[i][service]>>

(* While an instance serves, whoever else contends for its ports, each
   listener that /health offers has its socket and its task, and two
   instances never hold one socket. *)
HealthHonest ==
  /\ \A i \in Instances : pc[i] = "serving" /\ (Listening(i, "http") \/ Listening(i, "https")) =>
       \A service \in health(i) : service \in tasks[i] /\ PortOf(i, service) \in sockets[i]
  /\ \A i, j \in Instances : i # j => sockets[i] \intersect sockets[j] = {}

(* A response that ends well carried exactly the bytes it declared, on either
   transport and for any body and chunk size. *)
ResponsesExact ==
  \A s \in Sessions : session[s].pc = "answered" => session[s].moved = session[s].size

(* A datagram whose destination address was reported is answered from that
   address unless it has gone since, whatever interfaces come and go between;
   for the others the kernel chooses the source, as pktinfo_socket.rs says. *)
ReplySource ==
  \A s \in Sessions : session[s].pc = "replied" /\ session[s].valid => session[s].source = session[s].came

(* What a session ends with is what the peer was promised: the declared bytes
   of a response, or a reply from the address that the datagram was seen to
   come to. *)
RepliesExact == ResponsesExact /\ ReplySource
=============================================================================
