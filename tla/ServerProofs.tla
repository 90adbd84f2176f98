---------------------------- MODULE ServerProofs ------------------------------
(***************************************************************************)
(* The two servers a tester measures against: what an endpoint offers and  *)
(* answers, and the limits of an application that mounts the SDK.          *)
(***************************************************************************)
EXTENDS EndpointServer, SdkService, FiniteSetTheorems, TLAPS

-----------------------------------------------------------------------------
(***************************************************************************)
(* What an endpoint offers and answers, for any number of instances that   *)
(* contend for any ports and for bodies and chunks of any size.            *)
(*                                                                         *)
(* An instance advertises a listener only after it bound its socket:       *)
(* StartInv follows the order of the start.  A streamed body is exact      *)
(* because what has been sent after n chunks has a closed form (Moved)     *)
(* that reaches the declared length with the last chunk.                   *)
(***************************************************************************)
\* The datagram services and the places of run_with_shutdown.
Udp == {"echo", "throughput", "stamp"}
Places == {"down", "cert", "quic", "router", "echo", "throughput", "stamp", "spawn", "serving",
           "stopped"}

\* The places after the bind of a datagram service.
After(service) ==
  {"spawn", "serving"} \cup (IF service = "stamp" THEN {}
                             ELSE IF service = "throughput" THEN {"stamp"}
                             ELSE {"throughput", "stamp"})

\* The type of what an instance keeps.
ProcessTypeOK ==
  /\ pc \in [Instances -> Places] /\ cfg \in [Instances -> ConfigSet]
  /\ h3_port \in [Instances -> BOOLEAN]
  /\ sockets \in [Instances -> SUBSET ({"tcp", "udp"} \X Nat)]
  /\ tasks \in [Instances -> SUBSET (Udp \cup {"h3", "http", "https"})]

\* What an instance with configuration c has bound (S) and spawned (T) when
\* its start is at p; h says whether it advertises HTTP/3.
Offered(p, c, h, S, T) ==
  /\ p \in {"down", "cert", "quic"} => ~h
  /\ h => <<"udp", c.https>> \in S
  /\ \A service \in Udp : p \in After(service) /\ c[service] # 0 =>
       service \in T /\ <<"udp", c[service]>> \in S
  /\ p = "serving" /\ h => "h3" \in T

\* Instance i offers what it has bound.
Bound(i) == Offered(pc[i], cfg[i], h3_port[i], sockets[i], tasks[i])

\* The host gives a port to one instance.
SocketsApart == \A i, j \in Instances : i # j => sockets[i] \intersect sockets[j] = {}

\* The inductive invariant of starts and stops.
StartInv == ProcessTypeOK /\ (\A i \in Instances : Bound(i)) /\ SocketsApart

-----------------------------------------------------------------------------
(* Nothing runs and no socket is held at first.                             *)
LEMMA StartInit == EndpointInit => StartInv
<1> SUFFICES ASSUME EndpointInit PROVE StartInv
  OBVIOUS
<1>1. NoConfig \in ConfigSet
  BY DEF NoConfig, ConfigSet
<1>2. ProcessTypeOK
  BY <1>1 DEF EndpointInit, ProcessTypeOK, Places
<1>3. ASSUME NEW i \in Instances PROVE Bound(i)
  BY DEF EndpointInit, Bound, Offered, After
<1>4. SocketsApart
  BY DEF EndpointInit, SocketsApart
<1> QED BY <1>2, <1>3, <1>4 DEF StartInv

(* A step of instance i, seen from the sockets: it drops its own or adds a  *)
(* free one.                                                                *)
LEMMA ApartStep ==
    ASSUME StartInv, NEW i \in Instances, NEW socket, NEW S,
           sockets' = [sockets EXCEPT ![i] = S],
           S = {} \/ S = sockets[i] \/ (Free(socket) /\ S = sockets[i] \union {socket})
    PROVE  SocketsApart'
BY DEF StartInv, ProcessTypeOK, SocketsApart, Free

(* The instances other than the one that steps keep what they bound.        *)
LEMMA BoundOthers ==
    ASSUME NEW j \in Instances, Bound(j), pc'[j] = pc[j], cfg'[j] = cfg[j],
           h3_port'[j] = h3_port[j], sockets'[j] = sockets[j], tasks'[j] = tasks[j]
    PROVE  Bound(j)'
BY DEF Bound

(* This step gives instance i these values.                                 *)
Becomes(i, p, c, h, S, T) ==
  /\ pc' = [pc EXCEPT ![i] = p] /\ cfg' = [cfg EXCEPT ![i] = c]
  /\ h3_port' = [h3_port EXCEPT ![i] = h] /\ sockets' = [sockets EXCEPT ![i] = S]
  /\ tasks' = [tasks EXCEPT ![i] = T]

\* Names for the two sets of the type.
SocketSet == SUBSET ({"tcp", "udp"} \X Nat)
TaskSet == SUBSET (Udp \cup {"h3", "http", "https"})

(* A step of one instance need only be looked at for that instance.         *)
LEMMA InstanceKept ==
    ASSUME StartInv, NEW i \in Instances, NEW socket,
           NEW p \in Places, NEW c \in ConfigSet, NEW h \in BOOLEAN,
           NEW S \in SocketSet, NEW T \in TaskSet, Becomes(i, p, c, h, S, T),
           S = {} \/ S = sockets[i] \/ (Free(socket) /\ S = sockets[i] \union {socket}),
           Offered(p, c, h, S, T)
    PROVE  StartInv'
<1>t. ProcessTypeOK
  BY DEF StartInv
<1>1. ProcessTypeOK'
  BY <1>t DEF ProcessTypeOK, Becomes, SocketSet, TaskSet
<1>2. SocketsApart'
  BY ApartStep DEF Becomes
<1>v. pc'[i] = p /\ cfg'[i] = c /\ h3_port'[i] = h /\ sockets'[i] = S /\ tasks'[i] = T
  BY <1>t DEF ProcessTypeOK, Becomes
<1>3. Bound(i)'
  BY <1>v DEF Bound
<1>4. ASSUME NEW j \in Instances, j # i PROVE Bound(j)'
  <2>1. /\ pc'[j] = pc[j] /\ cfg'[j] = cfg[j] /\ h3_port'[j] = h3_port[j]
        /\ sockets'[j] = sockets[j] /\ tasks'[j] = tasks[j]
    BY <1>4, <1>t DEF ProcessTypeOK, Becomes
  <2> QED BY <2>1, BoundOthers DEF StartInv
<1> QED BY <1>1, <1>2, <1>3, <1>4 DEF StartInv

(* Every step of a start, a bind and a stop keeps the order of the start.   *)
LEMMA StartStep ==
    ASSUME StartInv, [EndpointNext]_endvars
    PROVE  StartInv'
<1>t. /\ pc \in [Instances -> Places] /\ cfg \in [Instances -> ConfigSet]
      /\ h3_port \in [Instances -> BOOLEAN]
      /\ sockets \in [Instances -> SUBSET ({"tcp", "udp"} \X Nat)]
      /\ tasks \in [Instances -> SUBSET (Udp \cup {"h3", "http", "https"})]
  BY DEF StartInv, ProcessTypeOK
<1>b. \A i \in Instances : Bound(i)
  BY DEF StartInv
<1>c. ASSUME NEW c \in ConfigSet PROVE /\ c.http \in Nat /\ c.https \in Nat /\ c.echo \in Nat
                                        /\ c.throughput \in Nat /\ c.stamp \in Nat
  BY <1>c DEF ConfigSet
<1>u. ASSUME UNCHANGED process PROVE StartInv'
  BY <1>u DEF process, StartInv, ProcessTypeOK, Bound, SocketsApart
<1>1. ASSUME NEW i \in Instances, InstanceStep(i) PROVE StartInv'
  <2>v. /\ pc[i] \in Places /\ cfg[i] \in ConfigSet /\ h3_port[i] \in BOOLEAN
        /\ sockets[i] \in SocketSet /\ tasks[i] \in TaskSet
    BY <1>t DEF SocketSet, TaskSet
  <2>s. /\ pc = [pc EXCEPT ![i] = pc[i]] /\ cfg = [cfg EXCEPT ![i] = cfg[i]]
        /\ h3_port = [h3_port EXCEPT ![i] = h3_port[i]]
        /\ sockets = [sockets EXCEPT ![i] = sockets[i]] /\ tasks = [tasks EXCEPT ![i] = tasks[i]]
    BY <1>t
  <2>b. Offered(pc[i], cfg[i], h3_port[i], sockets[i], tasks[i])
    BY <1>b DEF Bound
  <2>e. ASSUME Exit(i) PROVE StartInv'
    <3>1. Becomes(i, "down", NoConfig, FALSE, {}, {})
      BY <2>e DEF Exit, Becomes
    <3>2. NoConfig \in ConfigSet /\ "down" \in Places /\ {} \in SocketSet /\ {} \in TaskSet
      BY DEF NoConfig, ConfigSet, Places, SocketSet, TaskSet
    <3>3. Offered("down", NoConfig, FALSE, {}, {})
      BY DEF Offered, After
    <3> QED BY <3>1, <3>2, <3>3, InstanceKept
  <2>1. ASSUME NEW c \in Configs[i], Start(i, c) PROVE StartInv'
    <3>1. Becomes(i, "cert", c, h3_port[i], sockets[i], tasks[i])
      BY <2>1, <2>s DEF Start, Becomes
    <3>2. c \in ConfigSet /\ "cert" \in Places
      BY EndpointAssumption DEF Places
    <3>3. Offered("cert", c, h3_port[i], sockets[i], tasks[i])
      BY <2>1, <2>b DEF Start, Offered, After
    <3> QED BY <3>1, <3>2, <3>3, <2>v, InstanceKept
  <2>2. CASE generate_self_signed_cert(i)
    <3>1. Exit(i) \/ Becomes(i, "quic", cfg[i], h3_port[i], sockets[i], tasks[i])
      BY <2>2, <2>s DEF generate_self_signed_cert, Becomes
    <3>2. Offered("quic", cfg[i], h3_port[i], sockets[i], tasks[i]) /\ "quic" \in Places
      BY <2>2, <2>b DEF generate_self_signed_cert, Offered, After, Places
    <3> QED BY <3>1, <3>2, <2>e, <2>v, InstanceKept
  <2>3. CASE bind_h3(i)
    <3> DEFINE socket == <<"udp", cfg[i].https>>
               h == Free(socket)
               S == IF h THEN sockets[i] \union {socket} ELSE sockets[i]
    <3>1. socket \in {"tcp", "udp"} \X Nat /\ h \in BOOLEAN
      BY <2>v, <1>c DEF Free
    <3>2. S \in SocketSet /\ (S = sockets[i] \/ (Free(socket) /\ S = sockets[i] \union {socket}))
      BY <3>1, <2>v DEF SocketSet
    <3>3. Becomes(i, "router", cfg[i], h, S, tasks[i])
      BY <2>3, <2>s DEF bind_h3, Becomes
    <3>4. Offered("router", cfg[i], h, S, tasks[i]) /\ "router" \in Places
      BY DEF Offered, After, Places
    <3> HIDE DEF S, h
    <3> QED BY <3>1, <3>2, <3>3, <3>4, <2>v, InstanceKept
  <2>4. ASSUME NEW dataset, build_router(i, dataset) PROVE StartInv'
    <3>1. Exit(i) \/ Becomes(i, "echo", cfg[i], h3_port[i], sockets[i], tasks[i])
      BY <2>4, <2>s DEF build_router, Becomes
    <3>2. Offered("echo", cfg[i], h3_port[i], sockets[i], tasks[i]) /\ "echo" \in Places
      BY <2>b DEF Offered, After, Places
    <3> QED BY <3>1, <3>2, <2>e, <2>v, InstanceKept
  <2>5. ASSUME NEW service \in Udp, bind_udp(i, service) PROVE StartInv'
    <3> DEFINE socket == <<"udp", cfg[i][service]>>
               next == AfterUdp[service]
               S == sockets[i] \union {socket}
               T == tasks[i] \union {service}
    <3>1. /\ next \in Places \ {"down", "cert", "quic", "serving"}
          /\ \A other \in Udp : next \in After(other) => other = service \/ service \in After(other)
      BY DEF Places, After, AfterUdp, Udp
    <3>2. pc[i] = service
      BY <2>5 DEF bind_udp
    <3>3. socket \in {"tcp", "udp"} \X Nat
      BY <2>v, <1>c DEF Udp
    <3>4. \/ Exit(i)
          \/ cfg[i][service] = 0 /\ Becomes(i, next, cfg[i], h3_port[i], sockets[i], tasks[i])
          \/ Free(socket) /\ Becomes(i, next, cfg[i], h3_port[i], S, T)
      BY <2>5, <2>s DEF bind_udp, Becomes
    <3>5. S \in SocketSet /\ T \in TaskSet
      BY <2>v, <3>3 DEF SocketSet, TaskSet
    <3>6. ASSUME cfg[i][service] = 0 PROVE Offered(next, cfg[i], h3_port[i], sockets[i], tasks[i])
      BY <3>6, <3>1, <3>2, <2>b DEF Offered
    <3>7. Offered(next, cfg[i], h3_port[i], S, T)
      BY <3>1, <3>2, <2>b DEF Offered
    <3>8. Free(socket) => Free(socket) /\ S = sockets[i] \union {socket}
      OBVIOUS
    <3> HIDE DEF next, S, T
    <3>9. CASE cfg[i][service] = 0 /\ Becomes(i, next, cfg[i], h3_port[i], sockets[i], tasks[i])
      BY <3>9, <3>1, <3>6, <2>v, InstanceKept
    <3>10. CASE Free(socket) /\ Becomes(i, next, cfg[i], h3_port[i], S, T)
      BY <3>10, <3>1, <3>5, <3>7, <3>8, <2>v, InstanceKept
    <3> QED BY <3>4, <3>9, <3>10, <2>e
  <2>6. CASE SpawnServers(i)
    <3> DEFINE T == tasks[i] \union {"http", "https"} \union (IF h3_port[i] THEN {"h3"} ELSE {})
    <3>1. Becomes(i, "serving", cfg[i], h3_port[i], sockets[i], T) /\ pc[i] = "spawn"
      BY <2>6, <2>s DEF SpawnServers, Becomes
    <3>2. T \in TaskSet /\ "serving" \in Places /\ tasks[i] \subseteq T /\ (h3_port[i] => "h3" \in T)
      BY <2>v DEF Places, TaskSet
    <3> HIDE DEF T
    <3>3. Offered("serving", cfg[i], h3_port[i], sockets[i], T)
      BY <3>1, <3>2, <2>b DEF Offered, After
    <3> QED BY <3>1, <3>2, <3>3, <2>v, InstanceKept
  <2>7. ASSUME NEW server \in {"http", "https"}, BindWeb(i, server) PROVE StartInv'
    <3> DEFINE socket == <<"tcp", cfg[i][server]>>
               S == sockets[i] \union {socket}
               T == tasks[i] \ {server}
    <3>1. socket \in {"tcp", "udp"} \X Nat
      BY <2>v, <1>c
    <3>2. S \in SocketSet /\ T \in TaskSet
      BY <3>1, <2>v DEF SocketSet, TaskSet
    <3>3. \/ Free(socket) /\ Becomes(i, pc[i], cfg[i], h3_port[i], S, tasks[i])
          \/ Becomes(i, pc[i], cfg[i], h3_port[i], sockets[i], T)
      BY <2>7, <2>s DEF BindWeb, Becomes
    <3>4. Offered(pc[i], cfg[i], h3_port[i], S, tasks[i])
      BY <2>b DEF Offered
    <3>5. Offered(pc[i], cfg[i], h3_port[i], sockets[i], T)
      BY <2>b DEF Offered, Udp
    <3>6. S = sockets[i] \union {socket}
      OBVIOUS
    <3> HIDE DEF S, T
    <3> QED BY <3>2, <3>3, <3>4, <3>5, <3>6, <2>v, InstanceKept
  <2>8. CASE Stop(i)
    <3> DEFINE T == tasks[i] \ {"echo", "throughput", "stamp", "h3"}
    <3>1. Becomes(i, "stopped", cfg[i], h3_port[i], sockets[i], T)
      BY <2>8, <2>s DEF Stop, Becomes
    <3>2. T \in TaskSet /\ "stopped" \in Places
      BY <2>v DEF Places, TaskSet
    <3>3. Offered("stopped", cfg[i], h3_port[i], sockets[i], T)
      BY <2>b DEF Offered, After
    <3> HIDE DEF T
    <3> QED BY <3>1, <3>2, <3>3, <2>v, InstanceKept
  <2>9. CASE MainReturns(i)
    BY <2>9, <2>e DEF MainReturns
  <2>10. \A n \in DOMAIN UdpServices : UdpServices[n] \in Udp
    BY DEF UdpServices, Udp
  <2> QED
    BY <1>1, <2>1, <2>2, <2>3, <2>4, <2>5, <2>6, <2>7, <2>8, <2>9, <2>10
       DEF InstanceStep, Signal, ServerExits
<1>2. ASSUME NEW s \in Sessions, SessionStep(s) PROVE UNCHANGED process
  BY <1>2
     DEF SessionStep, H1Request, H3Request, Receive, SendChunk, DrainFrame, BodyBreaks, Answered,
         CloseSession, SendReply
<1>3. ASSUME NEW address, Interface(address) PROVE UNCHANGED process
  BY <1>3 DEF Interface
<1>4. UNCHANGED endvars => UNCHANGED process
  BY DEF endvars
<1> QED BY <1>1, <1>2, <1>3, <1>4, <1>u DEF EndpointNext

(* Whichever instances contend for whichever ports, an instance that serves *)
(* offers on /health only listeners that hold their socket and run, and no  *)
(* socket has two holders.                                                  *)
THEOREM HealthIsHonest == EndpointSpec => []HealthHonest
<1>1. StartInv => HealthHonest
  <2> SUFFICES ASSUME StartInv PROVE HealthHonest
    OBVIOUS
  <2>1. ASSUME NEW i \in Instances, pc[i] = "serving", NEW service \in health(i)
        PROVE  service \in tasks[i] /\ PortOf(i, service) \in sockets[i]
    <3>1. Bound(i)
      BY DEF StartInv
    <3>2. CASE service = "h3"
      BY <3>1, <3>2, <2>1 DEF Bound, Offered, health, PortOf
    <3>3. CASE service # "h3"
      <4>1. service \in Udp /\ cfg[i][service] # 0
        BY <3>3, <2>1 DEF health, Udp
      <4>2. "serving" \in After(service)
        BY DEF After
      <4> QED BY <4>1, <4>2, <3>1, <3>3, <2>1 DEF Bound, Offered, PortOf
    <3> QED BY <3>2, <3>3
  <2>2. SocketsApart
    BY DEF StartInv
  <2> QED BY <2>1, <2>2 DEF HealthHonest, SocketsApart
<1> QED BY <1>1, StartInit, StartStep, PTL DEF EndpointSpec

-----------------------------------------------------------------------------
\* The bytes of a body that its first n chunks hold.
Chunk(proto) == IF proto = "h1" THEN H1Chunk ELSE H3Chunk
Moved(proto, size, n) == Lesser(n * Chunk(proto), size)

(* Division with remainder.                                                 *)
LEMMA Division ==
    ASSUME NEW n \in Nat, NEW d \in Nat \ {0}
    PROVE  /\ n \div d \in Nat /\ n % d \in 0..(d - 1)
           /\ n = (n \div d) * d + (n % d)
OBVIOUS

(* Products with a chunk size.                                              *)
LEMMA Products ==
    ASSUME NEW c \in Nat, NEW a \in Nat, NEW b \in Nat
    PROVE  /\ a * c \in Nat /\ (a + 1) * c = a * c + c
           /\ a <= b => a * c <= b * c
OBVIOUS

(* HTTP/1.1: the full chunks and the remainder add up to the body.          *)
LEMMA H1Chunks ==
    ASSUME NEW size \in Nat
    PROVE  /\ Len(chunks("h1", size)) \in Nat
           /\ \A n \in 0..(Len(chunks("h1", size)) - 1) :
                Moved("h1", size, n) + chunks("h1", size)[n + 1] = Moved("h1", size, n + 1)
           /\ Moved("h1", size, Len(chunks("h1", size))) = size
<1> DEFINE c == H1Chunk
           d == size \div c
           m == size % c
           full == [n \in 1..d |-> c]
           rest == IF m > 0 THEN <<m>> ELSE <<>>
           cs == full \o rest
<1>0. c \in Nat \ {0}
  BY EndpointAssumption
<1>1. d \in Nat /\ m \in 0..(c - 1) /\ size = d * c + m
  BY <1>0, Division
<1>2. chunks("h1", size) = cs
  BY DEF chunks, Full
<1> HIDE DEF c, d, m
<1>3. full \in Seq(Nat) /\ Len(full) = d /\ rest \in Seq(Nat) /\ Len(rest) = IF m > 0 THEN 1 ELSE 0
  BY <1>0, <1>1
<1>4. /\ Len(cs) = d + IF m > 0 THEN 1 ELSE 0
      /\ \A n \in 1..d : cs[n] = c
      /\ m > 0 => cs[d + 1] = m
  BY <1>1, <1>3
<1>p. \A a, b \in Nat : a * c \in Nat /\ (a + 1) * c = a * c + c /\ (a <= b => a * c <= b * c)
  BY <1>0, Products
<1>m. \A n : Moved("h1", size, n) = IF n * c < size THEN n * c ELSE size
  BY DEF Moved, Chunk, Lesser, c
<1> HIDE DEF cs
<1>5. ASSUME NEW n \in 0..(Len(cs) - 1)
      PROVE  Moved("h1", size, n) + cs[n + 1] = Moved("h1", size, n + 1)
  <2>1. CASE n < d
    <3>1. n + 1 \in 1..d /\ n \in Nat /\ n + 1 \in Nat
      BY <2>1, <1>1, <1>5
    <3>2. (n + 1) * c = n * c + c /\ (n + 1) * c <= d * c /\ n * c \in Nat /\ d * c \in Nat
      <4>1. n + 1 <= d
        BY <3>1, <1>1
      <4>2. n + 1 <= d => (n + 1) * c <= d * c
        BY <3>1, <1>p, <1>1, Zenon
      <4>3. (n + 1) * c = n * c + c /\ n * c \in Nat /\ d * c \in Nat
        BY <3>1, <1>p, <1>1, Zenon
      <4> QED BY <4>1, <4>2, <4>3
    <3>3. Moved("h1", size, n) = n * c /\ Moved("h1", size, n + 1) = n * c + c
      BY <3>2, <1>m, <1>0, <1>1
    <3> QED BY <3>1, <3>3, <1>4
  <2>2. CASE n = d /\ m > 0
    <3>1. (d + 1) * c = d * c + c /\ d * c \in Nat
      BY <1>p, <1>1
    <3>2. Moved("h1", size, n) = d * c /\ Moved("h1", size, n + 1) = size
      BY <3>1, <2>2, <1>m, <1>0, <1>1
    <3> QED BY <3>1, <3>2, <2>2, <1>1, <1>4
  <2> QED BY <2>1, <2>2, <1>1, <1>4, <1>5
<1>6. Moved("h1", size, Len(cs)) = size
  <2>1. d * c \in Nat /\ (d + 1) * c = d * c + c
    BY <1>p, <1>1
  <2>2. CASE m > 0
    BY <2>1, <2>2, <1>m, <1>0, <1>1, <1>4
  <2>3. CASE m = 0
    BY <2>1, <2>3, <1>m, <1>0, <1>1, <1>4
  <2> QED BY <2>2, <2>3, <1>1
<1>7. Len(cs) \in Nat
  BY <1>1, <1>4
<1> QED BY <1>2, <1>5, <1>6, <1>7

(* HTTP/3: the lesser of what remains and a chunk, until nothing does.      *)
LEMMA H3Chunks ==
    ASSUME NEW size \in Nat
    PROVE  /\ Len(chunks("h3", size)) \in Nat
           /\ \A n \in 0..(Len(chunks("h3", size)) - 1) :
                Moved("h3", size, n) + chunks("h3", size)[n + 1] = Moved("h3", size, n + 1)
           /\ Moved("h3", size, Len(chunks("h3", size))) = size
<1> DEFINE c == H3Chunk
           d == (size + c - 1) \div c
           cs == [n \in 1..d |-> Lesser(size - (n - 1) * c, c)]
<1>0. c \in Nat \ {0} /\ size + c - 1 \in Nat
  BY EndpointAssumption
<1>1. PICK m \in 0..(c - 1) : d \in Nat /\ size + c - 1 = d * c + m
  BY <1>0, Division
<1>2. chunks("h3", size) = cs
  BY DEF chunks
<1> HIDE DEF c, d
<1>3. Len(cs) = d /\ \A n \in 1..d : cs[n] = Lesser(size - (n - 1) * c, c)
  BY <1>1
<1>p. \A a, b \in Nat : a * c \in Nat /\ (a + 1) * c = a * c + c /\ (a <= b => a * c <= b * c)
  BY <1>0, Products
<1>m. \A n : Moved("h3", size, n) = IF n * c < size THEN n * c ELSE size
  BY DEF Moved, Chunk, Lesser, c
<1> HIDE DEF cs
<1>5. ASSUME NEW n \in 0..(Len(cs) - 1)
      PROVE  Moved("h3", size, n) + cs[n + 1] = Moved("h3", size, n + 1)
  <2>1. n \in Nat /\ n + 1 \in 1..d /\ n + 1 - 1 = n
    BY <1>1, <1>3, <1>5
  <2>2. (n + 1) * c = n * c + c /\ (n + 1) * c <= d * c /\ n * c \in Nat /\ d * c \in Nat
    <3>1. n + 1 <= d /\ n + 1 \in Nat
      BY <2>1, <1>1
    <3>2. n + 1 <= d => (n + 1) * c <= d * c
      BY <3>1, <1>p, <1>1, Zenon
    <3>3. (n + 1) * c = n * c + c /\ n * c \in Nat /\ d * c \in Nat
      BY <2>1, <1>p, <1>1, Zenon
    <3> QED BY <3>1, <3>2, <3>3
  <2>3. n * c < size
    BY <2>2, <1>0, <1>1
  <2>4. cs[n + 1] = IF size - n * c < c THEN size - n * c ELSE c
    BY <2>1, <1>3 DEF Lesser
  <2> QED BY <2>1, <2>2, <2>3, <2>4, <1>m, <1>0
<1>6. Moved("h3", size, Len(cs)) = size
  <2>1. d * c \in Nat
    BY <1>p, <1>1
  <2> QED BY <2>1, <1>0, <1>1, <1>3, <1>m
<1> QED BY <1>1, <1>2, <1>3, <1>5, <1>6

(* On either transport the chunks of a body add up to the body.             *)
LEMMA ChunksExact ==
    ASSUME NEW proto \in {"h1", "h3"}, NEW size \in Nat
    PROVE  /\ Len(chunks(proto, size)) \in Nat
           /\ \A n \in 0..(Len(chunks(proto, size)) - 1) :
                Moved(proto, size, n) + chunks(proto, size)[n + 1] = Moved(proto, size, n + 1)
           /\ Moved(proto, size, Len(chunks(proto, size))) = size
<1>1. CASE proto = "h1"
  BY <1>1, H1Chunks
<1>2. CASE proto = "h3"
  BY <1>2, H3Chunks
<1> QED BY <1>1, <1>2

-----------------------------------------------------------------------------
\* The two kinds of sessions.
HttpSession ==
  [pc : {"answered", "reported", "stream", "drain", "upstream", "sleep"}, inst : Instances,
   proto : {"h1", "h3"}, conn : Nat, size : Nat, sent : Nat, moved : Nat, body : Nat]
UdpSession ==
  [pc : {"reply", "replied"}, inst : Instances, proto : {"udp"}, came : Addresses,
   dst_ip : SUBSET Addresses, source : Addresses, valid : BOOLEAN]

\* What a session has moved and answered so far is what it owes: the stream
\* holds the first chunks of its body, an answer its whole length.
SessionOK(x) ==
  /\ x \in HttpSession \cup UdpSession \cup {NoSession}
  /\ x.pc = "answered" => x.moved = x.size
  /\ x.pc \in {"sleep", "upstream"} => x.moved = 0
  /\ x.pc = "stream" => /\ x.sent <= Len(chunks(x.proto, x.size))
                        /\ x.moved = Moved(x.proto, x.size, x.sent)
  /\ x.pc = "reply" => x.dst_ip \subseteq {x.came}
  /\ x.pc = "replied" /\ x.valid => x.source = x.came

\* The inductive invariant of the sessions.
SessionInv ==
  /\ up \subseteq Addresses
  /\ session \in [Sessions -> HttpSession \cup UdpSession \cup {NoSession}]
  /\ \A s \in Sessions : SessionOK(session[s])

(* A session is where its place says it is.                                 *)
LEMMA SessionKinds ==
    ASSUME NEW x \in HttpSession \cup UdpSession \cup {NoSession}
    PROVE  /\ x.pc \in {"answered", "reported", "stream", "drain", "upstream", "sleep"} => x \in HttpSession
           /\ x.pc \in {"reply", "replied"} => x \in UdpSession
BY DEF HttpSession, UdpSession, NoSession

(* The body a request asks for, and how a new session begins.               *)
LEMMA OpenedOK ==
    ASSUME NEW i \in Instances, NEW proto \in {"h1", "h3"}, NEW conn \in Nat, NEW q \in Asks
    PROVE  SessionOK(Opened(i, proto, conn, q))
<1> DEFINE x == Opened(i, proto, conn, q)
           f == FirstStep(i, proto, q)
<1>1. q.asked \in Nat /\ q.body \in Nat /\ DownloadCap \in Nat /\ AssetCap \in Nat
  BY EndpointAssumption DEF Ask
<1>2. body_size(q) \in Nat
  BY <1>1 DEF body_size, Lesser
<1>3. f \in {"answered", "stream", "drain", "upstream", "sleep"}
  BY DEF FirstStep
<1>4. x = [pc |-> f, inst |-> i, proto |-> proto, conn |-> conn,
           size |-> IF f = "stream" THEN body_size(q) ELSE 0, sent |-> 0, moved |-> 0, body |-> q.body]
  BY DEF Opened
<1>5. \A size \in Nat : Moved(proto, size, 0) = 0 /\ 0 <= Len(chunks(proto, size))
  <2> SUFFICES ASSUME NEW size \in Nat
               PROVE  Moved(proto, size, 0) = 0 /\ 0 <= Len(chunks(proto, size))
    OBVIOUS
  <2>1. 0 * Chunk(proto) = 0
    BY EndpointAssumption DEF Chunk
  <2>2. Len(chunks(proto, size)) \in Nat
    BY ChunksExact
  <2> QED BY <2>1, <2>2 DEF Moved, Lesser
<1> HIDE DEF x, f
<1>6. x \in HttpSession
  BY <1>1, <1>2, <1>3, <1>4 DEF HttpSession
<1>7. SessionOK(x)
  BY <1>2, <1>3, <1>4, <1>5, <1>6 DEF SessionOK
<1> QED BY <1>7 DEF x

(* Every step of a session keeps it exact.                                  *)
LEMMA SessionStepOK ==
    ASSUME SessionInv, NEW s \in Sessions, SessionStep(s)
    PROVE  SessionInv'
<1>t. /\ session \in [Sessions -> HttpSession \cup UdpSession \cup {NoSession}] /\ up \subseteq Addresses
      /\ SessionOK(session[s])
  BY DEF SessionInv
<1>n. SessionOK(NoSession)
  BY DEF SessionOK, NoSession
<1>k. ASSUME NEW y, SessionOK(y), session' = [session EXCEPT ![s] = y], up' = up PROVE SessionInv'
  <2>1. y \in HttpSession \cup UdpSession \cup {NoSession}
    BY <1>k DEF SessionOK
  <2>2. session' \in [Sessions -> HttpSession \cup UdpSession \cup {NoSession}]
    BY <2>1, <1>k, <1>t
  <2>3. \A r \in Sessions : session'[r] = session[r] \/ session'[r] = y
    BY <1>k, <1>t
  <2>4. \A r \in Sessions : SessionOK(session[r])
    BY DEF SessionInv
  <2>5. \A r \in Sessions : SessionOK(session'[r])
    BY <2>3, <2>4, <1>k
  <2> QED BY <2>2, <2>5, <1>k, <1>t DEF SessionInv
<1> DEFINE x == session[s]
<1>x. x \in HttpSession \cup UdpSession \cup {NoSession} /\ SessionOK(x)
  BY <1>t
<1>1. ASSUME NEW i \in Instances, NEW q \in Asks, NEW server, H1Request(s, i, server, q)
      PROVE  SessionInv'
  BY <1>1, <1>k, OpenedOK DEF H1Request
<1>2. ASSUME NEW i \in Instances, NEW q \in Asks, NEW conn \in 1..(MaxConnections + 1),
             H3Request(s, i, conn, q)
      PROVE  SessionInv'
  <2>1. conn \in Nat
    BY EndpointAssumption
  <2> QED BY <2>1, <1>2, <1>k, OpenedOK DEF H3Request
<1>3. ASSUME NEW i \in Instances, NEW address \in Addresses, NEW service, NEW dst_ip \in {{address}, {}},
             Receive(s, i, service, address, dst_ip)
      PROVE  SessionInv'
  <2> DEFINE y == [pc |-> "reply", inst |-> i, proto |-> "udp", came |-> address,
                   dst_ip |-> dst_ip, source |-> address, valid |-> FALSE]
  <2>1. y \in UdpSession /\ y.dst_ip \subseteq {y.came}
    BY DEF UdpSession
  <2>2. SessionOK(y)
    BY <2>1 DEF SessionOK
  <2>3. session' = [session EXCEPT ![s] = y] /\ up' = up
    BY <1>3 DEF Receive
  <2> HIDE DEF y
  <2> QED BY <2>2, <2>3, <1>k
<1>4. CASE SendChunk(s)
  <2> DEFINE cs == chunks(x.proto, x.size)
             more == [x EXCEPT !.sent = @ + 1, !.moved = @ + cs[x.sent + 1]]
             over == [x EXCEPT !.pc = "answered"]
  <2>1. x.pc = "stream" /\ x \in HttpSession
    BY <1>4, <1>x, SessionKinds DEF SendChunk
  <2>2. /\ x.sent \in Nat /\ x.sent <= Len(cs) /\ x.moved = Moved(x.proto, x.size, x.sent)
        /\ x.size \in Nat /\ x.proto \in {"h1", "h3"} /\ x.moved \in Nat
    BY <2>1, <1>x DEF SessionOK, HttpSession
  <2>3. /\ Len(cs) \in Nat
        /\ \A n \in 0..(Len(cs) - 1) : Moved(x.proto, x.size, n) + cs[n + 1] = Moved(x.proto, x.size, n + 1)
        /\ Moved(x.proto, x.size, Len(cs)) = x.size
    BY <2>2, ChunksExact
  <2>4. session' = [session EXCEPT ![s] = IF x.sent < Len(cs) THEN more ELSE over] /\ up' = up
    BY <1>4 DEF SendChunk
  <2>5. ASSUME x.sent < Len(cs) PROVE SessionOK(more)
    <3>1. x.sent \in 0..(Len(cs) - 1) /\ x.sent + 1 <= Len(cs) /\ x.sent + 1 \in Nat
      BY <2>5, <2>2, <2>3
    <3>2. x.moved + cs[x.sent + 1] = Moved(x.proto, x.size, x.sent + 1)
      BY <3>1, <2>2, <2>3
    <3>3. Moved(x.proto, x.size, x.sent + 1) \in Nat
      <4>1. Chunk(x.proto) \in Nat
        BY EndpointAssumption DEF Chunk
      <4>2. (x.sent + 1) * Chunk(x.proto) \in Nat
        BY <4>1, <3>1, Products
      <4> QED BY <4>2, <2>2 DEF Moved, Lesser
    <3>4. /\ more.pc = x.pc /\ more.proto = x.proto /\ more.size = x.size /\ more.sent = x.sent + 1
          /\ more.moved = x.moved + cs[x.sent + 1]
      BY <2>1 DEF HttpSession
    <3>5. more \in HttpSession
      BY <2>1, <3>1, <3>2, <3>3 DEF HttpSession
    <3> HIDE DEF more
    <3> QED BY <3>1, <3>2, <3>4, <3>5, <2>1 DEF SessionOK
  <2>6. ASSUME ~(x.sent < Len(cs)) PROVE SessionOK(over)
    <3>1. x.sent = Len(cs) /\ x.moved = x.size
      BY <2>6, <2>2, <2>3
    <3>2. over \in HttpSession /\ over.pc = "answered" /\ over.moved = x.moved /\ over.size = x.size
      BY <2>1 DEF HttpSession
    <3> HIDE DEF over
    <3> QED BY <3>1, <3>2 DEF SessionOK
  <2> HIDE DEF more, over
  <2> QED BY <2>4, <2>5, <2>6, <1>k
<1>d. ASSUME x \in HttpSession PROVE SessionOK(Drained(x))
  <2>1. Drained(x) \in HttpSession /\ Drained(x).pc = "reported"
    BY <1>d DEF Drained, HttpSession
  <2> QED BY <2>1 DEF SessionOK
<1>5. CASE DrainFrame(s)
  <2> DEFINE more == [x EXCEPT !.moved = @ + 1]
  <2>1. x.pc = "drain" /\ x \in HttpSession
    BY <1>5, <1>x, SessionKinds DEF DrainFrame
  <2>2. session' = [session EXCEPT ![s] = IF x.moved < x.body THEN more ELSE Drained(x)] /\ up' = up
    BY <1>5 DEF DrainFrame
  <2>3. more \in HttpSession /\ more.pc = "drain"
    BY <2>1 DEF HttpSession
  <2> HIDE DEF more
  <2>4. SessionOK(more)
    BY <2>3 DEF SessionOK
  <2> QED BY <2>1, <2>2, <2>4, <1>d, <1>k
<1>6. CASE BodyBreaks(s)
  BY <1>6, <1>x, <1>d, <1>k, SessionKinds DEF BodyBreaks
<1>7. CASE Answered(s)
  <2> DEFINE y == [x EXCEPT !.pc = "answered", !.size = 0]
  <2>1. x.pc \in {"sleep", "upstream"} /\ x \in HttpSession
    BY <1>7, <1>x, SessionKinds DEF Answered
  <2>2. y \in HttpSession /\ y.pc = "answered" /\ y.size = 0 /\ y.moved = x.moved
    BY <2>1 DEF HttpSession
  <2>3. session' = [session EXCEPT ![s] = y] /\ up' = up
    BY <1>7, <1>t, <2>1 DEF Answered
  <2> HIDE DEF y
  <2>4. SessionOK(y)
    BY <2>1, <2>2, <1>x DEF SessionOK
  <2> QED BY <2>3, <2>4, <1>k
<1>8. CASE CloseSession(s)
  BY <1>8, <1>n, <1>k DEF CloseSession
<1>9. CASE SendReply(s)
  <2>1. x.pc = "reply" /\ x \in UdpSession /\ up' = up
    BY <1>9, <1>x, SessionKinds DEF SendReply
  <2>2. ASSUME NEW source \in reply_sources(x.dst_ip),
               session' = [session EXCEPT ![s].pc = "replied", ![s].source = source,
                                          ![s].valid = x.dst_ip \intersect up # {}]
        PROVE  SessionInv'
    <3> DEFINE y == [x EXCEPT !.pc = "replied", !.source = source, !.valid = x.dst_ip \intersect up # {}]
    <3>0. x.dst_ip \subseteq {x.came}
      BY <2>1, <1>x DEF SessionOK
    <3>1. source \in Addresses /\ (x.dst_ip \intersect up # {} => source = x.came)
      BY <3>0, <2>2, <1>t DEF reply_sources
    <3>2. /\ y \in UdpSession /\ y.pc = "replied" /\ y.source = source /\ y.came = x.came
          /\ y.valid => x.dst_ip \intersect up # {}
      <4>1. (x.dst_ip \intersect up # {}) \in BOOLEAN
        OBVIOUS
      <4>2. ASSUME NEW v \in BOOLEAN
            PROVE  [x EXCEPT !.pc = "replied", !.source = source, !.valid = v] \in UdpSession
        BY <2>1, <3>1 DEF UdpSession
      <4>3. y.pc = "replied" /\ y.source = source /\ y.came = x.came
        BY <2>1 DEF UdpSession
      <4>4. y.valid => x.dst_ip \intersect up # {}
        BY <2>1 DEF UdpSession
      <4> QED BY <4>1, <4>2, <4>3, <4>4
    <3>3. session' = [session EXCEPT ![s] = y]
      BY <2>2, <1>t
    <3> HIDE DEF y
    <3>4. SessionOK(y)
      BY <3>1, <3>2 DEF SessionOK
    <3> QED BY <3>3, <3>4, <2>1, <1>k
  <2>3. CASE session' = [session EXCEPT ![s] = NoSession]
    BY <2>3, <2>1, <1>n, <1>k
  <2> QED BY <1>9, <2>2, <2>3 DEF SendReply
<1> QED
  BY <1>1, <1>2, <1>3, <1>4, <1>5, <1>6, <1>7, <1>8, <1>9 DEF SessionStep

(* Sessions are exact whatever instances and interfaces come and go.        *)
LEMMA SessionInvStep ==
    ASSUME SessionInv, [EndpointNext]_endvars
    PROVE  SessionInv'
<1>1. ASSUME NEW i \in Instances, InstanceStep(i) PROVE SessionInv'
  <2>1. CASE UNCHANGED <<up, session>>
    BY <2>1 DEF SessionInv
  <2>2. CASE Exit(i) /\ UNCHANGED up
    <3>1. SessionOK(NoSession)
      BY DEF SessionOK, NoSession
    <3>2. session' = [s \in Sessions |-> IF s \in Serves(i) THEN NoSession ELSE session[s]]
      BY <2>2 DEF Exit
    <3> QED BY <3>1, <3>2, <2>2 DEF SessionInv
  <2> QED
    BY <1>1, <2>1, <2>2, Zenon
       DEF InstanceStep, Start, generate_self_signed_cert, bind_h3, build_router, bind_udp,
           SpawnServers, BindWeb, Signal, ServerExits, Stop, MainReturns
<1>2. ASSUME NEW address \in Addresses, Interface(address) PROVE SessionInv'
  BY <1>2 DEF Interface, SessionInv
<1>3. CASE UNCHANGED endvars
  BY <1>3 DEF endvars, SessionInv
<1> QED BY <1>1, <1>2, <1>3, SessionStepOK DEF EndpointNext

(* For every body, cap and chunk size and on either transport a response    *)
(* that ends well carried the bytes it declared; and whatever interfaces    *)
(* come and go, a datagram whose destination was reported is answered from  *)
(* it unless it has gone, and the kernel chooses the source otherwise.      *)
THEOREM RepliesAreExact == EndpointSpec => []RepliesExact
<1>1. EndpointInit => SessionInv
  <2> SUFFICES ASSUME EndpointInit PROVE SessionInv
    OBVIOUS
  <2>1. SessionOK(NoSession)
    BY DEF SessionOK, NoSession
  <2> QED BY <2>1 DEF EndpointInit, SessionInv
<1>2. SessionInv => RepliesExact
  BY DEF SessionInv, SessionOK, RepliesExact, ResponsesExact, ReplySource
<1> QED BY <1>1, <1>2, SessionInvStep, PTL DEF EndpointSpec

-----------------------------------------------------------------------------
(***************************************************************************)
(* The SDK's concurrency caps and byte budget hold for any number of       *)
(* requests, any caps and any budget.                                      *)
(*                                                                         *)
(* Every step is a step of one request, so the argument is local: what a   *)
(* request record may be (RequestOK: where it holds a slot, what it        *)
(* reserved and moved so far) and how much the record adds to each of the  *)
(* two atomics (InFlight, Transferring).  A step that keeps the first and  *)
(* moves the atomics by the change of the second keeps the sums.           *)
(***************************************************************************)
\* The places of a request: those where it has its permit, and the others.
Permitted == {"route", "budget", "drain", "stream", "drop"}
Phase == Permitted \cup {"idle", "done", "rate", "acquire", "acquire_transfer", "rollback",
                         "drop_transfer"}

\* The type of a request.
RequestRecord ==
  [pc : Phase, kind : Kinds \cup {NoRequest.kind}, stamp : Nat, reserved : Nat, moved : Nat,
   answer : Nat]

\* What a request record adds to in_flight and to transfers.
InFlight(x) == x.pc \in Permitted \cup {"acquire_transfer", "rollback"}
Transferring(x) ==
  x.kind.route \in {"download", "upload"} /\ x.pc \in Permitted \cup {"drop_transfer"}

\* A declared upload that got past route_upload is within the cap, and what
\* it reserved is what upload_reserve says.
UploadReserved(x) ==
  x.kind.route = "upload" =>
    x.kind.asked <= UploadCapBytes /\ x.reserved = upload_reserve(x.kind)

\* What a place says of the request that is there.
RequestOK(x) ==
  /\ x \in RequestRecord
  /\ x.pc \in {"idle", "done"} => x.kind = NoRequest.kind
  /\ x.pc \notin {"idle", "done"} => x.kind \in Kinds
  /\ x.pc \notin {"drain", "stream", "drop", "drop_transfer"} => x.moved = 0
  /\ x.pc \in {"acquire_transfer", "rollback", "drop_transfer", "budget"} =>
       x.kind.route \in {"download", "upload"}
  /\ x.pc = "stream" => x.kind.route = "download"
  /\ x.pc = "drain" => x.kind.route \in {"echo", "upload"} /\ x.moved <= x.kind.body
  /\ x.pc \in {"budget", "drain"} => UploadReserved(x)
  /\ x.kind.route \in {"download", "upload"} =>
       /\ x.moved <= x.reserved
       /\ x.answer = 200 /\ x.pc = "drop" =>
            x.moved = IF x.kind.route = "upload" THEN x.kind.body ELSE x.reserved

\* The inductive invariant.
SdkInv ==
  /\ req \in [Requests -> RequestRecord] /\ \A r \in Requests : RequestOK(req[r])
  /\ now \in Nat /\ in_flight \in Nat /\ transfers \in Nat /\ used \in Nat
  /\ in_flight = Cardinality(CountedInFlight) /\ in_flight <= MaxConcurrent
  /\ transfers = Cardinality(CountedTransfers) /\ transfers <= MaxTransfers
  /\ used <= Budget.bytes

-----------------------------------------------------------------------------
(* The sets of the properties, as the requests whose record counts.         *)
LEMMA CountedSets ==
  /\ CountedInFlight = {q \in Requests : InFlight(req[q])}
  /\ CountedTransfers = {q \in Requests : Transferring(req[q])}
BY DEF CountedInFlight, CountedTransfers, Holders, IsTransfer, InFlight, Transferring, Permitted

(* The kinds a request may have are typed as RequestKind says.              *)
LEMMA KindFields ==
  ASSUME NEW k \in Kinds
  PROVE  /\ k.asked \in Int /\ k.body \in Nat
         /\ k.route \in Routes \cup {"outside", "unknown"}
         /\ k.route = "upload" /\ k.asked >= 0 => k.body <= k.asked
<1>1. k \in RequestKind
  BY SdkAssumption
<1>2. k.asked \in Nat \cup {Absent, Invalid}
  BY <1>1 DEF RequestKind
<1>3. k.body \in Nat /\ k.route \in Routes \cup {"outside", "unknown"}
  BY <1>1 DEF RequestKind
<1> QED BY <1>2, <1>3, SdkAssumption DEF Absent, Invalid, FramedBodies

(* How a count changes when only one element's membership may change.       *)
LEMMA Recount ==
  ASSUME NEW S, IsFiniteSet(S), NEW T, NEW r, NEW n \in Nat, n = Cardinality(S), NEW m,
         \A q : q # r => (q \in T <=> q \in S),
         r \in S /\ r \notin T => m = n - 1,
         r \notin S /\ r \in T => m = n + 1,
         (r \in S <=> r \in T) => m = n
  PROVE  m = Cardinality(T) /\ m \in Nat
<1>1. CASE r \in S /\ r \notin T
  <2>1. T = S \ {r}
    BY <1>1
  <2>2. Cardinality(T) = n - 1 /\ IsFiniteSet(T)
    BY <1>1, <2>1, FS_RemoveElement
  <2> QED BY <1>1, <2>2, FS_CardinalityType
<1>2. CASE r \notin S /\ r \in T
  <2>1. T = S \cup {r}
    BY <1>2
  <2>2. Cardinality(T) = n + 1 /\ IsFiniteSet(T)
    BY <1>2, <2>1, FS_AddElement
  <2> QED BY <1>2, <2>2
<1>3. CASE r \in S <=> r \in T
  <2>1. T = S
    BY <1>3
  <2> QED BY <1>3, <2>1
<1> QED BY <1>1, <1>2, <1>3

(* A step of one request that keeps its record sound and moves the atomics  *)
(* by what the record's contribution changed keeps the invariant.           *)
LEMMA RequestStep ==
  ASSUME SdkInv, NEW r \in Requests, NEW y, req' = [req EXCEPT ![r] = y], RequestOK(y),
         InFlight(req[r]) /\ ~InFlight(y) => in_flight' = in_flight - 1,
         ~InFlight(req[r]) /\ InFlight(y) => in_flight' = in_flight + 1 /\ in_flight < MaxConcurrent,
         (InFlight(req[r]) <=> InFlight(y)) => in_flight' = in_flight,
         Transferring(req[r]) /\ ~Transferring(y) => transfers' = transfers - 1,
         ~Transferring(req[r]) /\ Transferring(y) =>
            transfers' = transfers + 1 /\ transfers < MaxTransfers,
         (Transferring(req[r]) <=> Transferring(y)) => transfers' = transfers,
         used' \in Nat, used' <= Budget.bytes, now' = now
  PROVE  SdkInv'
<1>1. /\ req' \in [Requests -> RequestRecord]
      /\ \A q \in Requests : req'[q] = IF q = r THEN y ELSE req[q]
  BY DEF SdkInv, RequestOK
<1>2. \A q \in Requests : RequestOK(req'[q])
  BY <1>1 DEF SdkInv
<1>f. /\ IsFiniteSet({q \in Requests : InFlight(req[q])})
      /\ IsFiniteSet({q \in Requests : Transferring(req[q])})
  <2>1. IsFiniteSet(Requests)
    BY SdkAssumption
  <2> QED BY <2>1, FS_Subset
<1> DEFINE I == {q \in Requests : InFlight(req[q])}
           J == {q \in Requests : InFlight(req'[q])}
           T == {q \in Requests : Transferring(req[q])}
           U == {q \in Requests : Transferring(req'[q])}
<1>3. CountedInFlight = I /\ CountedTransfers = T
  BY CountedSets
<1>4. CountedInFlight' = J /\ CountedTransfers' = U
  BY DEF CountedInFlight, CountedTransfers, Holders, IsTransfer, InFlight, Transferring, Permitted
<1>5. /\ \A q : q # r => (q \in J <=> q \in I) /\ (q \in U <=> q \in T)
      /\ (r \in I <=> InFlight(req[r])) /\ (r \in J <=> InFlight(y))
      /\ (r \in T <=> Transferring(req[r])) /\ (r \in U <=> Transferring(y))
  BY <1>1
<1>6. /\ in_flight \in Nat /\ transfers \in Nat
      /\ in_flight = Cardinality(I) /\ transfers = Cardinality(T)
      /\ in_flight <= MaxConcurrent /\ transfers <= MaxTransfers
  BY <1>3 DEF SdkInv
<1>7. MaxConcurrent \in Nat /\ MaxTransfers \in Nat
  BY SdkAssumption
<1> HIDE DEF I, J, T, U
<1>8. in_flight' = Cardinality(J) /\ in_flight' \in Nat
  <2>1. IsFiniteSet(I) /\ \A q : q # r => (q \in J <=> q \in I)
    BY <1>5, <1>f DEF I
  <2>2. /\ r \in I /\ r \notin J => in_flight' = in_flight - 1
        /\ r \notin I /\ r \in J => in_flight' = in_flight + 1
        /\ (r \in I <=> r \in J) => in_flight' = in_flight
    BY <1>5
  <2> QED BY <1>6, <2>1, <2>2, Recount
<1>9. transfers' = Cardinality(U) /\ transfers' \in Nat
  <2>1. IsFiniteSet(T) /\ \A q : q # r => (q \in U <=> q \in T)
    BY <1>5, <1>f DEF T
  <2>2. /\ r \in T /\ r \notin U => transfers' = transfers - 1
        /\ r \notin T /\ r \in U => transfers' = transfers + 1
        /\ (r \in T <=> r \in U) => transfers' = transfers
    BY <1>5
  <2> QED BY <1>6, <2>1, <2>2, Recount
<1>10. in_flight' <= MaxConcurrent /\ transfers' <= MaxTransfers
  BY <1>6, <1>7, <1>8, <1>9
<1> QED BY <1>1, <1>2, <1>4, <1>8, <1>9, <1>10 DEF SdkInv

-----------------------------------------------------------------------------
(* What the three ways to move a request on leave in its record.            *)

(* A request that is over is forgotten: it holds nothing.                   *)
LEMMA FinishedOK ==
  RequestOK(Over) /\ ~InFlight(Over) /\ ~Transferring(Over)
<1>1. Over = [pc |-> "done", kind |-> NoRequest.kind, stamp |-> 0, reserved |-> 0,
              moved |-> 0, answer |-> 0]
  BY DEF Over, NoRequest
<1>2. NoRequest.kind.route = "outside"
  BY DEF NoRequest
<1>3. Over \in RequestRecord
  BY <1>1 DEF RequestRecord, Phase, Permitted
<1> QED BY <1>1, <1>2, <1>3 DEF RequestOK, InFlight, Transferring, Permitted, UploadReserved

(* Goto changes the phase and forgets the clock value.                      *)
LEMMA GotoRecord ==
  ASSUME SdkInv, NEW r \in Requests, NEW p \in Phase, Goto(r, p)
  PROVE  \E y \in RequestRecord :
            /\ req' = [req EXCEPT ![r] = y] /\ y.pc = p /\ y.kind = req[r].kind
            /\ y.reserved = req[r].reserved /\ y.moved = req[r].moved
            /\ y.answer = req[r].answer
<1>1. req \in [Requests -> RequestRecord] /\ req[r] \in RequestRecord
  BY DEF SdkInv
<1> DEFINE y == [req[r] EXCEPT !.pc = p, !.stamp = 0]
<1>2. y \in RequestRecord /\ y.pc = p /\ y.kind = req[r].kind /\ y.reserved = req[r].reserved
      /\ y.moved = req[r].moved /\ y.answer = req[r].answer
  BY <1>1 DEF RequestRecord
<1>3. req' = [req EXCEPT ![r] = y]
  BY <1>1 DEF Goto, RequestRecord
<1> QED BY <1>2, <1>3

(* Respond records the status and leaves the permit to be dropped.          *)
LEMMA RespondRecord ==
  ASSUME SdkInv, NEW r \in Requests, NEW status \in Nat, Respond(r, status)
  PROVE  \E y \in RequestRecord :
            /\ req' = [req EXCEPT ![r] = y] /\ y.pc = "drop" /\ y.kind = req[r].kind
            /\ y.reserved = req[r].reserved /\ y.moved = req[r].moved /\ y.answer = status
<1>1. req \in [Requests -> RequestRecord] /\ req[r] \in RequestRecord
  BY DEF SdkInv
<1> DEFINE y == [req[r] EXCEPT !.pc = "drop", !.answer = status]
<1>2. y \in RequestRecord /\ y.pc = "drop" /\ y.kind = req[r].kind /\ y.reserved = req[r].reserved
      /\ y.moved = req[r].moved /\ y.answer = status
  BY <1>1 DEF RequestRecord, Phase, Permitted
<1>3. req' = [req EXCEPT ![r] = y]
  BY <1>1 DEF Respond, RequestRecord
<1> QED BY <1>2, <1>3

(* The budget and the atomics are numbers within their limits.              *)
LEMMA Numbers ==
  ASSUME SdkInv
  PROVE  /\ now \in Nat /\ in_flight \in Nat /\ transfers \in Nat /\ used \in Nat /\ used <= Budget.bytes
         /\ MaxConcurrent \in Nat /\ MaxTransfers \in Nat /\ Budget.bytes \in Nat
         /\ UploadCapBytes \in Nat /\ DownloadCapBytes \in Nat /\ DefaultCapBytes \in Nat /\ EchoCap \in Nat
BY SdkAssumption DEF SdkInv

(* A request that ends where it holds no slot.                              *)
LEMMA FinishUncounted ==
  ASSUME SdkInv, NEW r \in Requests, Finish(r), ~InFlight(req[r]), ~Transferring(req[r]),
         UNCHANGED <<now, in_flight, transfers, used>>
  PROVE  SdkInv'
BY FinishedOK, RequestStep, Numbers DEF Finish

(* A phase without any slot before and after.                               *)
LEMMA ArriveInv ==
  ASSUME SdkInv, NEW r \in Requests, NEW kind \in Kinds, NEW disabled \in BOOLEAN,
         Arrive(r, kind, disabled)
  PROVE  SdkInv'
<1>1. req[r] \in RequestRecord /\ req[r].pc = "idle" /\ RequestOK(req[r])
  BY DEF SdkInv, Arrive
<1>2. ~InFlight(req[r]) /\ ~Transferring(req[r]) /\ UNCHANGED <<now, in_flight, transfers, used>>
  BY <1>1 DEF InFlight, Transferring, Permitted, Arrive, slots, budget
<1>3. CASE kind.route = "outside" \/ disabled
  <2>1. Finish(r)
    BY <1>3 DEF Arrive, Finish
  <2> QED BY <1>2, <2>1, FinishUncounted
<1>4. CASE ~(kind.route = "outside" \/ disabled)
  <2> DEFINE y == [req[r] EXCEPT !.pc = "rate", !.kind = kind, !.stamp = now]
  <2>1. req' = [req EXCEPT ![r] = y]
    BY <1>4 DEF Arrive
  <2>2. y \in RequestRecord /\ y.pc = "rate" /\ y.kind = kind /\ y.moved = req[r].moved
        /\ y.reserved = req[r].reserved
    BY <1>1, Numbers DEF RequestRecord, Phase
  <2>3. y.moved = 0 /\ y.reserved \in Nat
    BY <1>1, <2>2 DEF RequestOK, RequestRecord
  <2> HIDE DEF y
  <2>4. RequestOK(y) /\ ~InFlight(y) /\ ~Transferring(y)
    BY <2>2, <2>3 DEF RequestOK, InFlight, Transferring, Permitted
  <2> QED BY <1>2, <2>1, <2>4, RequestStep, Numbers
<1> QED BY <1>3, <1>4

(* RateLimiter::check and the token: whatever the buckets say, the request  *)
(* goes on to the caps or is over, and holds nothing.                       *)
LEMMA RateCheckInv ==
  ASSUME SdkInv, NEW r \in Requests, RateCheck(r)
  PROVE  SdkInv'
<1>1. req[r].pc = "rate" /\ RequestOK(req[r]) /\ UNCHANGED <<now, in_flight, transfers, used>>
  BY DEF RateCheck, SdkInv, slots, budget
<1>2. ~InFlight(req[r]) /\ ~Transferring(req[r])
  BY <1>1 DEF InFlight, Transferring, Permitted
<1>3. Goto(r, "acquire") \/ Finish(r)
  BY DEF RateCheck, Allowed
<1>4. CASE Goto(r, "acquire")
  <2>1. PICK y \in RequestRecord :
            /\ req' = [req EXCEPT ![r] = y] /\ y.pc = "acquire" /\ y.kind = req[r].kind
            /\ y.reserved = req[r].reserved /\ y.moved = req[r].moved
            /\ y.answer = req[r].answer
    BY <1>4, GotoRecord DEF Phase
  <2>2. RequestOK(y) /\ ~InFlight(y) /\ ~Transferring(y)
    BY <1>1, <2>1 DEF RequestOK, InFlight, Transferring, Permitted
  <2> QED BY <1>1, <1>2, <2>1, <2>2, RequestStep, Numbers
<1> QED BY <1>1, <1>2, <1>3, <1>4, FinishUncounted

-----------------------------------------------------------------------------
(* Concurrency::acquire and the drop of a permit.                           *)

(* The first atomic is taken below its cap or the request is over.          *)
LEMMA AcquireSlotInv ==
  ASSUME SdkInv, NEW r \in Requests, AcquireSlot(r)
  PROVE  SdkInv'
<1>1. req[r].pc = "acquire" /\ RequestOK(req[r]) /\ UNCHANGED <<now, transfers, used>>
  BY DEF AcquireSlot, SdkInv, budget
<1>2. ~InFlight(req[r]) /\ ~Transferring(req[r])
  BY <1>1 DEF InFlight, Transferring, Permitted
<1>3. CASE in_flight >= MaxConcurrent
  BY <1>1, <1>2, <1>3, FinishUncounted DEF AcquireSlot
<1>4. CASE ~(in_flight >= MaxConcurrent) /\ IsTransfer(r)
  <2>1. PICK y \in RequestRecord :
            /\ req' = [req EXCEPT ![r] = y] /\ y.pc = "acquire_transfer" /\ y.kind = req[r].kind
            /\ y.reserved = req[r].reserved /\ y.moved = req[r].moved
            /\ y.answer = req[r].answer
    BY <1>4, GotoRecord DEF Phase, AcquireSlot
  <2>2. RequestOK(y) /\ InFlight(y) /\ ~Transferring(y)
    BY <1>1, <1>4, <2>1 DEF RequestOK, InFlight, Transferring, Permitted, IsTransfer
  <2>3. in_flight' = in_flight + 1 /\ in_flight < MaxConcurrent
    BY <1>4, Numbers DEF AcquireSlot
  <2> QED BY <1>1, <1>2, <2>1, <2>2, <2>3, RequestStep, Numbers
<1>5. CASE ~(in_flight >= MaxConcurrent) /\ ~IsTransfer(r)
  <2>1. PICK y \in RequestRecord :
            /\ req' = [req EXCEPT ![r] = y] /\ y.pc = "route" /\ y.kind = req[r].kind
            /\ y.reserved = req[r].reserved /\ y.moved = req[r].moved
            /\ y.answer = req[r].answer
    BY <1>5, GotoRecord DEF Phase, Permitted, AcquireSlot
  <2>2. RequestOK(y) /\ InFlight(y) /\ ~Transferring(y)
    BY <1>1, <1>5, <2>1 DEF RequestOK, InFlight, Transferring, Permitted, IsTransfer
  <2>3. in_flight' = in_flight + 1 /\ in_flight < MaxConcurrent
    BY <1>5, Numbers DEF AcquireSlot
  <2> QED BY <1>1, <1>2, <2>1, <2>2, <2>3, RequestStep, Numbers
<1> QED BY <1>3, <1>4, <1>5

(* The second atomic is taken below its cap, or the first is rolled back in *)
(* a later step, until which the request still counts in it.                *)
LEMMA AcquireTransferInv ==
  ASSUME SdkInv, NEW r \in Requests, AcquireTransfer(r)
  PROVE  SdkInv'
<1>1. req[r].pc = "acquire_transfer" /\ RequestOK(req[r]) /\ UNCHANGED <<now, in_flight, used>>
  BY DEF AcquireTransfer, SdkInv, budget
<1>2. InFlight(req[r]) /\ ~Transferring(req[r])
  BY <1>1 DEF InFlight, Transferring, Permitted
<1>3. CASE transfers >= MaxTransfers
  <2>1. PICK y \in RequestRecord :
            /\ req' = [req EXCEPT ![r] = y] /\ y.pc = "rollback" /\ y.kind = req[r].kind
            /\ y.reserved = req[r].reserved /\ y.moved = req[r].moved
            /\ y.answer = req[r].answer
    BY <1>3, GotoRecord DEF Phase, AcquireTransfer
  <2>2. RequestOK(y) /\ InFlight(y) /\ ~Transferring(y)
    BY <1>1, <2>1 DEF RequestOK, InFlight, Transferring, Permitted
  <2>3. transfers' = transfers
    BY <1>3 DEF AcquireTransfer
  <2> QED BY <1>1, <1>2, <2>1, <2>2, <2>3, RequestStep, Numbers
<1>4. CASE ~(transfers >= MaxTransfers)
  <2>1. PICK y \in RequestRecord :
            /\ req' = [req EXCEPT ![r] = y] /\ y.pc = "route" /\ y.kind = req[r].kind
            /\ y.reserved = req[r].reserved /\ y.moved = req[r].moved
            /\ y.answer = req[r].answer
    BY <1>4, GotoRecord DEF Phase, Permitted, AcquireTransfer
  <2>2. RequestOK(y) /\ InFlight(y) /\ Transferring(y)
    BY <1>1, <2>1 DEF RequestOK, InFlight, Transferring, Permitted
  <2>3. transfers' = transfers + 1 /\ transfers < MaxTransfers
    BY <1>4, Numbers DEF AcquireTransfer
  <2> QED BY <1>1, <1>2, <2>1, <2>2, <2>3, RequestStep, Numbers
<1> QED BY <1>3, <1>4

(* The roll-back and the two halves of a permit's drop give back exactly    *)
(* what the request still counts in.                                        *)
LEMMA ReleaseInv ==
  ASSUME SdkInv, NEW r \in Requests, Rollback(r) \/ DropSlot(r) \/ DropTransfer(r)
  PROVE  SdkInv'
<1>1. RequestOK(req[r]) /\ UNCHANGED <<now, used>>
  BY DEF Rollback, DropSlot, DropTransfer, SdkInv, budget
<1>2. CASE Rollback(r)
  <2>1. InFlight(req[r]) /\ ~Transferring(req[r])
    BY <1>2 DEF Rollback, InFlight, Transferring, Permitted
  <2>2. in_flight' = in_flight - 1 /\ transfers' = transfers /\ Finish(r)
    BY <1>2 DEF Rollback
  <2> QED BY <1>1, <2>1, <2>2, FinishedOK, RequestStep, Numbers DEF Finish
<1>3. CASE DropTransfer(r)
  <2>1. ~InFlight(req[r]) /\ Transferring(req[r])
    BY <1>1, <1>3 DEF DropTransfer, InFlight, Transferring, Permitted, RequestOK
  <2>2. in_flight' = in_flight /\ transfers' = transfers - 1 /\ Finish(r)
    BY <1>3 DEF DropTransfer
  <2> QED BY <1>1, <2>1, <2>2, FinishedOK, RequestStep, Numbers DEF Finish
<1>4. CASE DropSlot(r) /\ ~IsTransfer(r)
  <2>1. InFlight(req[r]) /\ ~Transferring(req[r])
    BY <1>4 DEF DropSlot, InFlight, Transferring, Permitted, IsTransfer
  <2>2. in_flight' = in_flight - 1 /\ transfers' = transfers /\ Finish(r)
    BY <1>4 DEF DropSlot
  <2> QED BY <1>1, <2>1, <2>2, FinishedOK, RequestStep, Numbers DEF Finish
<1>5. CASE DropSlot(r) /\ IsTransfer(r)
  <2>1. InFlight(req[r]) /\ Transferring(req[r])
    BY <1>5 DEF DropSlot, InFlight, Transferring, Permitted, IsTransfer
  <2>2. in_flight' = in_flight - 1 /\ transfers' = transfers /\ Goto(r, "drop_transfer")
    BY <1>5 DEF DropSlot
  <2>3. PICK y \in RequestRecord :
            /\ req' = [req EXCEPT ![r] = y] /\ y.pc = "drop_transfer" /\ y.kind = req[r].kind
            /\ y.reserved = req[r].reserved /\ y.moved = req[r].moved
            /\ y.answer = req[r].answer
    BY <2>2, GotoRecord DEF Phase
  <2>4. RequestOK(y) /\ ~InFlight(y) /\ Transferring(y)
    BY <1>1, <1>5, <2>3 DEF RequestOK, InFlight, Transferring, Permitted, IsTransfer, DropSlot
  <2> QED BY <1>1, <2>1, <2>2, <2>3, <2>4, RequestStep, Numbers
<1> QED BY <1>2, <1>3, <1>4, <1>5

-----------------------------------------------------------------------------
(* Routes and bodies: the permit is held throughout.                        *)

(* A step of a request that keeps its permit and the budget.                *)
LEMMA PermitKept ==
  ASSUME SdkInv, NEW r \in Requests, req[r].pc \in Permitted,
         NEW y \in RequestRecord, req' = [req EXCEPT ![r] = y],
         y.pc \in Permitted, y.kind = req[r].kind, RequestOK(y),
         UNCHANGED <<now, in_flight, transfers>>, used' \in Nat, used' <= Budget.bytes
  PROVE  SdkInv'
<1>1. InFlight(req[r]) /\ InFlight(y) /\ (Transferring(req[r]) <=> Transferring(y))
  BY DEF InFlight, Transferring
<1> QED BY <1>1, RequestStep

(* A response other than a transfer's success.                              *)
LEMMA RespondInv ==
  ASSUME SdkInv, NEW r \in Requests, NEW status \in Nat, Respond(r, status),
         req[r].pc \in {"route", "drain", "stream"},
         status = 200 /\ req[r].kind.route \in {"download", "upload"} =>
            req[r].kind.route = "upload" /\ req[r].moved = req[r].kind.body,
         UNCHANGED <<now, slots, budget>>
  PROVE  SdkInv'
<1>1. PICK y \in RequestRecord :
            /\ req' = [req EXCEPT ![r] = y] /\ y.pc = "drop" /\ y.kind = req[r].kind
            /\ y.reserved = req[r].reserved /\ y.moved = req[r].moved /\ y.answer = status
  BY RespondRecord
<1>2. RequestOK(req[r]) /\ req[r].pc \in Permitted /\ y.pc \in Permitted
  BY <1>1 DEF SdkInv, Permitted
<1>3. RequestOK(y)
  BY <1>1, <1>2 DEF RequestOK
<1> QED BY <1>1, <1>2, <1>3, PermitKept, Numbers DEF slots, budget

(* The template routes, the unknown and the disabled ones, and a body that  *)
(* breaks off: never a transfer's success.                                  *)
LEMMA RefusedInv ==
  ASSUME SdkInv, NEW r \in Requests, SimpleRoute(r) \/ DrainBreaks(r) \/ Hangup(r)
  PROVE  SdkInv'
<1>1. CASE SimpleRoute(r)
  <2> DEFINE k == req[r].kind
             status == IF k.route \notin {"health"} \union Toggles THEN 404
                       ELSE IF ~k.method THEN 405 ELSE 200
  <2>1. status \in Nat /\ Respond(r, status) /\ UNCHANGED <<now, slots, budget>>
    BY <1>1 DEF SimpleRoute
  <2>2. status = 200 => k.route \notin {"download", "upload"}
    BY <1>1 DEF SimpleRoute
  <2>3. req[r].pc = "route"
    BY <1>1 DEF SimpleRoute
  <2> HIDE DEF status
  <2> QED BY <2>1, <2>2, <2>3, RespondInv
<1>2. CASE DrainBreaks(r)
  <2>1. Respond(r, 500) /\ req[r].pc = "drain" /\ UNCHANGED <<now, slots, budget>>
    BY <1>2 DEF DrainBreaks
  <2> QED BY <2>1, RespondInv
<1>3. CASE Hangup(r)
  <2>1. Respond(r, 0) /\ req[r].pc \in {"drain", "stream"} /\ UNCHANGED <<now, slots, budget>>
    BY <1>3 DEF Hangup
  <2> QED BY <2>1, RespondInv
<1> QED BY <1>1, <1>2, <1>3

(* route_echo refuses or starts to drain.                                   *)
LEMMA EchoInv ==
  ASSUME SdkInv, NEW r \in Requests, route_echo(r)
  PROVE  SdkInv'
<1>1. /\ req[r].pc = "route" /\ req[r].kind.route = "echo" /\ UNCHANGED <<now, slots, budget>>
      /\ RequestOK(req[r])
  BY DEF route_echo, SdkInv
<1>2. ASSUME NEW status \in {405, 413}, Respond(r, status) PROVE SdkInv'
  BY <1>1, <1>2, RespondInv
<1>3. CASE Goto(r, "drain")
  <2>1. PICK y \in RequestRecord :
            /\ req' = [req EXCEPT ![r] = y] /\ y.pc = "drain" /\ y.kind = req[r].kind
            /\ y.reserved = req[r].reserved /\ y.moved = req[r].moved
            /\ y.answer = req[r].answer
    BY <1>3, GotoRecord DEF Phase, Permitted
  <2>2. y.kind.body \in Nat /\ y.moved = 0
    BY <1>1, <2>1, KindFields DEF RequestOK
  <2>3. RequestOK(y)
    BY <1>1, <2>1, <2>2 DEF RequestOK, UploadReserved
  <2> QED BY <1>1, <2>1, <2>3, PermitKept, Numbers DEF slots, budget, Permitted
<1> QED BY <1>2, <1>3 DEF route_echo

(* A transfer that asks for its bytes has moved none.                       *)
LEMMA AskBudget ==
  ASSUME SdkInv, NEW r \in Requests, NEW n \in Nat, req[r].pc = "route",
         req[r].kind.route \in {"download", "upload"},
         req' = [req EXCEPT ![r].pc = "budget", ![r].stamp = now, ![r].reserved = n],
         req[r].kind.route = "upload" =>
            req[r].kind.asked <= UploadCapBytes /\ n = upload_reserve(req[r].kind),
         UNCHANGED <<now, slots, budget>>
  PROVE  SdkInv'
<1>1. req \in [Requests -> RequestRecord] /\ req[r] \in RequestRecord /\ RequestOK(req[r])
  BY DEF SdkInv
<1> DEFINE y == [req[r] EXCEPT !.pc = "budget", !.stamp = now, !.reserved = n]
<1>2. /\ y \in RequestRecord /\ y.pc = "budget" /\ y.kind = req[r].kind /\ y.reserved = n
      /\ y.moved = req[r].moved /\ y.answer = req[r].answer
  BY <1>1, Numbers DEF RequestRecord, Phase, Permitted
<1>3. req' = [req EXCEPT ![r] = y]
  BY <1>1 DEF RequestRecord
<1> HIDE DEF y
<1>4. RequestOK(y)
  BY <1>1, <1>2 DEF RequestOK, UploadReserved
<1> QED BY <1>2, <1>3, <1>4, PermitKept, Numbers DEF slots, budget, Permitted

(* route_download asks for at most the cap, route_upload for what is        *)
(* declared, or for the cap when nothing is.                                *)
LEMMA TransferRouteInv ==
  ASSUME SdkInv, NEW r \in Requests, route_download(r) \/ route_upload(r)
  PROVE  SdkInv'
<1> DEFINE k == req[r].kind
<1>1. req[r].pc = "route" /\ UNCHANGED <<now, slots, budget>> /\ k \in Kinds
  BY DEF route_download, route_upload, SdkInv, RequestOK
<1>2. k.asked \in Int
  BY <1>1, KindFields
<1>3. ASSUME NEW status \in {400, 405, 413}, Respond(r, status) PROVE SdkInv'
  BY <1>1, <1>3, RespondInv
<1>4. CASE /\ route_download(r) /\ k.asked # Invalid
           /\ req' = [req EXCEPT ![r].pc = "budget", ![r].stamp = now, ![r].reserved = download_size(k)]
  <2>1. k.route = "download"
    BY <1>4 DEF route_download
  <2>2. k.asked \in Nat \cup {Absent, Invalid}
    BY <1>1, SdkAssumption DEF RequestKind
  <2>3. download_size(k) \in Nat
    BY <1>4, <2>2, Numbers DEF download_size, Smaller
  <2> QED BY <1>1, <1>4, <2>1, <2>3, AskBudget
<1>5. CASE /\ route_upload(r) /\ ~(k.asked > UploadCapBytes)
           /\ req' = [req EXCEPT ![r].pc = "budget", ![r].stamp = now, ![r].reserved = upload_reserve(k)]
  <2>1. k.route = "upload"
    BY <1>5 DEF route_upload
  <2>2. upload_reserve(k) \in Nat /\ k.asked <= UploadCapBytes
    BY <1>2, <1>5, Numbers DEF upload_reserve, Smaller
  <2> QED BY <1>1, <1>5, <2>1, <2>2, AskBudget
<1> QED BY <1>3, <1>4, <1>5 DEF route_download, route_upload

\* A request that moved on with an answer, what it had reserved given up or kept.
Refused(x, p, a) == [x EXCEPT !.pc = p, !.stamp = 0, !.reserved = 0, !.answer = a]
Granted(x, p, a) == [x EXCEPT !.pc = p, !.stamp = 0, !.answer = a]

LEMMA AnsweredRequest ==
  ASSUME NEW x \in RequestRecord, NEW p \in Phase, NEW a \in Nat
  PROVE  LET y == Refused(x, p, a)
             z == Granted(x, p, a)
         IN  /\ y \in RequestRecord /\ y.pc = p /\ y.kind = x.kind /\ y.reserved = 0
             /\ y.moved = x.moved /\ y.answer = a
             /\ z \in RequestRecord /\ z.pc = p /\ z.kind = x.kind /\ z.reserved = x.reserved
             /\ z.moved = x.moved /\ z.answer = a
BY DEF RequestRecord, Refused, Granted

(* ByteBudgetTracker::reserve hands out only what is left of the window.    *)
LEMMA ReserveInv ==
  ASSUME SdkInv, NEW r \in Requests, reserve(r)
  PROVE  SdkInv'
<1> DEFINE x == req[r]
           expired == x.stamp >= opened + Budget.window
           spent == IF expired THEN 0 ELSE used
           fits == spent + x.reserved <= Budget.bytes
<1>1. /\ x \in RequestRecord /\ x.pc = "budget" /\ RequestOK(x) /\ x.reserved \in Nat
      /\ req \in [Requests -> RequestRecord] /\ UNCHANGED <<now, in_flight, transfers>>
  BY DEF SdkInv, reserve, slots, RequestRecord
<1>2. spent \in Nat /\ spent <= Budget.bytes
  BY Numbers
<1>3. used' = IF fits THEN spent + x.reserved ELSE spent
  BY DEF reserve
<1>4. used' \in Nat /\ used' <= Budget.bytes
  BY <1>1, <1>2, <1>3, Numbers
<1> HIDE DEF spent
<1>5. CASE ~fits
  <2> DEFINE y == Refused(x, "drop", 429)
  <2>1. /\ y \in RequestRecord /\ y.pc = "drop" /\ y.kind = x.kind /\ y.reserved = 0
        /\ y.moved = x.moved /\ y.answer = 429
    <3>1. "drop" \in Phase /\ 429 \in Nat
      BY DEF Phase, Permitted
    <3> HIDE DEF x
    <3> QED BY <1>1, <3>1, AnsweredRequest
  <2>2. req' = [req EXCEPT ![r] = y]
    BY <1>5 DEF reserve, spent, Refused
  <2> HIDE DEF y
  <2>3. RequestOK(y)
    BY <1>1, <2>1 DEF RequestOK
  <2>4. /\ x.pc \in Permitted /\ y.pc \in Permitted
        /\ y \in RequestRecord /\ y.kind = x.kind /\ UNCHANGED <<now, in_flight, transfers>>
    BY <1>1, <2>1 DEF Permitted
  <2> QED BY <1>4, <2>2, <2>3, <2>4, PermitKept
<1>6. CASE fits /\ x.kind.route = "download"
  <2> DEFINE y == Granted(x, "stream", 200)
  <2>1. /\ y \in RequestRecord /\ y.pc = "stream" /\ y.kind = x.kind /\ y.reserved = x.reserved
        /\ y.moved = x.moved /\ y.answer = 200
    <3>1. "stream" \in Phase /\ 200 \in Nat
      BY DEF Phase, Permitted
    <3> HIDE DEF x
    <3> QED BY <1>1, <3>1, AnsweredRequest
  <2>2. req' = [req EXCEPT ![r] = y]
    BY <1>6 DEF reserve, spent, Granted
  <2> HIDE DEF y
  <2>3. RequestOK(y)
    BY <1>1, <1>6, <2>1 DEF RequestOK
  <2> QED BY <1>1, <1>4, <2>1, <2>2, <2>3, PermitKept DEF Permitted
<1>7. CASE fits /\ x.kind.route # "download"
  <2> DEFINE y == [x EXCEPT !.pc = "drain", !.stamp = 0]
  <2>1. /\ y \in RequestRecord /\ y.pc = "drain" /\ y.kind = x.kind /\ y.reserved = x.reserved
        /\ y.moved = x.moved /\ y.answer = x.answer
    BY <1>1 DEF RequestRecord, Phase, Permitted
  <2>2. req' = [req EXCEPT ![r] = y]
    BY <1>7 DEF reserve, spent
  <2> HIDE DEF y
  <2>3. y.moved = 0 /\ y.kind.body \in Nat
    BY <1>1, <2>1, KindFields DEF RequestOK
  <2>4. RequestOK(y)
    BY <1>1, <1>7, <2>1, <2>3 DEF RequestOK, UploadReserved
  <2> QED BY <1>1, <1>4, <2>1, <2>2, <2>4, PermitKept DEF Permitted
<1> QED BY <1>5, <1>6, <1>7

(* One more chunk of a body.                                                *)
LEMMA MovedRecord ==
  ASSUME SdkInv, NEW r \in Requests, req' = [req EXCEPT ![r].moved = @ + 1]
  PROVE  \E y \in RequestRecord :
            /\ req' = [req EXCEPT ![r] = y] /\ y.pc = req[r].pc /\ y.kind = req[r].kind
            /\ y.reserved = req[r].reserved /\ y.moved = req[r].moved + 1
            /\ y.answer = req[r].answer
<1>1. req \in [Requests -> RequestRecord] /\ req[r] \in RequestRecord /\ req[r].moved + 1 \in Nat
  BY DEF SdkInv, RequestRecord
<1> DEFINE m == req[r].moved + 1
           y == [req[r] EXCEPT !.moved = m]
<1>2. req' = [req EXCEPT ![r] = y]
  OBVIOUS
<1> HIDE DEF m
<1>3. /\ y \in RequestRecord /\ y.pc = req[r].pc /\ y.kind = req[r].kind
      /\ y.reserved = req[r].reserved /\ y.moved = m /\ y.answer = req[r].answer
  BY <1>1 DEF RequestRecord, m
<1> QED BY <1>2, <1>3 DEF m

(* DownloadBody::poll_frame stops at the reserved bytes.                    *)
LEMMA StreamFrameInv ==
  ASSUME SdkInv, NEW r \in Requests, StreamFrame(r)
  PROVE  SdkInv'
<1>1. /\ req[r] \in RequestRecord /\ req[r].pc = "stream" /\ RequestOK(req[r])
      /\ UNCHANGED <<now, slots, budget>>
      /\ req[r].moved \in Nat /\ req[r].reserved \in Nat
  BY DEF SdkInv, StreamFrame, RequestRecord
<1>2. CASE req[r].moved < req[r].reserved
  <2>1. PICK y \in RequestRecord :
            /\ req' = [req EXCEPT ![r] = y] /\ y.pc = req[r].pc /\ y.kind = req[r].kind
            /\ y.reserved = req[r].reserved /\ y.moved = req[r].moved + 1
            /\ y.answer = req[r].answer
    BY <1>2, MovedRecord DEF StreamFrame
  <2>2. RequestOK(y)
    BY <1>1, <1>2, <2>1 DEF RequestOK
  <2> QED BY <1>1, <2>1, <2>2, PermitKept, Numbers DEF slots, budget, Permitted
<1>3. CASE ~(req[r].moved < req[r].reserved)
  <2>1. PICK y \in RequestRecord :
            /\ req' = [req EXCEPT ![r] = y] /\ y.pc = "drop" /\ y.kind = req[r].kind
            /\ y.reserved = req[r].reserved /\ y.moved = req[r].moved
            /\ y.answer = req[r].answer
    BY <1>3, GotoRecord DEF StreamFrame, Phase, Permitted
  <2>2. RequestOK(y)
    BY <1>1, <1>3, <2>1 DEF RequestOK
  <2> QED BY <1>1, <2>1, <2>2, PermitKept, Numbers DEF slots, budget, Permitted
<1> QED BY <1>2, <1>3

(* drain_capped: an upload's next chunk is within its reservation, because  *)
(* the drain's cap is what an undeclared upload reserved and the framing    *)
(* ends a declared one at its declared length.                              *)
LEMMA DrainInv ==
  ASSUME SdkInv, NEW r \in Requests, drain_capped(r)
  PROVE  SdkInv'
<1> DEFINE x == req[r]
           k == req[r].kind
<1>1. /\ x \in RequestRecord /\ x.pc = "drain" /\ RequestOK(x) /\ k \in Kinds
      /\ UNCHANGED <<now, slots, budget>>
      /\ x.moved \in Nat /\ x.reserved \in Nat
  BY DEF SdkInv, drain_capped, RequestRecord, RequestOK
<1>2. /\ k.asked \in Int /\ k.body \in Nat /\ k.route \in {"echo", "upload"}
      /\ k.route = "upload" /\ k.asked >= 0 => k.body <= k.asked
      /\ x.moved <= k.body
  BY <1>1, KindFields DEF RequestOK
<1>3. CASE x.moved < k.body /\ x.moved + 1 > DrainCap(r)
  <2>1. Respond(r, 413)
    BY <1>3 DEF drain_capped
  <2> QED BY <1>1, <2>1, RespondInv
<1>4. CASE ~(x.moved < k.body)
  <2>1. Respond(r, 200) /\ x.moved = k.body
    BY <1>1, <1>2, <1>4 DEF drain_capped
  <2> QED BY <1>1, <1>2, <2>1, RespondInv
<1>5. CASE x.moved < k.body /\ ~(x.moved + 1 > DrainCap(r))
  <2>1. PICK y \in RequestRecord :
            /\ req' = [req EXCEPT ![r] = y] /\ y.pc = x.pc /\ y.kind = k
            /\ y.reserved = x.reserved /\ y.moved = x.moved + 1
            /\ y.answer = x.answer
    BY <1>5, MovedRecord DEF drain_capped
  <2>2. y.moved <= k.body
    BY <1>1, <1>2, <1>5, <2>1
  <2>3. k.route = "upload" => y.moved <= y.reserved
    <3> SUFFICES ASSUME k.route = "upload" PROVE x.moved + 1 <= x.reserved
      BY <2>1
    <3>1. k.asked <= UploadCapBytes /\ x.reserved = upload_reserve(k)
      BY <1>1 DEF RequestOK, UploadReserved
    <3>2. CASE k.asked < 0
      BY <3>1, <3>2, <1>1, <1>5, Numbers DEF upload_reserve, DrainCap
    <3>3. CASE ~(k.asked < 0)
      <4>1. x.reserved = k.asked
        BY <3>1, <3>3, <1>2, Numbers DEF upload_reserve, Smaller
      <4> QED BY <4>1, <3>3, <1>1, <1>2, <1>5
    <3> QED BY <3>2, <3>3
  <2>4. RequestOK(y)
    BY <1>1, <1>2, <2>1, <2>2, <2>3 DEF RequestOK, UploadReserved
  <2> QED BY <1>1, <2>1, <2>4, PermitKept, Numbers DEF slots, budget, Permitted
<1> QED BY <1>3, <1>4, <1>5

-----------------------------------------------------------------------------
(* The theorems.                                                            *)

(* The service starts empty.                                                *)
LEMMA SdkInitInv == SdkInit => SdkInv
<1> SUFFICES ASSUME SdkInit PROVE SdkInv
  OBVIOUS
<1>1. NoRequest \in RequestRecord
  BY DEF NoRequest, RequestRecord, Phase
<1>2. /\ NoRequest.pc = "idle" /\ NoRequest.moved = 0 /\ NoRequest.reserved = 0
      /\ NoRequest.kind.route = "outside" /\ NoRequest.answer = 0
  BY DEF NoRequest
<1>3. RequestOK(NoRequest) /\ ~InFlight(NoRequest) /\ ~Transferring(NoRequest)
  BY <1>1, <1>2 DEF RequestOK, InFlight, Transferring, Permitted, UploadReserved
<1>4. \A r \in Requests : req[r] = NoRequest
  BY DEF SdkInit
<1>5. CountedInFlight = {} /\ CountedTransfers = {}
  BY <1>3, <1>4, CountedSets
<1>6. req \in [Requests -> RequestRecord]
  BY <1>1 DEF SdkInit
<1> QED BY <1>3, <1>4, <1>5, <1>6, FS_EmptySet, SdkAssumption DEF SdkInit, SdkInv

(* Every step of every thread keeps the inductive invariant.                *)
LEMMA SdkInvariant == SdkSpec => []SdkInv
<1>1. SdkInv /\ [SdkNext]_sdkvars => SdkInv'
  <2> SUFFICES ASSUME SdkInv, [SdkNext]_sdkvars PROVE SdkInv'
    OBVIOUS
  <2>1. CASE ClockTick
    <3>1. now' \in Nat /\ UNCHANGED <<req, in_flight, transfers, used>>
      BY <2>1, Numbers DEF ClockTick, slots, budget
    <3> QED BY <3>1 DEF SdkInv, CountedInFlight, CountedTransfers, Holders, IsTransfer
  <2>2. ASSUME NEW r \in Requests, SdkStep(r) PROVE SdkInv'
    <3>1. ASSUME NEW kind \in Kinds, NEW disabled \in is_disabled, Arrive(r, kind, disabled)
          PROVE  SdkInv'
      <4>1. disabled \in BOOLEAN
        BY SdkAssumption DEF is_disabled
      <4> QED BY <3>1, <4>1, ArriveInv
    <3> QED BY <2>2, <3>1, RateCheckInv, AcquireSlotInv, AcquireTransferInv, ReleaseInv,
              RefusedInv, EchoInv, TransferRouteInv, ReserveInv, StreamFrameInv, DrainInv
           DEF SdkStep
  <2>3. CASE UNCHANGED sdkvars
    <3>1. UNCHANGED <<now, req, in_flight, transfers, used>>
      BY <2>3 DEF sdkvars, slots, budget
    <3> QED BY <3>1 DEF SdkInv, CountedInFlight, CountedTransfers, Holders, IsTransfer
  <2> QED BY <2>1, <2>2, <2>3 DEF SdkNext
<1> QED BY <1>1, SdkInitInv, PTL DEF SdkSpec

(* However threads interleave Concurrency::acquire, its roll-back and the   *)
(* drop of permits, the two atomics count exactly the requests inside and   *)
(* stay within max_concurrent and max_concurrent_transfers.                 *)
THEOREM SlotsAreConserved == SdkSpec => []SlotsConserved
<1>1. SdkInv => SlotsConserved
  BY DEF SdkInv, SlotsConserved, CountedTransfers, Holders
<1> QED BY <1>1, SdkInvariant, PTL

(* No window of the byte budget hands out more than byte_budget, no         *)
(* transfer moves more than it reserved, and a success moved what it says.  *)
THEOREM BudgetIsHeld == SdkSpec => []BudgetHeld
<1>1. SdkInv => BudgetHeld
  BY DEF SdkInv, BudgetHeld, RequestOK, IsTransfer
<1> QED BY <1>1, SdkInvariant, PTL

=============================================================================
