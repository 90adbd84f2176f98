----------------------------- MODULE MCServers --------------------------------
(***************************************************************************)
(* A small instance of the two servers a tester measures against: the      *)
(* endpoint processes of one host, or an application that mounts the SDK.  *)
(* They share nothing, so a behaviour is one of the two.                   *)
(***************************************************************************)
EXTENDS EndpointServer, SdkService, TLC

VARIABLE server
vars == <<server, endvars, sdkvars>>

Config(http, https, echo, throughput, stamp, upstream, token) ==
  [http |-> http, https |-> https, echo |-> echo, throughput |-> throughput, stamp |-> stamp,
   upstream |-> upstream, token |-> token]

\* The network-mode instance; the app-mode one keeps off its ports, or is
\* misconfigured onto its HTTPS and STAMP ports.
MCConfigs ==
  [i \in Instances |->
     IF i = "net" THEN {Config(1, 2, 3, 0, 5, FALSE, FALSE)}
     ELSE {Config(6, 7, 0, 0, 0, TRUE, TRUE), Config(6, 2, 0, 0, 5, FALSE, FALSE)}]

Asked(route, asked, token, body) == [route |-> route, asked |-> asked, token |-> token, body |-> body]
MCAsks == {Asked("download", 3, TRUE, 0), Asked("upload", 0, TRUE, 1), Asked("api", 0, FALSE, 0)}

Kind(route, ip, token, method, asked, body) ==
  [route |-> route, ip |-> ip, token |-> token, method |-> method, asked |-> asked, body |-> body]
MCKinds ==
  {Kind("outside", "a", "none", TRUE, Absent, 0),
   Kind("health", "a", "wrong", TRUE, Absent, 0),
   Kind("info", "b", "old", FALSE, Absent, 0),
   Kind("echo", "b", "new", TRUE, Absent, 2),
   Kind("download", "a", "new", TRUE, 3, 0),
   Kind("upload", "b", "new", TRUE, Absent, 3),
   Kind("upload", "a", "old", TRUE, 1, 1)}

MCGlobalRate == [rps |-> 1, burst |-> 2]
MCIpRate == [rps |-> 1, burst |-> 1]
MCBudget == [bytes |-> 3, window |-> 1]

Symmetry == Permutations(Sessions)

Init == EndpointInit /\ SdkInit /\ server \in {"endpoint", "sdk"}
Next ==
  \/ server = "endpoint" /\ EndpointNext /\ UNCHANGED <<server, sdkvars>>
  \/ server = "sdk" /\ SdkNext /\ UNCHANGED <<server, endvars>>
Spec == Init /\ [][Next]_vars
=============================================================================
