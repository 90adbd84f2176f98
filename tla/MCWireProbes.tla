---------------------------- MODULE MCWireProbes ----------------------------
(***************************************************************************)
(* WireProbes over targets that differ in scheme, in how the host is       *)
(* given, in the records its families have and in the proxy settings.      *)
(***************************************************************************)
EXTENDS WireProbes

Both == [v4 |-> "ips", v6 |-> "ips"]
Only4 == [v4 |-> "ips", v6 |-> "error"]

Target(host, https, dns, via, records, only) ==
  [host |-> host, https |-> https, dns |-> dns, via |-> via, records |-> records,
   only |-> only]

MCTargets ==
  {Target("name", TRUE, TRUE, {}, Both, "any"),
   Target("name", TRUE, TRUE, {}, Only4, "v6"),
   Target("name", FALSE, TRUE, {}, Only4, "any"),
   Target("name", TRUE, TRUE, {"--proxy", "NO_PROXY"}, Both, "any"),
   Target("name", FALSE, TRUE, {"ALL_PROXY"}, Both, "v4"),
   Target("name", TRUE, FALSE, {}, Both, "any"),
   Target("name", TRUE, TRUE, {}, [v4 |-> "none", v6 |-> "error"], "any"),
   Target("literal", TRUE, FALSE, {}, Only4, "any"),
   Target("literal", FALSE, TRUE, {"HTTP_PROXY", "NO_PROXY"}, Only4, "v4"),
   Target("none", TRUE, TRUE, {}, Both, "any")}
=============================================================================
