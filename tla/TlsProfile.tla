------------------------------ MODULE TlsProfile -----------------------------
(***************************************************************************)
(* The TLS endpoint profile (--tls-profile-url): one handshake whose       *)
(* certificates are described, five capability probes at once under a      *)
(* common deadline, and a resumption check, turned into findings.          *)
(***************************************************************************)
EXTENDS Integers, Sequences, SequencesExt, FiniteSets

CONSTANTS
  Chains,  \* the certificate chains a server may present, see Certificate
  Servers  \* [versions, alpn, resumes]: what a server accepts

\* A certificate as parse_certificate_info sees it, if it parses at all.
Certificate == [parses : BOOLEAN, matches : BOOLEAN, expired : BOOLEAN, revocable : BOOLEAN,
                subject : STRING, issuer : STRING]

Server == [versions : SUBSET {"tls1.2", "tls1.3"}, alpn : SUBSET STRING, resumes : BOOLEAN]
ASSUME TlsAssumption ==
  Chains # {} /\ Chains \subseteq Seq(Certificate) /\ Servers # {} /\ Servers \subseteq Server

VARIABLES
  tls  \* the profile so far, its stage, and the server it talks to

CapabilityProbes == {"tls1.2", "tls1.3", "h2", "http/1.1", "no sni"}
NoCapabilities == [known |-> FALSE, versions |-> {}, alpn |-> {}]
Pending == [p \in CapabilityProbes |-> "pending"]
NoSnapshot == [chain |-> <<>>, version |-> "none"]

TlsStart ==
  [at : {"resolve"}, insecure : BOOLEAN, sni_override : BOOLEAN, override : {"none", "match", "stray"},
   proxied : BOOLEAN, server : Servers, served : Chains, snapshot : {NoSnapshot},
   ended : {Pending}, capabilities : {NoCapabilities},
   resumption : {FALSE}, findings : {{}}, status : {"none"}]

TlsAt(place) == tls.at = place
TlsSet(fields) == tls' = [f \in DOMAIN tls |-> IF f \in DOMAIN fields THEN fields[f] ELSE tls[f]]

-----------------------------------------------------------------------------
\* lookup_host fails, or leaves no address and none was given.
ResolveFails == TlsAt("resolve") /\ TlsSet([at |-> "error"])
Resolve == TlsAt("resolve") /\ TlsSet([at |-> "handshake"])

\* TCP or TLS fails or times out; verification refuses what does not hold.  With
\* sni_override the leaf is verified for that name, and may be for another host.
Verifies(chain) == chain # <<>> /\ chain[1].matches /\ ~chain[1].expired
Accepts(chain, overridden) ==
  chain # <<>> /\ ~chain[1].expired /\ (chain[1].matches \/ overridden)
HandshakeFails == TlsAt("handshake") /\ TlsSet([at |-> "error"])

Best(versions) == IF "tls1.3" \in versions THEN "tls1.3" ELSE "tls1.2"
\* Certificates that do not parse are left out of the chain: the n-th described
\* is the n-th of those that do, so that the first need not be the leaf.
parse_certificate_info(chain) ==
  LET parsed == {i \in DOMAIN chain : chain[i].parses}
  IN  [n \in 1..Cardinality(parsed) |->
         chain[CHOOSE i \in parsed : Cardinality(parsed \cap 1..i) = n]]

\* run_single_handshake: offers both versions, h2 and http/1.1.
run_single_handshake ==
  /\ TlsAt("handshake") /\ tls.server.versions # {}
  /\ tls.insecure \/ Accepts(tls.served, tls.sni_override)
  /\ TlsSet([at |-> "capabilities",
             snapshot |-> [chain |-> parse_certificate_info(tls.served),
                           version |-> Best(tls.server.versions)]])

-----------------------------------------------------------------------------
(***************************************************************************)
(* run_capability_probes: joined, under 30 s altogether.                   *)
(***************************************************************************)
\* A server may also ignore the ALPN offer, and then none is negotiated.
Answers(p) ==
  CASE p \in {"tls1.2", "tls1.3"} -> IF p \in tls.server.versions THEN {"ok"} ELSE {}
    [] p \in {"h2", "http/1.1"} -> IF p \in tls.server.alpn THEN {"ok"} ELSE {"no alpn"}
    [] p = "no sni" -> {}

\* probe_tls_handshake: a refusal, a failure and its own timeout are all None;
\* without a server name rustls cannot connect at all.
probe_tls_handshake(p) ==
  /\ TlsAt("capabilities") /\ tls.ended[p] = "pending"
  /\ \E outcome \in Answers(p) \cup {"none"} :
       TlsSet([ended |-> [tls.ended EXCEPT ![p] = outcome]])

Succeeded == {p \in CapabilityProbes : tls.ended[p] = "ok"}

\* All five are in; nothing at all succeeding is no capability section.
JoinProbes ==
  /\ TlsAt("capabilities") /\ \A p \in CapabilityProbes : tls.ended[p] # "pending"
  /\ TlsSet([at |-> "resumption", ended |-> Pending,
             capabilities |->
               IF \A p \in CapabilityProbes : tls.ended[p] = "none" THEN NoCapabilities
               ELSE [known |-> TRUE, versions |-> Succeeded \cap {"tls1.2", "tls1.3"},
                     alpn |-> Succeeded \cap {"h2", "http/1.1"}]])
ProbesTimedOut ==
  /\ TlsAt("capabilities")
  /\ TlsSet([at |-> "resumption", ended |-> Pending, capabilities |-> NoCapabilities])

\* lookup_caa is a dig of its own and changes nothing else.  run_resumption_check:
\* two handshakes with one configuration; any error reads as not supported.
ResumptionFails == TlsAt("resumption") /\ TlsSet([at |-> "findings", resumption |-> FALSE])
run_resumption_check ==
  TlsAt("resumption") /\ TlsSet([at |-> "findings", resumption |-> tls.server.resumes])

-----------------------------------------------------------------------------
(***************************************************************************)
(* Findings.                                                               *)
(***************************************************************************)
\* cert_matches_hostname, on the first certificate that parsed.
HostnameMatches(chain) == chain # <<>> /\ chain[1].matches
SelfSigned(c) == c.subject = c.issuer
\* build_chain_diagnostics.
OrderedLinks(chain) == \A i \in 1..(Len(chain) - 1) : chain[i].issuer = chain[i + 1].subject
\* direct_ip_match and the proxy variables.
Classification ==
  CASE tls.proxied -> "IndirectExpected"
    [] ~tls.proxied /\ tls.override = "stray" -> "IndirectSuspicious"
    [] OTHER -> "Direct"

Errors(chain) ==
  {f \in {"HOSTNAME_MISMATCH", "CERT_EXPIRED"} :
     \/ f = "HOSTNAME_MISMATCH" /\ ~HostnameMatches(chain)
     \/ f = "CERT_EXPIRED" /\ chain # <<>> /\ chain[1].expired}
Warnings(chain) ==
  {f \in {"INSECURE_MODE_ACTIVE", "UNTRUSTED_CHAIN", "SELF_SIGNED_LEAF", "CHAIN_ORDERING_ODD",
          "UNUSUAL_REVOCATION_URI_SCHEME", "PATH_SUSPICIOUS"} :
     \/ f = "INSECURE_MODE_ACTIVE" /\ tls.insecure
     \/ f = "UNTRUSTED_CHAIN" /\ ~tls.insecure /\ tls.served = <<>>
     \/ f = "SELF_SIGNED_LEAF" /\ chain # <<>> /\ SelfSigned(chain[1])
     \/ f = "CHAIN_ORDERING_ODD" /\ Len(chain) > 1 /\ ~OrderedLinks(chain)
     \/ f = "UNUSUAL_REVOCATION_URI_SCHEME" /\ chain # <<>> /\ ~chain[1].revocable
     \/ f = "PATH_SUSPICIOUS" /\ Classification = "IndirectSuspicious"}
Notes(chain) ==
  {f \in {"NO_INTERMEDIATE_PRESENTED", "ROOT_INCLUDED_IN_CHAIN", "RESUMPTION_NOT_OBSERVED"} :
     \/ f = "NO_INTERMEDIATE_PRESENTED" /\ Len(chain) = 1
     \/ f = "ROOT_INCLUDED_IN_CHAIN" /\ chain # <<>> /\ SelfSigned(chain[Len(chain)])
     \/ f = "RESUMPTION_NOT_OBSERVED" /\ ~tls.resumption}

\* Warnings first, so that an error behind one is missed.
summarize_findings_first(found) ==
  IF found.warnings # {} THEN "warn" ELSE IF found.errors # {} THEN "error" ELSE "ok"
summarize_findings(found) ==
  IF found.errors # {} THEN "error" ELSE IF found.warnings # {} THEN "warn" ELSE "ok"

build_findings ==
  /\ TlsAt("findings")
  /\ LET chain == tls.snapshot.chain
         found == [errors |-> Errors(chain), warnings |-> Warnings(chain), notes |-> Notes(chain)]
     IN  TlsSet([at |-> "outputs", findings |-> found.errors \cup found.warnings \cup found.notes,
                 status |-> summarize_findings(found)])

TlsStep ==
  \/ ResolveFails \/ Resolve \/ HandshakeFails \/ run_single_handshake
  \/ \E p \in CapabilityProbes : probe_tls_handshake(p)
  \/ JoinProbes \/ ProbesTimedOut \/ ResumptionFails \/ run_resumption_check \/ build_findings

-----------------------------------------------------------------------------
\* The profile's verdict is about the server it talked to: "ok" is a verified
\* handshake with a leaf for this host; a served leaf that parses and is for
\* another host or expired is an "error" however the rest went, also when it was
\* verified for an SNI override; and no version, protocol or resumption is
\* claimed that the server did not accept in a handshake (summarize_findings,
\* run_capability_probes, run_resumption_check).  A leaf that does not parse is
\* not described: the next certificate is, and an unverified profile may then be
\* no worse than "warn", one verified for an SNI override "ok".
ProfileHonest ==
  TlsAt("outputs") =>
    /\ tls.status = "ok" =>
         /\ ~tls.insecure /\ Accepts(tls.served, tls.sni_override)
         /\ tls.served[1].parses => Verifies(tls.served)
    /\ tls.served # <<>> /\ tls.served[1].parses /\ ~Verifies(tls.served) => tls.status = "error"
    /\ tls.capabilities.versions \subseteq tls.server.versions
    /\ tls.capabilities.alpn \subseteq tls.server.alpn
    /\ tls.resumption => tls.server.resumes

=============================================================================
