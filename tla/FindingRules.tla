---------------------------- MODULE FindingRules ----------------------------
(***************************************************************************)
(* From the answer of a service to findings: which protocol module is run  *)
(* on a service (protocol_audits), what its parser makes of the answer     *)
(* (parsers/protocol), and what the rules of findings/rules make of the    *)
(* stored observations.  An answer, and the data of an observation, is the *)
(* set of facts that rules tell apart.                                     *)
(***************************************************************************)
EXTENDS Naturals, FiniteSets

\* An inventory service as modules and rules see it; tokens: the names known to
\* a predicate that its service name contains.
ServiceRecord ==
    [protocol : {"tcp", "udp"}, port : Nat, name : STRING, tokens : SUBSET STRING,
     tunnel : {"", "ssl", "tls"}, products : SUBSET STRING]

-----------------------------------------------------------------------------
\* Modules and their predicates, alternatives of ports, names, products, tunnels.
Predicate(protocol, ports, names) ==
    [protocol |-> protocol, ports |-> ports, names |-> names, products |-> {},
     tunnels |-> {}]

Predicates == [
    ssh  |-> {[Predicate("tcp", {22}, {"ssh"})
                  EXCEPT !.products = {"openssh", "dropbear"}]},
    tls  |-> {[Predicate("tcp", {443, 636, 993, 995, 465, 990, 8443},
                         {"https", "ssl", "tls", "imaps", "pop3s", "smtps", "ldaps"})
                  EXCEPT !.tunnels = {"ssl", "tls"}]},
    http |-> {Predicate("tcp", {80, 81, 8000, 8008, 8080, 8081, 8888, 3000, 443, 8443},
                        {"http", "http-proxy", "https", "http-alt"})},
    dns  |-> {Predicate(p, {53}, {"domain", "dns"}) : p \in {"tcp", "udp"}},
    smb  |-> {Predicate("tcp", {139, 445}, {"microsoft-ds", "netbios-ssn", "smb"})},
    snmp |-> {Predicate("udp", {161}, {"snmp"})},
    ldap |-> {Predicate("tcp", {389}, {"ldap"}),
              Predicate("tcp", {636}, {"ldaps", "ldapssl"})}]

Modules == DOMAIN Predicates

PredicateMatches(p, service) ==
    /\ service.protocol = p.protocol
    /\ \/ service.port \in p.ports
       \/ service.tokens \cap p.names # {}
       \/ service.products \cap p.products # {}
       \/ service.tunnel \in p.tunnels

Matches(module, service) ==
    \E p \in Predicates[module] : PredicateMatches(p, service)

-----------------------------------------------------------------------------
\* Parsers.
Draft(kind, facts) == [kind |-> kind, facts |-> facts]

parse_openssl_sclient(answer) ==
    {Draft("tls_session", answer \cap {"ssl", "tls1.0", "tls1.1", "weak_cipher"})}
    \cup IF "certificate" \in answer
         THEN {Draft("tls_certificate", answer \cap {"expired", "expires", "unverified"})}
         ELSE {}

parse_curl_http(answer) ==
    {Draft("http_response",
           answer \cap {"strict-transport-security", "x-frame-options", "server",
                        "content-security-policy", "frame-ancestors", "x-powered-by"})}

parse_ssh_audit(answer) ==
    {Draft("ssh_banner", {}),
     Draft("ssh_algorithms",
           answer \cap {"broken", "weak_kex", "weak_encryption", "weak_mac"})}

parse_dig(answer) ==
    {Draft("dns_flags", answer \cap {"ra"})}
    \cup IF "version.bind" \in answer THEN {Draft("dns_identity", {"version.bind"})}
         ELSE {}

parse_smbclient(answer) ==
    IF answer \cap {"shares", "denied"} = {} THEN {Draft("smb_probe_result", {})}
    ELSE {Draft("smb_null_session", IF "denied" \in answer THEN {} ELSE {"accepted"})}

\* No answer in time is an observation too.
parse_snmpget(answer) ==
    {Draft("snmp_unauthenticated", answer \cap {"responded"})}

parse_ldapsearch(answer) ==
    {IF "rootdse" \in answer THEN Draft("ldap_rootdse", {"anonymous_bind"})
     ELSE Draft("ldap_anonymous_bind", {})}

Parsed(module, answer) ==
    CASE module = "tls" -> parse_openssl_sclient(answer)
      [] module = "http" -> parse_curl_http(answer)
      [] module = "ssh" -> parse_ssh_audit(answer)
      [] module = "dns" -> parse_dig(answer)
      [] module = "smb" -> parse_smbclient(answer)
      [] module = "snmp" -> parse_snmpget(answer)
      [] module = "ldap" -> parse_ldapsearch(answer)

\* tool_status_observation, unavailable_observation, malformed_observation.
NON_EVIDENCE_KINDS ==
    {"cancelled", "tool_timeout", "tool_unavailable", "empty_output", "tool_failed",
     "malformed_output", "dns_unreachable"}

\* A parser that takes the output of a failed curl for a response.
MutUnparsed(module, failure) ==
    Draft(IF module = "http" THEN "http_response" ELSE failure, {})

Unparsed(module, failure) ==
    Draft(IF failure = "dns_unreachable" /\ module # "dns" THEN "tool_failed" ELSE failure,
          {})

-----------------------------------------------------------------------------
\* Rules: the severity of the finding for the observations of one service, or
\* "none".  Observations are [kind, facts].
SEVERITY_RANK ==
    [critical |-> 0, high |-> 1, medium |-> 2, low |-> 3, info |-> 4, none |-> 5]
Worst(severities) ==
    IF severities = {} THEN "none"
    ELSE CHOOSE s \in severities :
            \A t \in severities : SEVERITY_RANK[s] <= SEVERITY_RANK[t]

\* usable_observations and grouped_by_service: the facts of some kinds.
FactsOf(group, kinds) ==
    UNION {o.facts : o \in {p \in group : p.kind \in kinds \ NON_EVIDENCE_KINDS}}
Grade(condition, severity) == IF condition THEN severity ELSE "none"

LegacyTlsProtocol(group) ==
    LET f == FactsOf(group, {"tls_session"}) IN
    Worst({Grade("ssl" \in f, "critical"), Grade("tls1.0" \in f, "high"),
           Grade("tls1.1" \in f, "medium")})

WeakTlsCipher(group) ==
    Grade("weak_cipher" \in FactsOf(group, {"tls_session"}), "high")

\* _expired compares with the time of the evaluation.
TlsCertificateExpired(group, later) ==
    LET f == FactsOf(group, {"tls_certificate"}) IN
    Grade("expired" \in f \/ (later /\ "expires" \in f), "high")

TlsCertificateUntrusted(group) ==
    Grade("unverified" \in FactsOf(group, {"tls_certificate"}), "medium")

IsHttps(service) ==
    \/ service.tunnel = "ssl"
    \/ service.name \in {"https", "https-alt", "ssl/http", "http-alt"}
    \/ service.port \in {443, 8443, 9443}

Answered(group, kind) == \E o \in group : o.kind = kind

MissingHsts(group, service) ==
    Grade(/\ Answered(group, "http_response") /\ IsHttps(service)
          /\ "strict-transport-security" \notin FactsOf(group, {"http_response"}),
          "medium")

MissingSecurityHeaders(group) ==
    LET f == FactsOf(group, {"http_response"}) IN
    Grade(/\ Answered(group, "http_response")
          /\ \/ f \cap {"x-frame-options", "frame-ancestors"} = {}
             \/ "content-security-policy" \notin f,
          "low")

HttpServerDisclosure(group) ==
    Grade(FactsOf(group, {"http_response"}) \cap {"server", "x-powered-by"} # {}, "info")

WeakSshAlgorithms(group) ==
    LET f == FactsOf(group, {"ssh_algorithms"}) IN
    Worst({Grade("broken" \in f, "high"), Grade("weak_mac" \in f, "low"),
           Grade(f \cap {"weak_kex", "weak_encryption"} # {}, "medium")})

SmbNullSession(group) ==
    Grade("accepted" \in FactsOf(group, {"smb_null_session"}), "high")

\* smbclient -N -L does not print these fields; another parser may.
SmbSigningDisabled(group) ==
    Grade("signing_disabled" \in FactsOf(group, {"smb_null_session", "smb_probe_result"}),
          "medium")
SmbLegacyDialect(group) ==
    Grade("legacy_dialect" \in FactsOf(group, {"smb_null_session", "smb_probe_result"}),
          "high")

DnsRecursion(group) == Grade("ra" \in FactsOf(group, {"dns_flags"}), "medium")
DnsVersionDisclosed(group) ==
    Grade("version.bind" \in FactsOf(group, {"dns_identity"}), "low")

SnmpUnauthenticated(group) ==
    Grade("responded" \in FactsOf(group, {"snmp_unauthenticated"}), "high")

LdapAnonymousBind(group) ==
    Grade("anonymous_bind" \in FactsOf(group, {"ldap_rootdse", "ldap_anonymous_bind"}),
          "medium")

\* INSECURE_MANAGEMENT_NAMES with NAME_SEVERITY, and the well-known ports.
NAME_SEVERITY == [
    telnet |-> "high", ftp |-> "high", tftp |-> "medium", rsh |-> "high",
    rlogin |-> "high", rexec |-> "high", finger |-> "low", exec |-> "high",
    login |-> "high", shell |-> "high", chargen |-> "medium", discard |-> "low",
    echo |-> "low"]

PortName(service) ==
    LET p == <<service.port, service.protocol>> IN
    CASE p = <<21, "tcp">> -> "ftp" [] p = <<23, "tcp">> -> "telnet"
      [] p \in {<<69, "udp">>, <<69, "tcp">>} -> "tftp"
      [] p = <<512, "tcp">> -> "rexec" [] p = <<513, "tcp">> -> "rlogin"
      [] p = <<514, "tcp">> -> "rsh" [] p = <<79, "tcp">> -> "finger"
      [] OTHER -> "none"

\* A well-known port does not count where nmap has named another service.
InsecureManagement(service, state) ==
    IF state # "open" THEN "none"
    ELSE IF service.name \in DOMAIN NAME_SEVERITY THEN NAME_SEVERITY[service.name]
    ELSE IF PortName(service) # "none" /\ service.name \in {"", "unknown"}
      THEN NAME_SEVERITY[PortName(service)]
    ELSE "none"

ServiceRules ==
    {"WS-TLS-LEGACY-PROTOCOL", "WS-TLS-WEAK-CIPHER", "WS-TLS-CERT-EXPIRED",
     "WS-TLS-CERT-UNTRUSTED", "WS-HTTP-MISSING-HSTS",
     "WS-HTTP-MISSING-SECURITY-HEADERS", "WS-HTTP-SERVER-DISCLOSURE",
     "WS-SSH-WEAK-ALGORITHMS", "WS-SMB-NULL-SESSION", "WS-SMB-SIGNING-DISABLED",
     "WS-SMB-LEGACY-DIALECT", "WS-DNS-RECURSION",
     "WS-DNS-VERSION-DISCLOSED", "WS-SNMP-UNAUTHENTICATED",
     "WS-LDAP-ANONYMOUS-BIND", "WS-MGMT-INSECURE-PROTOCOL"}

Evaluated(rule, group, service, state, later) ==
    CASE rule = "WS-TLS-LEGACY-PROTOCOL" -> LegacyTlsProtocol(group)
      [] rule = "WS-TLS-WEAK-CIPHER" -> WeakTlsCipher(group)
      [] rule = "WS-TLS-CERT-EXPIRED" -> TlsCertificateExpired(group, later)
      [] rule = "WS-TLS-CERT-UNTRUSTED" -> TlsCertificateUntrusted(group)
      [] rule = "WS-HTTP-MISSING-HSTS" -> MissingHsts(group, service)
      [] rule = "WS-HTTP-MISSING-SECURITY-HEADERS" -> MissingSecurityHeaders(group)
      [] rule = "WS-HTTP-SERVER-DISCLOSURE" -> HttpServerDisclosure(group)
      [] rule = "WS-SSH-WEAK-ALGORITHMS" -> WeakSshAlgorithms(group)
      [] rule = "WS-SMB-NULL-SESSION" -> SmbNullSession(group)
      [] rule = "WS-SMB-SIGNING-DISABLED" -> SmbSigningDisabled(group)
      [] rule = "WS-SMB-LEGACY-DIALECT" -> SmbLegacyDialect(group)
      [] rule = "WS-DNS-RECURSION" -> DnsRecursion(group)
      [] rule = "WS-DNS-VERSION-DISCLOSED" -> DnsVersionDisclosed(group)
      [] rule = "WS-SNMP-UNAUTHENTICATED" -> SnmpUnauthenticated(group)
      [] rule = "WS-LDAP-ANONYMOUS-BIND" -> LdapAnonymousBind(group)
      [] rule = "WS-MGMT-INSECURE-PROTOCOL" -> InsecureManagement(service, state)

\* Rules on the passive result of the audit: its sensors with hits, and how many
\* DHCP servers it has seen.
AuditRules == {"WS-INFRA-LLMNR", "WS-INFRA-NBNS", "WS-INFRA-MULTIPLE-DHCP"}

EvaluatedPassive(rule, passive) ==
    CASE rule = "WS-INFRA-LLMNR" -> Grade("llmnr" \in passive.sensors, "medium")
      [] rule = "WS-INFRA-NBNS" -> Grade("nbns" \in passive.sensors, "medium")
      [] rule = "WS-INFRA-MULTIPLE-DHCP" -> Grade(passive.servers >= 2, "medium")
=============================================================================
