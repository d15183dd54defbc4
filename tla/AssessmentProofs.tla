-------------------------- MODULE AssessmentProofs --------------------------
(***************************************************************************)
(* Theorems about Assessment, for every set of services, every record of   *)
(* them, every answer they may give and every passive result: findings are *)
(* grounded, decisions are kept and reports are complete.                  *)
(***************************************************************************)
EXTENDS Assessment, FiniteSetTheorems, TLAPS

Severity == {"critical", "high", "medium", "low", "info"}

\* The names of the protocol modules.
LEMMA ModuleNames == Modules = {"ssh", "tls", "http", "dns", "smb", "snmp", "ldap"}
BY DEF Modules, Predicates

\* The severities, and their ranks.
LEMMA Ranks ==
    /\ DOMAIN SEVERITY_RANK = Severity \cup {"none"}
    /\ \A s \in Severity \cup {"none"} : SEVERITY_RANK[s] \in 0..5
    /\ SEVERITY_RANK["none"] = 5
    /\ \A s \in Severity : SEVERITY_RANK[s] < 5
BY DEF SEVERITY_RANK, Severity

\* Some severity of a set of severities is at least as bad as all others.
LEMMA WorstExists ==
    ASSUME NEW S \in SUBSET (Severity \cup {"none"}), S # {}
    PROVE  \E s \in S : \A t \in S : SEVERITY_RANK[s] <= SEVERITY_RANK[t]
<1> DEFINE First(x) == x \in S /\ \A t \in S : SEVERITY_RANK[x] <= SEVERITY_RANK[t]
<1>1. "critical" \in S => First("critical")
  BY DEF SEVERITY_RANK, Severity
<1>2. "critical" \notin S /\ "high" \in S => First("high")
  BY DEF SEVERITY_RANK, Severity
<1>3. S \cap {"critical", "high"} = {} /\ "medium" \in S => First("medium")
  BY DEF SEVERITY_RANK, Severity
<1>4. S \cap {"critical", "high", "medium"} = {} /\ "low" \in S => First("low")
  BY DEF SEVERITY_RANK, Severity
<1>5. S \cap {"critical", "high", "medium", "low"} = {} /\ "info" \in S
        => First("info")
  BY DEF SEVERITY_RANK, Severity
<1>6. S \subseteq {"none"} => First("none")
  <2>1. \E t : t \in S
    OBVIOUS
  <2> QED
    BY <2>1 DEF SEVERITY_RANK
<1> QED
  BY <1>1, <1>2, <1>3, <1>4, <1>5, <1>6 DEF Severity

\* What the headline of a report is: a severity of the set that none exceeds.
LEMMA WorstIs ==
    ASSUME NEW S \in SUBSET (Severity \cup {"none"}), S # {}
    PROVE  /\ Worst(S) \in S
           /\ \A t \in S : SEVERITY_RANK[Worst(S)] <= SEVERITY_RANK[t]
BY WorstExists DEF Worst

\* The worst of a set is a finding's severity when the set has one.
LEMMA WorstFound ==
    ASSUME NEW S \in SUBSET (Severity \cup {"none"}), S # {}
    PROVE  Worst(S) # "none" <=> \E t \in S : t # "none"
<1>1. Worst(S) \in S /\ \A t \in S : SEVERITY_RANK[Worst(S)] <= SEVERITY_RANK[t]
  BY WorstIs
<1>2. ASSUME NEW t \in S, t # "none" PROVE Worst(S) # "none"
  <2>1. SEVERITY_RANK[t] < 5 /\ SEVERITY_RANK[t] \in 0..5
    BY <1>2, Ranks
  <2> QED
    BY <1>1, <2>1, Ranks
<1> QED
  BY <1>1, <1>2
-----------------------------------------------------------------------------
(***************************************************************************)
(* Rules.  The severity of a rule on a group of observations.              *)
(***************************************************************************)

\* The rule on old TLS versions holds when one of them is offered.
LEMMA LegacyTls ==
    ASSUME NEW group
    PROVE  /\ LegacyTlsProtocol(group) \in Severity \cup {"none"}
           /\ LegacyTlsProtocol(group) # "none" <=>
                FactsOf(group, {"tls_session"}) \cap {"ssl", "tls1.0", "tls1.1"} # {}
<1> DEFINE f == FactsOf(group, {"tls_session"})
<1> DEFINE S == {Grade("ssl" \in f, "critical"), Grade("tls1.0" \in f, "high"),
                 Grade("tls1.1" \in f, "medium")}
<1>1. S \in SUBSET (Severity \cup {"none"}) /\ S # {}
  BY DEF Grade, Severity
<1>2. (\E t \in S : t # "none") <=> f \cap {"ssl", "tls1.0", "tls1.1"} # {}
  BY DEF Grade
<1>3. LegacyTlsProtocol(group) = Worst(S)
  BY DEF LegacyTlsProtocol
<1> HIDE DEF S, f
<1>4. Worst(S) \in Severity \cup {"none"}
  BY <1>1, WorstIs
<1>5. Worst(S) # "none" <=> \E t \in S : t # "none"
  BY <1>1, WorstFound
<1> QED
  BY <1>2, <1>3, <1>4, <1>5 DEF f

\* The SSH rule holds when one weak algorithm is offered.
LEMMA WeakSsh ==
    ASSUME NEW group
    PROVE  /\ WeakSshAlgorithms(group) \in Severity \cup {"none"}
           /\ WeakSshAlgorithms(group) # "none" <=>
                FactsOf(group, {"ssh_algorithms"})
                  \cap {"broken", "weak_mac", "weak_kex", "weak_encryption"} # {}
<1> DEFINE f == FactsOf(group, {"ssh_algorithms"})
<1> DEFINE S == {Grade("broken" \in f, "high"), Grade("weak_mac" \in f, "low"),
                 Grade(f \cap {"weak_kex", "weak_encryption"} # {}, "medium")}
<1>1. S \in SUBSET (Severity \cup {"none"}) /\ S # {}
  BY DEF Grade, Severity
<1>2. (\E t \in S : t # "none") <=>
        f \cap {"broken", "weak_mac", "weak_kex", "weak_encryption"} # {}
  BY DEF Grade
<1>3. WeakSshAlgorithms(group) = Worst(S)
  BY DEF WeakSshAlgorithms
<1> HIDE DEF S, f
<1>4. Worst(S) \in Severity \cup {"none"}
  BY <1>1, WorstIs
<1>5. Worst(S) # "none" <=> \E t \in S : t # "none"
  BY <1>1, WorstFound
<1> QED
  BY <1>2, <1>3, <1>4, <1>5 DEF f

\* The rule on management protocols speaks of open ports only.
LEMMA InsecureOpen ==
    ASSUME NEW service, NEW state, InsecureManagement(service, state) # "none"
    PROVE  state = "open"
BY Zenon DEF InsecureManagement

\* Every port that PortName names has a severity.
LEMMA PortNames ==
    ASSUME NEW service
    PROVE  PortName(service) = "none" \/ PortName(service) \in DOMAIN NAME_SEVERITY
BY DEF PortName, NAME_SEVERITY

\* The severities of the insecure names.
LEMMA NameSeverities ==
    \A n \in DOMAIN NAME_SEVERITY : NAME_SEVERITY[n] \in Severity
BY DEF NAME_SEVERITY, Severity

\* The rule on management protocols gives a severity or none.
LEMMA InsecureType ==
    ASSUME NEW service, NEW state
    PROVE  InsecureManagement(service, state) \in Severity \cup {"none"}
<1>1. "none" \in Severity \cup {"none"}
  OBVIOUS
<1>2. \A n \in DOMAIN NAME_SEVERITY : NAME_SEVERITY[n] \in Severity \cup {"none"}
  BY NameSeverities
<1> QED
  BY <1>1, <1>2, PortNames, Zenon DEF InsecureManagement

\* Whatever a rule says is a severity or none.
LEMMA EvaluatedType ==
    ASSUME NEW rule \in ServiceRules, NEW group, NEW service, NEW state, NEW l
    PROVE  Evaluated(rule, group, service, state, l) \in Severity \cup {"none"}
BY LegacyTls, WeakSsh, InsecureType
   DEF ServiceRules, Evaluated, Grade, Severity, WeakTlsCipher,
       TlsCertificateExpired, TlsCertificateUntrusted, MissingHsts,
       MissingSecurityHeaders, HttpServerDisclosure, SmbNullSession,
       SmbSigningDisabled, SmbLegacyDialect, DnsRecursion,
       DnsVersionDisclosed, SnmpUnauthenticated, LdapAnonymousBind

\* So do the rules on the passive result.
LEMMA PassiveType ==
    ASSUME NEW rule \in AuditRules, NEW p
    PROVE  EvaluatedPassive(rule, p) \in Severity \cup {"none"}
BY DEF AuditRules, EvaluatedPassive, Grade, Severity
-----------------------------------------------------------------------------
(***************************************************************************)
(* Grounding.  Grounded(k) is what FindingGrounded says of the finding     *)
(* with key k; an observation is grounded when its tool failed, or when an *)
(* answer of the service gives it.                                         *)
(***************************************************************************)
Replied(rule, s) ==
    \E a \in replies[s], l \in BOOLEAN :
        Evaluated(rule, AnswerRows(s, a), RecordOf[s], "open", l) # "none"

Grounded(k) ==
    IF k[2] = "audit"
      THEN \E p \in heardOf : EvaluatedPassive(k[1], p) # "none"
    ELSE IF k[1] = "WS-MGMT-INSECURE-PROTOCOL" THEN k[2] \in seen
    ELSE Replied(k[1], k[2])

RowGrounded(s, o) ==
    /\ o.module \in Modules /\ Matches(o.module, RecordOf[s])
    /\ \/ o.kind \in NON_EVIDENCE_KINDS
       \/ \E a \in replies[s] : Draft(o.kind, o.facts) \in Parsed(o.module, a)

RowsGrounded == \A s \in Services : \A o \in observed[s] : RowGrounded(s, o)

\* A stored row that is evidence is a row of one answer of the service.
LEMMA RowInAnswer ==
    ASSUME RowsGrounded, NEW s \in Services, NEW o \in observed[s],
           o.kind \notin NON_EVIDENCE_KINDS
    PROVE  \E a \in replies[s] :
               /\ Draft(o.kind, o.facts) \in AnswerRows(s, a)
               /\ Draft(o.kind, o.facts) \in Parsed(o.module, a)
BY DEF RowsGrounded, RowGrounded, AnswerRows

\* A fact that rules read in the table is a fact of one answer.
LEMMA FactInAnswer ==
    ASSUME RowsGrounded, NEW s \in Services, NEW kinds,
           NEW x \in FactsOf(observed[s], kinds)
    PROVE  \E a \in replies[s] : x \in FactsOf(AnswerRows(s, a), kinds)
<1>1. PICK o \in observed[s] : o.kind \in kinds \ NON_EVIDENCE_KINDS /\ x \in o.facts
  BY DEF FactsOf
<1>2. PICK a \in replies[s] : Draft(o.kind, o.facts) \in AnswerRows(s, a)
  BY <1>1, RowInAnswer
<1>3. /\ Draft(o.kind, o.facts).kind = o.kind
      /\ Draft(o.kind, o.facts).facts = o.facts
  BY DEF Draft
<1>4. x \in FactsOf(AnswerRows(s, a), kinds)
  BY <1>1, <1>2, <1>3 DEF FactsOf
<1> QED
  BY <1>4

\* Only the parser of curl's output makes an http_response, and one per answer.
LEMMA OneResponse ==
    ASSUME NEW m \in Modules, NEW a, NEW d \in Parsed(m, a),
           d.kind = "http_response"
    PROVE  m = "http" /\ {d} = parse_curl_http(a)
<1>1. m = "http"
  BY ModuleNames
     DEF Parsed, Draft, parse_openssl_sclient, parse_curl_http,
         parse_ssh_audit, parse_dig, parse_smbclient, parse_snmpget,
         parse_ldapsearch
<1>2. Parsed(m, a) = parse_curl_http(a)
  BY <1>1 DEF Parsed
<1> QED
  BY <1>1, <1>2 DEF parse_curl_http

\* What the rules on missing headers read in the table is, for some answer,
\* all that the answer has.
LEMMA ResponseInAnswer ==
    ASSUME RowsGrounded, NEW s \in Services,
           Answered(observed[s], "http_response")
    PROVE  \E a \in replies[s] :
               /\ Answered(AnswerRows(s, a), "http_response")
               /\ FactsOf(AnswerRows(s, a), {"http_response"})
                    \subseteq FactsOf(observed[s], {"http_response"})
<1>1. "http_response" \notin NON_EVIDENCE_KINDS
  BY DEF NON_EVIDENCE_KINDS
<1>2. PICK o \in observed[s] : o.kind = "http_response"
  BY DEF Answered
<1> DEFINE d == Draft(o.kind, o.facts)
<1>3. PICK a \in replies[s] : d \in AnswerRows(s, a) /\ d \in Parsed(o.module, a)
  BY <1>1, <1>2, RowInAnswer
<1>4. d.kind = "http_response" /\ d.facts = o.facts
  BY <1>2 DEF Draft
<1>5. o.module \in Modules
  BY DEF RowsGrounded, RowGrounded
<1> HIDE DEF d
<1>6. {d} = parse_curl_http(a)
  BY <1>3, <1>4, <1>5, OneResponse
<1>7. ASSUME NEW e \in AnswerRows(s, a), e.kind = "http_response"
      PROVE  e = d
  <2>1. PICK m \in Modules : e \in Parsed(m, a)
    BY DEF AnswerRows
  <2>2. {e} = parse_curl_http(a)
    BY <1>7, <2>1, OneResponse
  <2> QED
    BY <1>6, <2>2
<1>8. o.facts \subseteq FactsOf(observed[s], {"http_response"})
  BY <1>1, <1>2 DEF FactsOf
<1>9. FactsOf(AnswerRows(s, a), {"http_response"}) \subseteq o.facts
  BY <1>4, <1>7 DEF FactsOf
<1>10. Answered(AnswerRows(s, a), "http_response")
  BY <1>3, <1>4 DEF Answered
<1> QED
  BY <1>8, <1>9, <1>10

\* A rule that holds of the stored observations of a service holds of one of
\* its answers.
LEMMA RuleGrounded ==
    ASSUME RowsGrounded, NEW s \in Services, NEW state, NEW l \in BOOLEAN,
           NEW rule \in ServiceRules \ {"WS-MGMT-INSECURE-PROTOCOL"},
           Evaluated(rule, observed[s], RecordOf[s], state, l) # "none"
    PROVE  Replied(rule, s)
<1> DEFINE F(kinds) == FactsOf(observed[s], kinds)
<1> DEFINE Has(kinds, x) ==
             \E a \in replies[s] : x \in FactsOf(AnswerRows(s, a), kinds)
<1>0. \A kinds : \A x \in F(kinds) : Has(kinds, x)
  BY FactInAnswer
<1>1. ASSUME NEW a \in replies[s],
             Evaluated(rule, AnswerRows(s, a), RecordOf[s], "open", l) # "none"
      PROVE  Replied(rule, s)
  BY <1>1 DEF Replied
<1>2. CASE rule = "WS-TLS-LEGACY-PROTOCOL"
  <2>1. PICK x \in {"ssl", "tls1.0", "tls1.1"} : x \in F({"tls_session"})
    BY <1>2, LegacyTls DEF Evaluated
  <2>2. PICK a \in replies[s] : x \in FactsOf(AnswerRows(s, a), {"tls_session"})
    BY <1>0, <2>1
  <2>3. LegacyTlsProtocol(AnswerRows(s, a)) # "none"
    BY <2>1, <2>2, LegacyTls
  <2> QED
    BY <1>1, <1>2, <2>3 DEF Evaluated
<1>3. CASE rule = "WS-SSH-WEAK-ALGORITHMS"
  <2>1. PICK x \in {"broken", "weak_mac", "weak_kex", "weak_encryption"} :
               x \in F({"ssh_algorithms"})
    BY <1>3, WeakSsh DEF Evaluated
  <2>2. PICK a \in replies[s] : x \in FactsOf(AnswerRows(s, a), {"ssh_algorithms"})
    BY <1>0, <2>1
  <2>3. WeakSshAlgorithms(AnswerRows(s, a)) # "none"
    BY <2>1, <2>2, WeakSsh
  <2> QED
    BY <1>1, <1>3, <2>3 DEF Evaluated
<1>4. CASE rule = "WS-TLS-WEAK-CIPHER"
  BY <1>0, <1>1, <1>4 DEF Evaluated, WeakTlsCipher, Grade
<1>5. CASE rule = "WS-TLS-CERT-EXPIRED"
  <2>1. PICK x \in {"expired", "expires"} :
               x \in F({"tls_certificate"}) /\ (x = "expires" => l)
    BY <1>5 DEF Evaluated, TlsCertificateExpired, Grade
  <2>2. PICK a \in replies[s] : x \in FactsOf(AnswerRows(s, a), {"tls_certificate"})
    BY <1>0, <2>1
  <2>3. TlsCertificateExpired(AnswerRows(s, a), l) # "none"
    BY <2>1, <2>2 DEF TlsCertificateExpired, Grade
  <2> QED
    BY <1>1, <1>5, <2>3 DEF Evaluated
<1>6. CASE rule = "WS-TLS-CERT-UNTRUSTED"
  BY <1>0, <1>1, <1>6 DEF Evaluated, TlsCertificateUntrusted, Grade
<1>7. CASE rule = "WS-HTTP-MISSING-HSTS"
  <2>1. /\ Answered(observed[s], "http_response") /\ IsHttps(RecordOf[s])
        /\ "strict-transport-security" \notin F({"http_response"})
    BY <1>7 DEF Evaluated, MissingHsts, Grade
  <2>2. PICK a \in replies[s] :
               /\ Answered(AnswerRows(s, a), "http_response")
               /\ FactsOf(AnswerRows(s, a), {"http_response"})
                    \subseteq F({"http_response"})
    BY <2>1, ResponseInAnswer
  <2>3. MissingHsts(AnswerRows(s, a), RecordOf[s]) # "none"
    BY <2>1, <2>2 DEF MissingHsts, Grade
  <2> QED
    BY <1>1, <1>7, <2>3 DEF Evaluated
<1>8. CASE rule = "WS-HTTP-MISSING-SECURITY-HEADERS"
  <2>1. /\ Answered(observed[s], "http_response")
        /\ \/ F({"http_response"}) \cap {"x-frame-options", "frame-ancestors"} = {}
           \/ "content-security-policy" \notin F({"http_response"})
    BY <1>8 DEF Evaluated, MissingSecurityHeaders, Grade
  <2>2. PICK a \in replies[s] :
               /\ Answered(AnswerRows(s, a), "http_response")
               /\ FactsOf(AnswerRows(s, a), {"http_response"})
                    \subseteq F({"http_response"})
    BY <2>1, ResponseInAnswer
  <2>3. MissingSecurityHeaders(AnswerRows(s, a)) # "none"
    BY <2>1, <2>2 DEF MissingSecurityHeaders, Grade
  <2> QED
    BY <1>1, <1>8, <2>3 DEF Evaluated
<1>9. CASE rule = "WS-HTTP-SERVER-DISCLOSURE"
  <2>1. PICK x \in {"server", "x-powered-by"} : x \in F({"http_response"})
    BY <1>9 DEF Evaluated, HttpServerDisclosure, Grade
  <2>2. PICK a \in replies[s] : x \in FactsOf(AnswerRows(s, a), {"http_response"})
    BY <1>0, <2>1
  <2>3. HttpServerDisclosure(AnswerRows(s, a)) # "none"
    BY <2>1, <2>2 DEF HttpServerDisclosure, Grade
  <2> QED
    BY <1>1, <1>9, <2>3 DEF Evaluated
<1>10. CASE rule \in {"WS-SMB-NULL-SESSION", "WS-SMB-SIGNING-DISABLED",
                      "WS-SMB-LEGACY-DIALECT"}
  BY <1>0, <1>1, <1>10
     DEF Evaluated, SmbNullSession, SmbSigningDisabled, SmbLegacyDialect, Grade
<1>11. CASE rule \in {"WS-DNS-RECURSION", "WS-DNS-VERSION-DISCLOSED"}
  BY <1>0, <1>1, <1>11 DEF Evaluated, DnsRecursion, DnsVersionDisclosed, Grade
<1>12. CASE rule \in {"WS-SNMP-UNAUTHENTICATED", "WS-LDAP-ANONYMOUS-BIND"}
  BY <1>0, <1>1, <1>12
     DEF Evaluated, SnmpUnauthenticated, LdapAnonymousBind, Grade
<1> QED
  BY <1>2, <1>3, <1>4, <1>5, <1>6, <1>7, <1>8, <1>9, <1>10, <1>11, <1>12
     DEF ServiceRules
-----------------------------------------------------------------------------
(***************************************************************************)
(* The inductive invariant.  A job holds the lock of the audit from its    *)
(* first read to its last write, so what it has read still stands when it  *)
(* writes: that is WorkSound.                                              *)
(***************************************************************************)
Row == [severity : Severity, status : FindingStatus]

Tables ==
    /\ inventory \in [Services -> {"absent", "open", "closed"}]
    /\ jobs \in 0..MaxJobs
    /\ later \in BOOLEAN
    /\ DOMAIN observed = Services /\ DOMAIN replies = Services
    /\ DOMAIN findings \subseteq FindingKey
    /\ findings \in [DOMAIN findings -> Row]

\* Histories: open services were seen, the passive result was stored.
Histories ==
    /\ \A s \in Services : inventory[s] = "open" => s \in seen
    /\ passiveResult = NoPassive \/ passiveResult \in heardOf

\* A finding is about the audit or about a service of its inventory.
Listed(k) == k[2] = "audit" \/ inventory[k[2]] # "absent"
FindingsListed == \A k \in DOMAIN findings : Listed(k)

DecidedFindings == DOMAIN decided \subseteq DOMAIN findings

ProtocolAudit(todo) ==
    /\ work = [type |-> "protocol_audit", todo |-> todo]
    /\ \A w \in todo : Matches(w[1], RecordOf[w[2]])
Evaluation(drafts) ==
    /\ work = [type |-> "findings_evaluation", drafts |-> drafts]
    /\ DOMAIN drafts \subseteq FindingKey
    /\ \A k \in DOMAIN drafts :
          drafts[k] \in Severity /\ Listed(k) /\ Grounded(k)
ReportGeneration(page, cut) ==
    /\ work = [type |-> "report_generation", services |-> page, truncated |-> cut]
    /\ ~cut => \A k \in DOMAIN findings : k[2] = "audit" \/ k[2] \in page
WorkSound ==
    \/ work = NoWork
    \/ \E todo : ProtocolAudit(todo)
    \/ \E drafts : Evaluation(drafts)
    \/ \E page : \E cut \in BOOLEAN : ReportGeneration(page, cut)

AssessInv ==
    /\ Tables /\ Histories /\ RowsGrounded /\ WorkSound
    /\ FindingsListed /\ FindingGrounded
    /\ DecidedFindings /\ DecisionKept
    /\ ReportComplete

\* FindingGrounded says that every finding is grounded.
LEMMA GroundedFindings == FindingGrounded <=> \A k \in DOMAIN findings : Grounded(k)
BY DEF FindingGrounded, Grounded, Replied

\* The keys of findings.
LEMMA KeyShape ==
    ASSUME NEW k \in FindingKey
    PROVE  \/ k[1] \in AuditRules /\ k[2] = "audit"
           \/ k[1] \in ServiceRules /\ k[2] \in Services /\ k[2] # "audit"
BY AssessmentAssumption DEF FindingKey

\* What an evaluation drafts is grounded and has a severity.
LEMMA DraftsSound ==
    ASSUME AssessInv
    PROVE  /\ DOMAIN EvaluateFindings \subseteq FindingKey
           /\ \A k \in DOMAIN EvaluateFindings :
                 EvaluateFindings[k] \in Severity /\ Listed(k) /\ Grounded(k)
<1> SUFFICES ASSUME NEW k \in FindingKey, SeverityOf(k) # "none"
             PROVE  SeverityOf(k) \in Severity /\ Listed(k) /\ Grounded(k)
  BY DEF EvaluateFindings
<1>1. CASE k[2] = "audit"
  <2>1. k[1] \in AuditRules
    BY <1>1, KeyShape
  <2>2. /\ passiveResult # NoPassive
        /\ SeverityOf(k) = EvaluatedPassive(k[1], passiveResult)
    BY <1>1 DEF SeverityOf
  <2>3. passiveResult \in heardOf
    BY <2>2 DEF AssessInv, Histories
  <2> QED
    BY <1>1, <2>1, <2>2, <2>3, PassiveType DEF Listed, Grounded
<1>2. CASE k[2] # "audit"
  <2> DEFINE s == k[2]
  <2>1. k[1] \in ServiceRules /\ s \in Services
    BY <1>2, KeyShape
  <2>2. /\ inventory[s] # "absent"
        /\ SeverityOf(k) = Evaluated(k[1], observed[s], RecordOf[s], inventory[s], later)
    BY <1>2 DEF SeverityOf
  <2>3. SeverityOf(k) \in Severity
    BY <2>1, <2>2, EvaluatedType
  <2>4. CASE k[1] = "WS-MGMT-INSECURE-PROTOCOL"
    <3>1. InsecureManagement(RecordOf[s], inventory[s]) # "none"
      BY <2>2, <2>4 DEF Evaluated
    <3>2. s \in seen
      BY <2>1, <3>1, InsecureOpen DEF AssessInv, Histories
    <3> QED
      BY <1>2, <2>2, <2>3, <2>4, <3>2 DEF Listed, Grounded
  <2>5. CASE k[1] # "WS-MGMT-INSECURE-PROTOCOL"
    <3>1. Replied(k[1], s)
      BY <2>1, <2>2, <2>5, RuleGrounded DEF AssessInv, Tables
    <3> QED
      BY <1>2, <2>2, <2>3, <2>5, <3>1 DEF Listed, Grounded
  <2> QED
    BY <2>4, <2>5
<1> QED
  BY <1>1, <1>2

\* What is grounded stays so: the histories only grow.
LEMMA GroundedStays ==
    ASSUME heardOf \subseteq heardOf', seen \subseteq seen',
           \A s \in Services : replies[s] \subseteq replies'[s],
           NEW k \in FindingKey, Grounded(k)
    PROVE  Grounded(k)'
BY KeyShape DEF Grounded, Replied

\* So is an observation.
LEMMA RowGroundedStays ==
    ASSUME NEW s \in Services, replies[s] \subseteq replies'[s], NEW o,
           RowGrounded(s, o)
    PROVE  RowGrounded(s, o)'
BY DEF RowGrounded

\* The world may change under a job: scans, passive captures and the network
\* only add to what is grounded and listed.
LEMMA WorldStep ==
    ASSUME AssessInv, UNCHANGED <<observed, findings, work, report, replies, decided>>,
           heardOf \subseteq heardOf', seen \subseteq seen',
           \A s \in Services : inventory[s] # "absent" => inventory'[s] # "absent",
           Tables', Histories'
    PROVE  AssessInv'
<1> USE DEF AssessInv
<1>1. RowsGrounded'
  BY RowGroundedStays DEF RowsGrounded
<1>2. ASSUME NEW k \in FindingKey, Listed(k) PROVE Listed(k)'
  BY <1>2, KeyShape DEF Listed
<1>3. ASSUME NEW k \in FindingKey, Grounded(k) PROVE Grounded(k)'
  BY <1>3, GroundedStays
<1>4. WorkSound'
  <2>1. CASE work = NoWork
    BY <2>1 DEF WorkSound
  <2>2. ASSUME NEW todo, ProtocolAudit(todo) PROVE ProtocolAudit(todo)'
    BY <2>2 DEF ProtocolAudit
  <2>3. ASSUME NEW drafts, Evaluation(drafts) PROVE Evaluation(drafts)'
    BY <1>2, <1>3, <2>3 DEF Evaluation
  <2>4. ASSUME NEW page, NEW cut \in BOOLEAN, ReportGeneration(page, cut)
        PROVE  ReportGeneration(page, cut)'
    BY <2>4 DEF ReportGeneration
  <2> QED
    BY <2>1, <2>2, <2>3, <2>4 DEF WorkSound
<1>5. FindingsListed' /\ FindingGrounded'
  <2>1. \A k \in DOMAIN findings' : Listed(k)' /\ Grounded(k)'
    BY <1>2, <1>3, GroundedFindings DEF FindingsListed, Tables
  <2> QED
    BY <2>1 DEF FindingsListed, FindingGrounded, Grounded, Replied
<1>6. DecidedFindings' /\ DecisionKept' /\ ReportComplete'
  BY DEF DecidedFindings, DecisionKept, ReportComplete
<1> QED
  BY <1>1, <1>4, <1>5, <1>6

\* A step of a job that leaves the world, the findings and the decisions alone.
LEMMA JobStep ==
    ASSUME AssessInv, UNCHANGED <<worldVars, findings, decided>>,
           jobs' \in 0..MaxJobs,
           DOMAIN observed' = Services, DOMAIN replies' = Services,
           \A s \in Services : replies[s] \subseteq replies'[s],
           RowsGrounded', WorkSound', ReportComplete'
    PROVE  AssessInv'
<1> USE DEF AssessInv
<1>1. Tables' /\ Histories'
  BY DEF Tables, Histories, worldVars
<1>2. ASSUME NEW k \in DOMAIN findings PROVE Grounded(k)'
  <2>1. k \in FindingKey /\ Grounded(k)
    BY GroundedFindings DEF Tables
  <2> QED
    BY <2>1, GroundedStays DEF worldVars
<1>3. FindingsListed' /\ FindingGrounded'
  <2>1. \A k \in DOMAIN findings' : Grounded(k)'
    BY <1>2
  <2>2. FindingGrounded'
    BY <2>1 DEF FindingGrounded, Grounded, Replied
  <2> QED
    BY <2>2 DEF FindingsListed, Listed, worldVars
<1>4. DecidedFindings' /\ DecisionKept'
  BY DEF DecidedFindings, DecisionKept
<1> QED
  BY <1>1, <1>3, <1>4

\* The rows that upsert_many writes are grounded when its drafts are.
LEMMA UpsertGrounded ==
    ASSUME AssessInv, NEW m \in Modules, NEW s \in Services, NEW drafts,
           Matches(m, RecordOf[s]), DOMAIN observed = Services,
           observed' = [observed EXCEPT ![s] = UpsertMany(s, m, drafts)],
           \A r \in Services : replies[r] \subseteq replies'[r],
           \A d \in drafts : \/ d.kind \in NON_EVIDENCE_KINDS
                             \/ \E a \in replies'[s] :
                                   Draft(d.kind, d.facts) \in Parsed(m, a)
    PROVE  RowsGrounded'
<1> SUFFICES ASSUME NEW r \in Services, NEW o \in observed'[r]
             PROVE  RowGrounded(r, o)'
  BY DEF RowsGrounded
<1>1. CASE o \in observed[r]
  BY <1>1, RowGroundedStays DEF AssessInv, RowsGrounded
<1>2. CASE o \notin observed[r]
  <2>1. r = s /\ o \in UpsertMany(s, m, drafts)
    BY <1>2
  <2>2. PICK d \in drafts : o = [module |-> m, kind |-> d.kind, facts |-> d.facts]
    BY <1>2, <2>1 DEF UpsertMany
  <2>3. o.module = m /\ o.kind = d.kind /\ o.facts = d.facts
    BY <2>2
  <2> QED
    BY <2>1, <2>3 DEF RowGrounded
<1> QED
  BY <1>1, <1>2

\* What a parser returns are drafts.
LEMMA ParsedShape ==
    ASSUME NEW m \in Modules, NEW a, NEW d \in Parsed(m, a)
    PROVE  d = Draft(d.kind, d.facts)
BY ModuleNames
   DEF Parsed, Draft, parse_openssl_sclient, parse_curl_http,
       parse_ssh_audit, parse_dig, parse_smbclient, parse_snmpget,
       parse_ldapsearch

\* What is stored for a failure is no evidence.
LEMMA UnparsedKind ==
    ASSUME NEW m, NEW failure \in Failures
    PROVE  Unparsed(m, failure).kind \in NON_EVIDENCE_KINDS
BY AssessmentAssumption DEF Unparsed, Draft, NON_EVIDENCE_KINDS

\* What is left of the work of a protocol audit.
LEMMA AuditWork ==
    ASSUME AssessInv, work.type = "protocol_audit", NEW m \in Modules,
           NEW s \in Services, <<m, s>> \in work.todo,
           work' = [work EXCEPT !.todo = @ \ {<<m, s>>}]
    PROVE  WorkSound' /\ Matches(m, RecordOf[s])
<1>1. PICK todo : ProtocolAudit(todo)
  BY DEF AssessInv, WorkSound, NoWork, Evaluation, ReportGeneration
<1>2. work' = [type |-> "protocol_audit", todo |-> todo \ {<<m, s>>}]
  BY <1>1 DEF ProtocolAudit
<1>3. ProtocolAudit(todo \ {<<m, s>>})'
  BY <1>1, <1>2 DEF ProtocolAudit
<1>4. Matches(m, RecordOf[s])
  <2>1. <<m, s>> \in todo
    BY <1>1 DEF ProtocolAudit
  <2> QED
    BY <1>1, <2>1 DEF ProtocolAudit
<1> QED
  BY <1>3, <1>4 DEF WorkSound
-----------------------------------------------------------------------------
\* The upsert of an evaluation keeps every decision and adds only drafts.
LEMMA UpsertStep ==
    ASSUME AssessInv, UpsertEvaluation
    PROVE  AssessInv'
<1> USE DEF AssessInv
<1>1. PICK drafts : Evaluation(drafts)
  BY DEF UpsertEvaluation, WorkSound, NoWork, ProtocolAudit, ReportGeneration
<1>2. work.drafts = drafts
  BY <1>1 DEF Evaluation
<1>3. /\ DOMAIN findings' = DOMAIN findings \cup DOMAIN drafts
      /\ \A k \in DOMAIN findings' : findings'[k] = UpsertedFinding(drafts, k)
      /\ findings' = [k \in DOMAIN findings' |-> findings'[k]]
  BY <1>2 DEF UpsertEvaluation
<1>4. ASSUME NEW k \in DOMAIN findings'
      PROVE  /\ k \in FindingKey /\ Listed(k) /\ Grounded(k)
             /\ findings'[k] \in Row
             /\ findings'[k].status = IF k \in DOMAIN findings
                                        THEN findings[k].status ELSE "open"
  <2>1. findings'[k] = UpsertedFinding(drafts, k)
    BY <1>3
  <2>2. k \in DOMAIN findings => findings[k] \in Row
    BY DEF Tables
  <2>3. CASE k \notin DOMAIN drafts
    BY <1>3, <2>1, <2>2, <2>3, GroundedFindings
       DEF UpsertedFinding, FindingsListed, Tables
  <2>4. CASE k \in DOMAIN drafts
    <3>1. k \in FindingKey /\ drafts[k] \in Severity /\ Listed(k) /\ Grounded(k)
      BY <1>1, <2>4 DEF Evaluation
    <3> QED
      BY <2>1, <2>2, <2>4, <3>1 DEF UpsertedFinding, Row, FindingStatus
  <2> QED
    BY <2>3, <2>4
<1>5. Tables'
  BY <1>3, <1>4 DEF Tables, UpsertEvaluation, worldVars
<1>6. Histories' /\ RowsGrounded' /\ WorkSound'
  BY DEF Histories, RowsGrounded, RowGrounded, WorkSound, UpsertEvaluation,
         worldVars
<1>7. ASSUME NEW k \in DOMAIN findings' PROVE Listed(k)' /\ Grounded(k)'
  <2>1. Listed(k) /\ Grounded(k)
    BY <1>4
  <2> QED
    BY <2>1 DEF Listed, Grounded, Replied, UpsertEvaluation, worldVars
<1>8. FindingsListed' /\ FindingGrounded'
  BY <1>7 DEF FindingsListed, FindingGrounded, Grounded, Replied
<1>9. DecidedFindings' /\ DecisionKept'
  BY <1>3, <1>4 DEF DecidedFindings, DecisionKept, UpsertEvaluation
<1>10. ReportComplete'
  BY DEF ReportComplete, UpsertEvaluation
<1> QED
  BY <1>5, <1>6, <1>8, <1>9, <1>10

\* The decision of an operator changes one status and nothing else.
LEMMA ChangeStep ==
    ASSUME AssessInv, NEW k \in DOMAIN findings, NEW to \in FindingStatus,
           ChangeStatus(k, to)
    PROVE  AssessInv'
<1> USE DEF AssessInv
<1>1. findings[k] \in Row /\ findings' = [findings EXCEPT ![k].status = to]
  BY DEF Tables, ChangeStatus
<1>2. /\ DOMAIN findings' = DOMAIN findings
      /\ \A j \in DOMAIN findings : j # k => findings'[j] = findings[j]
      /\ findings'[k] \in Row /\ findings'[k].status = to
      /\ findings' \in [DOMAIN findings' -> Row]
  BY <1>1 DEF Tables, Row
<1>3. Tables'
  BY <1>2 DEF Tables, ChangeStatus, worldVars
<1>4. Histories' /\ RowsGrounded'
  BY DEF Histories, RowsGrounded, RowGrounded, ChangeStatus, worldVars
<1>5. \A j \in DOMAIN findings : (Listed(j) => Listed(j)') /\ (Grounded(j) => Grounded(j)')
  BY DEF Listed, Grounded, Replied, ChangeStatus, worldVars
<1>6. FindingsListed' /\ FindingGrounded'
  <2>1. \A j \in DOMAIN findings' : Listed(j)' /\ Grounded(j)'
    BY <1>2, <1>5, GroundedFindings DEF FindingsListed
  <2> QED
    BY <2>1 DEF FindingsListed, FindingGrounded, Grounded, Replied
<1>7. WorkSound'
  <2>1. CASE work = NoWork
    BY <2>1 DEF WorkSound, ChangeStatus
  <2>2. ASSUME NEW todo, ProtocolAudit(todo) PROVE ProtocolAudit(todo)'
    BY <2>2 DEF ProtocolAudit, ChangeStatus
  <2>3. ASSUME NEW drafts, Evaluation(drafts) PROVE Evaluation(drafts)'
    BY <2>3 DEF Evaluation, Listed, Grounded, Replied, ChangeStatus, worldVars
  <2>4. ASSUME NEW page, NEW cut \in BOOLEAN, ReportGeneration(page, cut)
        PROVE  ReportGeneration(page, cut)'
    BY <1>2, <2>4 DEF ReportGeneration, ChangeStatus
  <2> QED
    BY <2>1, <2>2, <2>3, <2>4 DEF WorkSound
<1>8. DecidedFindings' /\ DecisionKept'
  <2>1. /\ DOMAIN decided' = DOMAIN decided \cup {k}
        /\ \A j \in DOMAIN decided' :
              decided'[j] = IF j = k THEN to ELSE decided[j]
    BY DEF ChangeStatus
  <2> QED
    BY <1>2, <2>1 DEF DecidedFindings, DecisionKept
<1>9. ReportComplete'
  BY DEF ReportComplete, ChangeStatus
<1> QED
  BY <1>3, <1>4, <1>6, <1>7, <1>8, <1>9

\* A report that is not truncated has read every finding, and before them
\* every service they are about.
LEMMA ReportStep ==
    ASSUME AssessInv, NEW page \in SUBSET DOMAIN findings, BuildReport(page)
    PROVE  AssessInv'
<1> USE DEF AssessInv
<1>1. PICK services : \E cut \in BOOLEAN : ReportGeneration(services, cut)
  BY DEF BuildReport, WorkSound, NoWork, ProtocolAudit, Evaluation
<1>2. PICK cut \in BOOLEAN : ReportGeneration(services, cut)
  BY <1>1
<1>3. work.services = services /\ work.truncated = cut
  BY <1>2 DEF ReportGeneration
<1>4. /\ report'.services = services
      /\ report'.findings = page
      /\ report'.truncated = Truncated(page)
      /\ report'.highest = Worst({findings[k].severity : k \in OpenIn(page)})
      /\ report'.recommendations = Recommendations(page)
      /\ report'.open = [k \in OpenIn(DOMAIN findings) |-> findings[k].severity]
  BY <1>3 DEF BuildReport
<1>5. ASSUME ~report'.truncated
      PROVE  /\ \A k \in page : k[2] = "audit" \/ k[2] \in services
             /\ DOMAIN report'.open = UNION {r.findings : r \in Recommendations(page)}
             /\ \A k \in DOMAIN report'.open :
                   SEVERITY_RANK[report'.highest] <= SEVERITY_RANK[report'.open[k]]
  <2>1. ~cut /\ page = DOMAIN findings
    BY <1>3, <1>4, <1>5 DEF Truncated
  <2>2. \A k \in page : k[2] = "audit" \/ k[2] \in services
    BY <1>2, <2>1 DEF ReportGeneration
  <2>3. DOMAIN report'.open = OpenIn(page)
    BY <1>4, <2>1
  <2>4. OpenIn(page) = UNION {r.findings : r \in Recommendations(page)}
    <3> DEFINE Same(k) == {j \in OpenIn(page) : Advice(j) = Advice(k)}
    <3> DEFINE Rec(k) == [findings |-> Same(k),
                          severity |-> Worst({findings[j].severity : j \in Same(k)})]
    <3>1. Recommendations(page) = {Rec(k) : k \in OpenIn(page)}
      BY DEF Recommendations
    <3>2. \A k \in OpenIn(page) : k \in Same(k)
      OBVIOUS
    <3>3. \A k \in OpenIn(page) : Same(k) \subseteq OpenIn(page)
      OBVIOUS
    <3>4. \A k : Rec(k).findings = Same(k)
      OBVIOUS
    <3> HIDE DEF Rec, Same
    <3> QED
      BY <3>1, <3>2, <3>3, <3>4
  <2>5. ASSUME NEW k \in OpenIn(page)
        PROVE  SEVERITY_RANK[report'.highest] <= SEVERITY_RANK[report'.open[k]]
    <3> DEFINE S == {findings[j].severity : j \in OpenIn(page)}
    <3>1. S \in SUBSET (Severity \cup {"none"}) /\ S # {} /\ findings[k].severity \in S
      BY DEF OpenIn, Tables, Row
    <3>2. report'.open[k] = findings[k].severity /\ report'.highest = Worst(S)
      BY <1>4, <2>1
    <3> HIDE DEF S
    <3> QED
      BY <3>1, <3>2, WorstIs
  <2> QED
    BY <2>2, <2>3, <2>4, <2>5
<1>6. ReportComplete'
  BY <1>4, <1>5 DEF ReportComplete
<1>7. WorkSound' /\ RowsGrounded'
  BY DEF WorkSound, RowsGrounded, RowGrounded, BuildReport
<1>8. UNCHANGED <<worldVars, observed, findings, jobs, replies, decided>>
  BY DEF BuildReport
<1>9. /\ jobs' \in 0..MaxJobs /\ DOMAIN observed' = Services
      /\ DOMAIN replies' = Services
      /\ \A s \in Services : replies[s] \subseteq replies'[s]
  BY <1>8 DEF Tables
<1> QED
  BY <1>6, <1>7, <1>8, <1>9, JobStep

\* Every step of the assessment keeps the invariant.
LEMMA AssessStep ==
    ASSUME AssessInv, [AssessNext]_assessVars
    PROVE  AssessInv'
<1> USE DEF AssessInv
<1>1. ASSUME NEW s \in Services, NEW a \in Answers[s], Reconfigure(s, a)
      PROVE  AssessInv'
  BY <1>1, WorldStep DEF Reconfigure, Tables, Histories
<1>2. ASSUME TimePasses PROVE AssessInv'
  BY <1>2, WorldStep DEF TimePasses, Tables, Histories
<1>3. ASSUME NEW s \in Services, NEW state \in {"open", "closed"},
             ScanStores(s, state)
      PROVE  AssessInv'
  <2>1. Tables' /\ Histories'
    BY <1>3 DEF ScanStores, Tables, Histories
  <2>2. \A r \in Services : inventory[r] # "absent" => inventory'[r] # "absent"
    BY <1>3 DEF ScanStores, Tables
  <2>3. seen \subseteq seen' /\ heardOf' = heardOf
    BY <1>3 DEF ScanStores
  <2> QED
    BY <1>3, <2>1, <2>2, <2>3, WorldStep DEF ScanStores
<1>4. ASSUME NEW p \in PassiveResults, PassiveStores(p) PROVE AssessInv'
  BY <1>4, WorldStep DEF PassiveStores, Tables, Histories
<1>5. ASSUME WorkSound', UNCHANGED <<worldVars, observed, findings, report,
                                     replies, decided>>,
             jobs' \in 0..MaxJobs
      PROVE  AssessInv'
  <2>1. RowsGrounded' /\ ReportComplete'
    BY <1>5 DEF RowsGrounded, RowGrounded, ReportComplete
  <2> QED
    BY <1>5, <2>1, JobStep DEF Tables
<1>6. ASSUME EndJob PROVE AssessInv'
  BY <1>5, <1>6 DEF EndJob, WorkSound, Tables
<1>7. ASSUME NEW type, NEW fields, BeginJob(type, fields)
      PROVE  jobs' \in 0..MaxJobs /\ work' = fields
  BY <1>7, AssessmentAssumption DEF BeginJob, Tables
<1>8. ASSUME StartProtocolAudit PROVE AssessInv'
  <2>1. ProtocolAudit(MatchWork)'
    <3>1. work' = [type |-> "protocol_audit", todo |-> MatchWork]
      BY <1>7, <1>8 DEF StartProtocolAudit
    <3>2. MatchWork' = MatchWork
      BY <1>8 DEF StartProtocolAudit, MatchWork, worldVars
    <3> QED
      BY <3>1, <3>2 DEF ProtocolAudit, MatchWork
  <2> QED
    BY <1>5, <1>7, <1>8, <2>1 DEF StartProtocolAudit, WorkSound
<1>9. ASSUME StartEvaluation PROVE AssessInv'
  <2> DEFINE drafts == EvaluateFindings
  <2>1. work' = [type |-> "findings_evaluation", drafts |-> drafts]
    BY <1>7, <1>9 DEF StartEvaluation
  <2>2. /\ DOMAIN drafts \subseteq FindingKey
        /\ \A k \in DOMAIN drafts : drafts[k] \in Severity /\ Listed(k) /\ Grounded(k)
    BY DraftsSound
  <2> HIDE DEF drafts
  <2>3. \A k \in DOMAIN drafts : Listed(k)' /\ Grounded(k)'
    BY <1>9, <2>2 DEF StartEvaluation, worldVars, Listed, Grounded, Replied
  <2>4. \E d : Evaluation(d)'
    BY <2>1, <2>2, <2>3 DEF Evaluation
  <2> QED
    BY <1>5, <1>7, <1>9, <2>4 DEF StartEvaluation, WorkSound
<1>10. ASSUME StartReport PROVE AssessInv'
  <2> DEFINE listed == {s \in Services : inventory[s] # "absent"}
  <2>1. PICK page \in SUBSET listed :
             BeginJob("report_generation",
                  [type |-> "report_generation", services |-> page,
                   truncated |-> page # listed])
    BY <1>10 DEF StartReport
  <2>2. work' = [type |-> "report_generation", services |-> page,
                 truncated |-> page # listed]
    BY <1>7, <2>1
  <2>3. page = listed => \A k \in DOMAIN findings : k[2] = "audit" \/ k[2] \in page
    BY KeyShape DEF FindingsListed, Listed, Tables
  <2>4. \E cut \in BOOLEAN : ReportGeneration(page, cut)'
    <3>1. (page # listed) \in BOOLEAN /\ findings' = findings
      BY <1>10 DEF StartReport
    <3> QED
      BY <2>2, <2>3, <3>1 DEF ReportGeneration
  <2> QED
    BY <1>5, <1>7, <1>10, <2>1, <2>4 DEF StartReport, WorkSound
<1>11. ASSUME NEW m \in Modules, NEW s \in Services, ModuleAnswered(m, s)
       PROVE  AssessInv'
  <2>1. WorkSound' /\ Matches(m, RecordOf[s])
    BY <1>11, AuditWork DEF ModuleAnswered
  <2>2. /\ \A r \in Services : replies[r] \subseteq replies'[r]
        /\ answer[s] \in replies'[s]
        /\ DOMAIN replies' = Services /\ DOMAIN observed' = Services
    BY <1>11 DEF ModuleAnswered, Tables
  <2>3. \A d \in Parsed(m, answer[s]) : Draft(d.kind, d.facts) \in Parsed(m, answer[s])
    BY ParsedShape
  <2>4. RowsGrounded'
    <3> DEFINE drafts == Parsed(m, answer[s])
    <3>1. observed' = [observed EXCEPT ![s] = UpsertMany(s, m, drafts)]
      BY <1>11 DEF ModuleAnswered
    <3>2. \A d \in drafts : \E a \in replies'[s] : Draft(d.kind, d.facts) \in Parsed(m, a)
      BY <2>2, <2>3
    <3>3. DOMAIN observed = Services
      BY DEF Tables
    <3> HIDE DEF drafts
    <3> QED
      BY <2>1, <2>2, <3>1, <3>2, <3>3, UpsertGrounded
  <2>5. ReportComplete' /\ jobs' \in 0..MaxJobs
    BY <1>11 DEF ModuleAnswered, ReportComplete, Tables
  <2> QED
    BY <1>11, <2>1, <2>2, <2>4, <2>5, JobStep DEF ModuleAnswered
<1>12. ASSUME NEW m \in Modules, NEW s \in Services, NEW failure \in Failures,
              ModuleFailed(m, s, failure)
       PROVE  AssessInv'
  <2>1. WorkSound' /\ Matches(m, RecordOf[s])
    BY <1>12, AuditWork DEF ModuleFailed
  <2>2. replies' = replies /\ DOMAIN replies = Services /\ DOMAIN observed' = Services
    BY <1>12 DEF ModuleFailed, Tables
  <2>3. RowsGrounded'
    <3> DEFINE drafts == {Unparsed(m, failure)}
    <3>1. observed' = [observed EXCEPT ![s] = UpsertMany(s, m, drafts)]
      BY <1>12 DEF ModuleFailed
    <3>2. \A d \in drafts : d.kind \in NON_EVIDENCE_KINDS
      BY UnparsedKind
    <3>3. DOMAIN observed = Services /\ \A r \in Services : replies[r] \subseteq replies'[r]
      BY <2>2 DEF Tables
    <3> HIDE DEF drafts
    <3> QED
      BY <2>1, <3>1, <3>2, <3>3, UpsertGrounded
  <2>4. ReportComplete' /\ jobs' \in 0..MaxJobs
    BY <1>12 DEF ModuleFailed, ReportComplete, Tables
  <2> QED
    BY <1>12, <2>1, <2>2, <2>3, <2>4, JobStep DEF ModuleFailed
<1>13. CASE UNCHANGED assessVars
  <2>1. Tables' /\ Histories'
    BY <1>13 DEF assessVars, Tables, Histories
  <2> QED
    BY <1>13, <2>1, WorldStep DEF assessVars
<1> QED
  BY <1>1, <1>2, <1>3, <1>4, <1>6, <1>8, <1>9, <1>10, <1>11, <1>12, <1>13,
     UpsertStep, ChangeStep, ReportStep
     DEF AssessNext

\* The invariant holds in every reachable state.
LEMMA AssessInvariant == AssessSpec => []AssessInv
<1>1. AssessInit => AssessInv
  <2> SUFFICES ASSUME AssessInit PROVE AssessInv
    OBVIOUS
  <2>1. DOMAIN findings = {} /\ DOMAIN decided = {}
    BY DEF AssessInit, None
  <2>2. Histories /\ RowsGrounded /\ WorkSound
    BY DEF AssessInit, Histories, RowsGrounded, WorkSound
  <2>5. Tables
    <3>1. findings \in [DOMAIN findings -> Row]
      BY DEF AssessInit, None
    <3>2. later \in BOOLEAN
      BY DEF AssessInit
    <3>3. jobs \in 0..MaxJobs
      BY AssessmentAssumption DEF AssessInit
    <3>4. /\ inventory \in [Services -> {"absent", "open", "closed"}]
          /\ DOMAIN observed = Services /\ DOMAIN replies = Services
      BY DEF AssessInit
    <3>5. DOMAIN findings \subseteq FindingKey
      BY <2>1
    <3> QED
      BY <3>1, <3>2, <3>3, <3>4, <3>5 DEF Tables
  <2>3. FindingsListed /\ FindingGrounded /\ DecidedFindings /\ DecisionKept
    BY <2>1 DEF FindingsListed, FindingGrounded, DecidedFindings, DecisionKept
  <2>4. ReportComplete
    BY DEF AssessInit, ReportComplete
  <2> QED
    BY <2>2, <2>3, <2>4, <2>5 DEF AssessInv
<1>2. AssessInv /\ [AssessNext]_assessVars => AssessInv'
  BY AssessStep
<1> QED
  BY <1>1, <1>2, PTL DEF AssessSpec

\* The tables stay within their types.
THEOREM AssessmentTyped == AssessSpec => []AssessTypeOK
<1>1. AssessInv => AssessTypeOK
  BY Ranks DEF AssessInv, Tables, AssessTypeOK, Row, Severity
<1> QED
  BY <1>1, AssessInvariant, PTL

\* Every finding is about something that was really seen, for any services,
\* answers, failures and passive results, in any order of audits, scans and
\* evaluations.
THEOREM FindingsGrounded == AssessSpec => []FindingGrounded
<1>1. AssessInv => FindingGrounded
  BY DEF AssessInv
<1> QED
  BY <1>1, AssessInvariant, PTL

\* No evaluation ever undoes the decision of an operator.
THEOREM DecisionsKept == AssessSpec => []DecisionKept
<1>1. AssessInv => DecisionKept
  BY DEF AssessInv
<1> QED
  BY <1>1, AssessInvariant, PTL

\* A report that does not call itself truncated is complete, for any limit.
THEOREM ReportsComplete == AssessSpec => []ReportComplete
<1>1. AssessInv => ReportComplete
  BY DEF AssessInv
<1> QED
  BY <1>1, AssessInvariant, PTL
=============================================================================
