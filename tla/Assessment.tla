----------------------------- MODULE Assessment -----------------------------
(***************************************************************************)
(* The assessment of one audit: protocol audits store observations of its  *)
(* services, evaluations make findings of them, operators accept or        *)
(* suppress findings, and reports sum up what is stored.  The three jobs   *)
(* share the lock of the audit, so they run one after the other; scans,    *)
(* passive captures and operators do not wait for them.                    *)
(***************************************************************************)
EXTENDS FindingRules

CONSTANTS
    Services,
    RecordOf,           \* the inventory's record of each service
    Answers,            \* answers each service may give while the audit lasts
    PassiveResults,     \* results of passive captures
    Failures,           \* bound: the ways in which tools fail
    InputLimit,         \* REPORT_INPUT_LIMIT
    MaxJobs,            \* bound: jobs of the audit
    MaxSeen,            \* bound: services that scans find
    MaxDecided,         \* bound: findings operators decide about
    NoPassive, NoReport

VARIABLES
    answer,         \* how each service answers now
    later,          \* certificates about to expire have expired
    inventory,      \* state of each service in the inventory
    passiveResult,  \* latest passive_result artifact
    observed,       \* protocol_observations of each service
    findings,       \* rows of findings
    work,           \* the job that holds the lock of the audit
    jobs,           \* jobs so far
    report,         \* the latest report
    replies,          \* history: answers that reached a parser
    decided,        \* history: what operators last decided about a finding
    seen,           \* history: services that scans found open
    heardOf         \* history: passive results stored

assessVars == <<answer, later, inventory, passiveResult, observed, findings, work, jobs,
                report, replies, decided, seen, heardOf>>
worldVars == <<answer, later, inventory, passiveResult, seen, heardOf>>

FindingStatus == {"open", "suppressed", "accepted_risk"}
\* Unique: (rule_id, dedupe_key).
FindingKey == (ServiceRules \X Services) \cup (AuditRules \X {"audit"})
NoWork == [type |-> "none"]
None == [s \in {} |-> {}]

ASSUME AssessmentAssumption ==
    /\ RecordOf \in [Services -> ServiceRecord]
    /\ "audit" \notin Services
    /\ Failures \subseteq NON_EVIDENCE_KINDS \ {"cancelled"}
    /\ InputLimit \in Nat \ {0} /\ MaxJobs \in Nat

AssessInit ==
    /\ answer \in [Services -> UNION {Answers[s] : s \in Services}]
    /\ \A s \in Services : answer[s] \in Answers[s]
    /\ later = FALSE
    /\ inventory = [s \in Services |-> "absent"]
    /\ passiveResult = NoPassive
    /\ observed = [s \in Services |-> {}]
    /\ findings = None
    /\ work = NoWork /\ jobs = 0
    /\ report = NoReport
    /\ replies = [s \in Services |-> {}]
    /\ decided = None
    /\ seen = {} /\ heardOf = {}

-----------------------------------------------------------------------------
\* The network and the jobs that need only the interface.
Reconfigure(s, a) ==
    /\ answer[s] # a
    /\ answer' = [answer EXCEPT ![s] = a]
    /\ UNCHANGED <<later, inventory, passiveResult, observed, findings, work, jobs, report, replies,
                   decided, seen, heardOf>>

TimePasses ==
    /\ ~later
    /\ later' = TRUE
    /\ UNCHANGED <<answer, inventory, passiveResult, observed, findings, work, jobs, report, replies,
                   decided, seen, heardOf>>

ScanStores(s, state) ==
    /\ inventory[s] # state
    /\ s \in seen \/ Cardinality(seen) < MaxSeen
    /\ inventory' = [inventory EXCEPT ![s] = state]
    /\ seen' = IF state = "open" THEN seen \cup {s} ELSE seen
    /\ UNCHANGED <<answer, later, passiveResult, observed, findings, work, jobs, report, replies,
                   decided, heardOf>>

PassiveStores(p) ==
    /\ passiveResult # p
    /\ passiveResult' = p
    /\ heardOf' = heardOf \cup {p}
    /\ UNCHANGED <<answer, later, inventory, observed, findings, work, jobs, report, replies,
                   decided, seen>>

-----------------------------------------------------------------------------
BeginJob(type, fields) ==
    /\ work = NoWork /\ jobs < MaxJobs
    /\ work' = fields
    /\ jobs' = jobs + 1

\* A job ends, is cancelled or fails between two steps.
EndJob ==
    /\ work # NoWork
    /\ work' = NoWork
    /\ UNCHANGED <<worldVars, observed, findings, jobs, report, replies, decided>>

\* match_work: the modules for the services that were open when the job began.
MatchWork ==
    {w \in Modules \X Services :
        inventory[w[2]] = "open" /\ Matches(w[1], RecordOf[w[2]])}

StartProtocolAudit ==
    /\ \E s \in Services : inventory[s] # "absent"
    /\ BeginJob("protocol_audit", [type |-> "protocol_audit", todo |-> MatchWork])
    /\ UNCHANGED <<worldVars, observed, findings, report, replies, decided>>

\* upsert_many replaces the row of the same service, module and kind; a row of
\* another kind stays.
UpsertMany(s, m, drafts) ==
    {o \in observed[s] : ~(o.module = m /\ \E d \in drafts : d.kind = o.kind)}
    \cup {[module |-> m, kind |-> d.kind, facts |-> d.facts] : d \in drafts}

\* ProtocolModuleRunner.run with an answer, and with a tool that is missing, too
\* old, times out or says nothing that can be parsed.
ModuleAnswered(m, s) ==
    /\ work.type = "protocol_audit" /\ <<m, s>> \in work.todo
    /\ observed' = [observed EXCEPT ![s] = UpsertMany(s, m, Parsed(m, answer[s]))]
    /\ replies' = [replies EXCEPT ![s] = @ \cup {answer[s]}]
    /\ work' = [work EXCEPT !.todo = @ \ {<<m, s>>}]
    /\ UNCHANGED <<worldVars, findings, jobs, report, decided>>

ModuleFailed(m, s, failure) ==
    /\ work.type = "protocol_audit" /\ <<m, s>> \in work.todo
    /\ observed' = [observed EXCEPT ![s] = UpsertMany(s, m, {Unparsed(m, failure)})]
    /\ work' = [work EXCEPT !.todo = @ \ {<<m, s>>}]
    /\ UNCHANGED <<worldVars, findings, jobs, report, replies, decided>>

-----------------------------------------------------------------------------
\* load_evaluation_context and evaluate_findings: the drafts, by key.
SeverityOf(k) ==
    IF k[2] = "audit" THEN IF passiveResult = NoPassive THEN "none"
                           ELSE EvaluatedPassive(k[1], passiveResult)
    ELSE IF inventory[k[2]] = "absent" THEN "none"
    ELSE Evaluated(k[1], observed[k[2]], RecordOf[k[2]], inventory[k[2]], later)

EvaluateFindings ==
    LET matched == {k \in FindingKey : SeverityOf(k) # "none"}
    IN [k \in matched |-> SeverityOf(k)]

StartEvaluation ==
    /\ BeginJob("findings_evaluation",
             [type |-> "findings_evaluation", drafts |-> EvaluateFindings])
    /\ UNCHANGED <<worldVars, observed, findings, report, replies, decided>>

\* An upsert that writes every column.
MutUpsertedFinding(drafts, k) ==
    IF k \in DOMAIN drafts THEN [severity |-> drafts[k], status |-> "open"]
    ELSE findings[k]

\* The row of key k after upsert_evaluation: status and findings that are not
\* matched any more are left alone.
UpsertedFinding(drafts, k) ==
    IF k \notin DOMAIN drafts THEN findings[k]
    ELSE [severity |-> drafts[k],
          status |-> IF k \in DOMAIN findings THEN findings[k].status ELSE "open"]

UpsertEvaluation ==
    /\ work.type = "findings_evaluation"
    /\ findings' = [k \in DOMAIN findings \cup DOMAIN work.drafts |->
                       UpsertedFinding(work.drafts, k)]
    /\ work' = NoWork
    /\ UNCHANGED <<worldVars, observed, jobs, report, replies, decided>>

\* suppress, accept-risk, reopen: any status but the present one.
ChangeStatus(k, to) ==
    /\ k \in DOMAIN findings /\ findings[k].status # to
    /\ k \in DOMAIN decided \/ Cardinality(DOMAIN decided) < MaxDecided
    /\ findings' = [findings EXCEPT ![k].status = to]
    /\ decided' = [j \in DOMAIN decided \cup {k} |-> IF j = k THEN to ELSE decided[j]]
    /\ UNCHANGED <<worldVars, observed, work, jobs, report, replies>>

-----------------------------------------------------------------------------
\* load_report_source: the services, then the findings, each at most InputLimit;
\* findings are listed with the most severe first.
StartReport ==
    /\ \E page \in SUBSET {s \in Services : inventory[s] # "absent"} :
         LET listed == {s \in Services : inventory[s] # "absent"} IN
         /\ Cardinality(page) =
               IF Cardinality(listed) > InputLimit THEN InputLimit ELSE Cardinality(listed)
         /\ BeginJob("report_generation",
                  [type |-> "report_generation", services |-> page,
                   truncated |-> page # listed])
    /\ UNCHANGED <<worldVars, observed, findings, report, replies, decided>>

RankOf(k) == SEVERITY_RANK[findings[k].severity]
FindingPages ==
    {page \in SUBSET DOMAIN findings :
        /\ Cardinality(page) = IF Cardinality(DOMAIN findings) > InputLimit
                                 THEN InputLimit ELSE Cardinality(DOMAIN findings)
        /\ \A k \in page, j \in DOMAIN findings \ page : RankOf(k) <= RankOf(j)}

OpenIn(page) == {k \in page : findings[k].status = "open"}

\* One recommendation for a rule, or for a rule and a name of a management
\* protocol.
Advice(k) ==
    IF k[1] = "WS-MGMT-INSECURE-PROTOCOL" THEN <<k[1], RecordOf[k[2]].name>> ELSE <<k[1]>>

Recommendations(page) ==
    {LET same == {j \in OpenIn(page) : Advice(j) = Advice(k)}
     IN [findings |-> same, severity |-> Worst({findings[j].severity : j \in same})] :
        k \in OpenIn(page)}

\* A report that takes only the list of services for a sign of truncation.
MutTruncated(page) == work.truncated

Truncated(page) == work.truncated \/ page # DOMAIN findings

BuildReport(page) ==
    /\ work.type = "report_generation"
    /\ page \in FindingPages
    /\ report' = [services |-> work.services, findings |-> page,
                  truncated |-> Truncated(page),
                  highest |-> Worst({findings[k].severity : k \in OpenIn(page)}),
                  recommendations |-> Recommendations(page),
                  \* history: what was open when the findings were read
                  open |-> [k \in OpenIn(DOMAIN findings) |-> findings[k].severity]]
    /\ work' = NoWork
    /\ UNCHANGED <<worldVars, observed, findings, jobs, replies, decided>>

AssessNext ==
    \/ \E s \in Services : \E a \in Answers[s] : Reconfigure(s, a)
    \/ TimePasses
    \/ \E s \in Services, state \in {"open", "closed"} : ScanStores(s, state)
    \/ \E p \in PassiveResults : PassiveStores(p)
    \/ EndJob
    \/ StartProtocolAudit \/ StartEvaluation \/ StartReport
    \/ \E m \in Modules, s \in Services :
          \/ ModuleAnswered(m, s)
          \/ \E failure \in Failures : ModuleFailed(m, s, failure)
    \/ UpsertEvaluation
    \/ \E k \in DOMAIN findings, to \in FindingStatus : ChangeStatus(k, to)
    \/ \E page \in SUBSET DOMAIN findings : BuildReport(page)

AssessSpec == AssessInit /\ [][AssessNext]_assessVars

-----------------------------------------------------------------------------
AssessTypeOK ==
    /\ inventory \in [Services -> {"absent", "open", "closed"}]
    /\ DOMAIN findings \subseteq FindingKey
    /\ \A k \in DOMAIN findings :
          /\ findings[k].severity \in DOMAIN SEVERITY_RANK \ {"none"}
          /\ findings[k].status \in FindingStatus
    /\ jobs \in 0..MaxJobs

AnswerRows(s, a) == UNION {Parsed(m, a) : m \in {n \in Modules : Matches(n, RecordOf[s])}}

(***************************************************************************)
(* A finding is about something that was really seen: an answer of the     *)
(* service for which the rule holds, a port that a scan found open, or a   *)
(* passive result.  Missing tools, timeouts and unreadable output never    *)
(* make one, whatever they replace in the table of observations and        *)
(* however audits, scans and evaluations follow each other.                *)
(***************************************************************************)
FindingGrounded ==
    \A k \in DOMAIN findings :
        IF k[2] = "audit"
          THEN \E p \in heardOf : EvaluatedPassive(k[1], p) # "none"
        ELSE IF k[1] = "WS-MGMT-INSECURE-PROTOCOL" THEN k[2] \in seen
        ELSE \E a \in replies[k[2]], l \in BOOLEAN :
                Evaluated(k[1], AnswerRows(k[2], a), RecordOf[k[2]], "open", l) # "none"

(***************************************************************************)
(* What an operator decided about a finding stands until the operator      *)
(* decides otherwise: evaluations that match the rule again, also with     *)
(* another severity, do not reopen it ("must not silently erase",          *)
(* docs/en/FINDINGS_MODEL.md:202), and a finding nobody decided about is   *)
(* open.                                                                   *)
(***************************************************************************)
DecisionKept ==
    \A k \in DOMAIN findings :
        findings[k].status = IF k \in DOMAIN decided THEN decided[k] ELSE "open"

(***************************************************************************)
(* A report that does not call itself truncated lists every finding that   *)
(* was open, with the services they are about, although services are read  *)
(* before findings and both lists are cut; its headline and its            *)
(* recommendations are about exactly these findings.                       *)
(***************************************************************************)
ReportComplete ==
    report # NoReport /\ ~report.truncated =>
        /\ \A k \in report.findings : k[2] = "audit" \/ k[2] \in report.services
        /\ DOMAIN report.open = UNION {r.findings : r \in report.recommendations}
        /\ \A k \in DOMAIN report.open :
              SEVERITY_RANK[report.highest] <= SEVERITY_RANK[report.open[k]]
=============================================================================
