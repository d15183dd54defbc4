SPECIFICATION WSpec
CONSTANTS
    a1 = a1
    j1 = j1
    j2 = j2
    s1 = s1
    s2 = s2
    t1 = t1
    t2 = t2
    Audit = {a1}
    Job = {j1}
    Api = {c1}
    Client <- MCClient
    Key <- MCKey
    Group <- MCGroup
    NoJob = NoJob
    NoKey = NoKey
    NoGroup = NoGroup
    AuditOf <- MCAuditOf
    TypeOf <- MCTypeOf
    KeyOf <- MCKeyOf
    GroupOf <- MCTypeOf
    PriorityOf <- MCPriorityOf
    SourceOf <- MCSourceOf
    Limit <- MCLimit
    Full = 2
    Overlap = FALSE
    Supervisor = {s1}
    Thread = {t1}
    SupervisorOf <- OneProcess
    MaxKills = 0
INVARIANTS
    CancelHonoured
