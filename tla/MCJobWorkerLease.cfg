SPECIFICATION WSpec
CONSTANTS
    a1 = a1
    j1 = j1
    j2 = j2
    s1 = s1
    s2 = s2
    t1 = t1
    t2 = t2
    Audit = {a1}
    Job = {j1}
    Api = {c1}
    Client <- MCClient
    Key <- MCKey
    Group <- MCGroup
    NoJob = NoJob
    NoKey = NoKey
    NoGroup = NoGroup
    AuditOf <- MCAuditOf
    TypeOf <- MCTypeOf
    KeyOf <- MCKeyOf
    GroupOf <- MCTypeOf
    PriorityOf <- MCPriorityOf
    SourceOf <- MCSourceOf
    Limit <- MCLimit
    Full = 2
    Overlap = TRUE
    Supervisor = {s1, s2}
    Thread = {t1, t2}
    SupervisorOf <- TwoProcesses
    MaxKills = 0
INVARIANTS
    OneSupervisor
