SPECIFICATION Spec
CONSTANTS
    a1 = a1
    a2 = a2
    j1 = j1
    j2 = j2
    j3 = j3
    Audit = {a1}
    Job = {j1, j2}
    Client = {c1, c2}
    Key <- MCKey
    Group <- MCGroup
    NoJob = NoJob
    NoKey = NoKey
    NoGroup = NoGroup
    AuditOf <- OneAudit
    TypeOf <- SharedTypeOf
    KeyOf <- SharedKeyOf
    GroupOf <- SharedGroupOf
    PriorityOf <- Same
    SourceOf <- NoSource
    Limit <- MCLimit
    Full = 2
    Overlap = TRUE
INVARIANTS
    RestartAccepted
