SPECIFICATION Spec
CONSTANTS
    a1 = a1
    a2 = a2
    j1 = j1
    j2 = j2
    j3 = j3
    Audit = {a1, a2}
    Job = {j1, j2, j3}
    Client = {c1}
    Key <- MCKey
    Group <- MCGroup
    NoJob = NoJob
    NoKey = NoKey
    NoGroup = NoGroup
    AuditOf <- SharedAuditOf
    TypeOf <- SharedTypeOf
    KeyOf <- SharedKeyOf
    GroupOf <- SharedGroupOf
    PriorityOf <- SharedPriorityOf
    SourceOf <- NoSource
    Limit <- MCLimit
    Full = 2
    Overlap = FALSE
INVARIANTS
    LockTable
    GroupWithinLimit
    
    
PROPERTIES
    
    ImplementsStages
