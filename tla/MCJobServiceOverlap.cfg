SPECIFICATION Spec
CONSTANTS
    a1 = a1
    a2 = a2
    j1 = j1
    j2 = j2
    j3 = j3
    Audit = {a1}
    Job = {j1, j2, j3}
    Client = {c1}
    Key <- MCKey
    Group <- MCGroup
    NoJob = NoJob
    NoKey = NoKey
    NoGroup = NoGroup
    AuditOf <- OneAudit
    TypeOf <- AnalysisTypeOf
    KeyOf <- AnalysisKeyOf
    GroupOf <- AnalysisTypeOf
    PriorityOf <- Same
    SourceOf <- AnalysisSourceOf
    Limit <- MCLimit
    Full = 2
    Overlap = TRUE
INVARIANTS
    OneActiveAnalysis
    NoOrphanJob
PROPERTIES
    PcapHeldForAnalysis
