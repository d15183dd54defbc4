SPECIFICATION AuditSpec
CONSTANTS
    Assets = {1, 2, 3, 4}
    Macs = {"m1", "m2"}
    Addresses = {"x1", "x2"}
    Ports <- MCPorts
    OsNames = {"Linux", "Windows"}
    Products = {"ssh", "telnet"}
    Sources = {"mdns", "nmap", "dhcp"}
    VendorOf <- MCVendorOf
    FamilyOf <- MCFamilyOf
    Requests = {r1, r2}
    PassiveDocs <- MCPassiveDocs
    ScanDocs <- MCScanDocs
    MaxBegun = 3
    NoMac = "none"
    NoAsset = NoAsset
    NoOs = "none"
    NoProduct = "none"
    NoRequest = NoRequest
    Services = {"web", "dir"}
    RecordOf <- MCRecordOf
    Answers <- MCAnswers
    PassiveResults <- MCPassiveResults
    Failures = {"tool_timeout"}
    InputLimit = 2
    MaxJobs = 3
    MaxSeen = 1
    MaxDecided = 1
    NoPassive = NoPassive
    NoReport = NoReport
    AddressOrder <- MCAddressOrder
    MulticastAddr = {"mc"}
    EvidenceOf <- MCEvidenceOf
    Results <- MCResults
    TraceLimit = 1
    TableLimit = 2
    EndpointLimit = 1
    CurrentAudit = "new"
    BaselineAudit = "old"
    MaxSaved = 2
    NoMap = NoMap
CONSTRAINT
    InOrder
INVARIANTS
    IdentityUnique
    ScanConflictKept
    ClassCurrent
    
    DecisionKept
    ReportComplete
    MapConnected
    
    NoInventedContinuity
PROPERTIES
    IdentityStable
    ReadsChangeNothing
CHECK_DEADLOCK FALSE
