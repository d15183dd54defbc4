SPECIFICATION MCSpec
CONSTANTS
    j1 = j1
    j2 = j2
    j3 = j3
    f1 = f1
    f2 = f2
    Job = {j1, j2, j3}
    File = {f1, f2}
    FileOf <- MCFileOf
    Secret = {f1}
    Canceller = {c1}
    Plans = {"capture", "passive", "passive_retained", "active_routed", "active_standard",
             "active_deep", "active_closed", "traffic", "protocol", "findings", "report",
             "global", "snmp", "ssh"}
    Interfaces = {"eth0", "eth0.10"}
    AuditInterface = "eth0"
    NoInterface = "none"
    VlanParent <- MCVlanParent
    HostStates <- MCHostStates
    ScopeRequests <- MCScopeRequests
    Machines <- MCMachines
    AddressBits = 3
    MulticastBase = 7
    ProfileLimit <- MCProfileLimit
    Ipv6Limit = 2
    NetRaw = TRUE
    MaxScopes = 2
    MaxRequests = 3
INVARIANTS
    ScopeExact
    
    ToolStopped
    
    ProgressForward
PROPERTIES
    FileKept
    
    HandlersEnd
CHECK_DEADLOCK FALSE
