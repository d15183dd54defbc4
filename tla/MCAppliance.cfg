SPECIFICATION ApplianceSpec
CONSTANTS
    Nics = {"e0", "e1"}
    Changes <- MCChanges
    Callers = {r1, r2}
    Backends = {"nmcli", "ifupdown", "networkd", "ip"}
    LanBound = TRUE
    NoNic = "none"
    NoChange = NoChange
    Options <- MCOptions
    MaxGenerated = 2
    p1 = p1
    Users = {u1}
    Tokens = {k1, k2, k3}
    Threads = {r1, r2}
    Passwords = {p1, p2}
    MaxFailures = 2
    MaxChanges = 2
    NoUser = NoUser
    a1 = a1
    x1 = x1
    x2 = x2
    Audit = {a1}
    Artifact = {x1, x2}
    AuditOf <- MCAuditOf
    Snapshot = {x1}
    Perishable = {x2}
INVARIANTS
    
    FirstPasswordKept
    
    RowBacked
PROPERTIES
    PutKeepsFile
    LastAddressConfirmed
