SPECIFICATION InventorySpec
CONSTANTS
    Assets = {a1, a2, a3, a4}
    Macs = {"m1", "m2"}
    Addresses = {"x1", "x2"}
    Ports <- MCPorts
    OsNames = {"Linux", "Windows"}
    Products = {"ssh", "telnet"}
    Sources = {"mdns", "nmap", "dhcp"}
    VendorOf <- MCVendorOf
    FamilyOf <- MCFamilyOf
    Requests = {r1, r2}
    PassiveDocs <- MCPassiveDocs
    ScanDocs <- MCScanDocs
    MaxBegun = 3
    NoMac = "none"
    NoAsset = NoAsset
    NoOs = "none"
    NoProduct = "none"
    NoRequest = NoRequest
SYMMETRY Symmetric
INVARIANT
    PassiveConflictKept
