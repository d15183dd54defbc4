----------------------------- MODULE DeviceClass -----------------------------
(***************************************************************************)
(* The device-class hint of an asset (inventory/classify.py): a list of    *)
(* rules over the operating system hint, the vendor of the MAC address,    *)
(* the open ports and the sources of the names; the first that applies     *)
(* decides.  An operating system and a vendor are the family of tokens the *)
(* code looks for in them, "" when there is none.                          *)
(***************************************************************************)
EXTENDS Naturals, FiniteSets

OsFamily == {"", "printer", "network", "windows", "linux"}
VendorFamily == {"", "printer", "network", "iot"}
DeviceClassHint == {"printer-like", "network-device-like", "workstation-like",
                    "server-like", "iot-like", "unknown"}

PRINTER_PORTS == {515, 631, 9100}
WINDOWS_PORTS == {135, 139, 445, 3389, 5355, 5357}
SERVER_PORTS == {22, 25, 80, 443, 3306, 5432, 6379, 8080, 8443}
NETWORK_HINT_PORTS == {22, 23, 80, 161, 443, 8291}

NumbersOf(protocol, open) == {p[2] : p \in {q \in open : q[1] = protocol}}

IsPrinter(os, vendor, tcp) ==
    vendor = "printer" \/ os = "printer" \/ tcp \cap PRINTER_PORTS # {}

IsNetworkDevice(os, vendor, tcp, udp) ==
    \/ vendor = "network"
    \/ os = "network"
    \/ 161 \in udp /\ tcp \cap NETWORK_HINT_PORTS # {}

IsWorkstation(os, tcp) ==
    os = "windows" \/ Cardinality(tcp \cap WINDOWS_PORTS) >= 2

IsServer(os, tcp) == os = "linux" \/ Cardinality(tcp \cap SERVER_PORTS) >= 2

IsIot(vendor, tcp, sources) ==
    \/ vendor = "iot"
    \/ /\ "mdns" \in sources
       /\ Cardinality(tcp) <= 3
       /\ tcp \cap (SERVER_PORTS \ {80, 443}) = {}

\* open: pairs of a protocol and a port; sources: where the names come from.
ClassifyDevice(os, vendor, open, sources) ==
    LET tcp == NumbersOf("tcp", open)
        udp == NumbersOf("udp", open)
    IN IF IsPrinter(os, vendor, tcp) THEN "printer-like"
       ELSE IF IsNetworkDevice(os, vendor, tcp, udp) THEN "network-device-like"
       ELSE IF IsWorkstation(os, tcp) THEN "workstation-like"
       ELSE IF IsServer(os, tcp) THEN "server-like"
       ELSE IF IsIot(vendor, tcp, sources) THEN "iot-like"
       ELSE "unknown"
=============================================================================
