---------------------------- MODULE MCInventory ----------------------------
(***************************************************************************)
(* Two MAC addresses and two addresses.  The passive results have an       *)
(* address without a MAC address, a second MAC address behind an address,  *)
(* and a DHCP offer of a relayed client; the scans have a host with two    *)
(* entries, a host that went down, and one whose MAC address changed.      *)
(***************************************************************************)
EXTENDS Inventory, TLC

MCVendorOf == [m \in Macs |-> IF m = "m1" THEN "" ELSE "network"]
MCFamilyOf == [n \in OsNames |-> IF n = "Linux" THEN "linux" ELSE "windows"]
MCPorts == {<<"tcp", 22>>, <<"tcp", 443>>}

Obs(m, x, s) == [mac |-> m, addresses |-> x, sources |-> s]
ScannedPort(st, pr, c) == [state |-> st, product |-> pr, confidence |-> c]
Scanned(m, x, st, f) ==
    [status |-> st, mac |-> m, vendor |-> "", addresses |-> x, hostname |-> FALSE,
     os |-> NoOs, accuracy |-> 0, single |-> TRUE,
     ports |-> [p \in Ports |-> IF p \in DOMAIN f THEN f[p] ELSE NoService]]
NoPorts == <<>>

MCPassiveDocs ==
    { << Obs("m1", <<>>, {}), Obs("m1", <<"x1">>, {}), Obs(NoMac, <<"x2">>, {"mdns"}) >>,
      << Obs("m2", <<"x1">>, {"dhcp"}), Obs("m2", <<"x2", "x1">>, {}) >>,
      << Obs("m2", <<"x2">>, {}) >> }

MCScanDocs ==
    { << [Scanned("m1", <<"x2">>, "up", <<"tcp", 443>> :> ScannedPort("open", NoProduct, "low"))
             EXCEPT !.os = "Linux", !.accuracy = 90],
         Scanned("m1", <<"x1">>, "up", <<"tcp", 22>> :> ScannedPort("open", "ssh", "high")) >>,
      << [Scanned("m2", <<"x1">>, "up", <<"tcp", 22>> :> ScannedPort("closed", "telnet", "medium"))
             EXCEPT !.os = "Windows", !.accuracy = 95, !.hostname = TRUE] >>,
      << Scanned(NoMac, <<"x2">>, "down", NoPorts),
         [Scanned(NoMac, <<"x1">>, "down", NoPorts) EXCEPT !.single = FALSE] >> }

Symmetric == Permutations(Assets) \cup Permutations(Requests)
=============================================================================
