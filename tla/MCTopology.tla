----------------------------- MODULE MCTopology -----------------------------
(***************************************************************************)
(* Two audits of one site.  Evidence is either that of a flat network with *)
(* a default route of another interface and recorded traffic, or that of   *)
(* two networks behind a gateway which is also a machine of the inventory; *)
(* the older audit may be damaged.  The results are a traced route with a  *)
(* silent hop, the tables of a switch, known under two addresses, and the  *)
(* tables of the gateway, read over SSH.                                   *)
(***************************************************************************)
EXTENDS Topology

MCAddressOrder == <<"a0", "a1", "a2", "a3", "b0", "b1", "b2", "b3", "gw", "x1", "mc">>
Lan == {"a0", "a1", "a2", "a3"}
Far == {"b0", "b1", "b2", "b3"}

Machine(i, x, m) == [id |-> i, addresses |-> x, names |-> {i}, mac |-> m, device |-> FALSE]
Base(a) ==
  [audit |-> a, interface |-> "eth0", terminal |-> TRUE, broken |-> FALSE,
   assets |-> <<Machine("host", {"a2"}, {"m2"})>>,
   sensor |-> {<<"a1", Lan>>}, hostRoute |-> <<>>, defaultRoutes |-> <<>>, leases |-> <<>>,
   dhcpRouters |-> <<>>, dhcpServers |-> <<>>, neighbors |-> <<>>, bridges |-> <<>>, roots |-> <<>>,
   overlay |-> <<>>, targets |-> <<Lan>>, routes |-> <<>>, findings |-> {}]
Flat(a) ==
  [Base(a) EXCEPT !.hostRoute = <<[gateway |-> "b2", interface |-> "eth1"]>>, !.dhcpRouters = <<"gw">>,
                  !.overlay = << <<"a2", "m9">>, <<"a2", "mc">>, <<"a2", "b2">> >>,
                  !.findings = {<<"host", "f">>}]
ScopeRoute(n, g, r) == [target |-> n, interface |-> "eth0", gateway |-> g, representative |-> r]
Routed(a) ==
  [Base(a) EXCEPT !.assets = @ \o <<Machine("dual", {"gw", "b1"}, {})>>,
                  !.targets = <<Far, Lan>>,
                  !.routes = <<ScopeRoute(Far, {"gw"}, "b1"), ScopeRoute(Lan, {}, "a2")>>,
                  !.defaultRoutes = <<[gateway |-> "gw", interface |-> "eth0"]>>,
                  !.leases = <<[interface |-> "eth0", router |-> "gw"]>>, !.dhcpServers = <<"gw">>,
                  !.neighbors = <<[protocol |-> "lldp", label |-> "sw"], [protocol |-> "cdp", label |-> "host"]>>,
                  !.bridges = <<"br">>, !.roots = <<"br">>]
MCEvidenceOf == [old |-> <<Routed("old"), [Base("old") EXCEPT !.broken = TRUE]>>,
                 new |-> <<Flat("new"), Routed("new")>>]

ToFar == [target |-> "b2", scope |-> Far, source |-> "a1", gateway |-> {"gw"}]
Trace ==
  [type |-> "trace", id |-> 0, target |-> "b2", targets |-> <<ToFar>>,
   traces |-> <<[target |-> "b2", scope |-> Far, source |-> "a1", gateway |-> {"gw"}, completed |-> TRUE,
                 reached |-> TRUE, hops |-> << <<1, {"gw"}>>, <<2, {}>>, <<3, {"b2"}>> >>]>>]

PortOf(m, t, u) == [mode |-> m, tagged |-> t, untagged |-> u, pvid |-> u]
Switch(ip, arp) ==
  [type |-> "snmp", id |-> 0, target |-> ip, name |-> {"sw"}, arp |-> arp,
   fdb |-> <<[mac |-> "m2", port |-> 1, ifindex |-> 1, vlans |-> {}],
             [mac |-> "m9", port |-> 2, ifindex |-> 2, vlans |-> {10}]>>,
   lldp |-> <<[chassis |-> {"m7"}, name |-> {"core"}, management |-> <<"b3">>, port |-> 4],
              [chassis |-> {}, name |-> {"sw"}, management |-> <<>>, port |-> 5]>>,
   ports |-> <<PortOf("access", {}, {20}), PortOf("trunk", {10, 20}, {})>>,
   addresses |-> <<[ifindex |-> 1, ip |-> "a3", network |-> Lan], [ifindex |-> 2, ip |-> "b2", network |-> Far]>>,
   neighbors |-> <<[ip |-> "b1", mac |-> "m5", ifindex |-> 2, valid |-> TRUE],
                   [ip |-> "x1", mac |-> "m6", ifindex |-> 3, valid |-> TRUE]>>]
Gateway ==
  [type |-> "ssh", id |-> 0, target |-> "gw", name |-> {},
   interfaces |-> <<[name |-> "br0", addresses |-> {<<"a0", Lan>>}, mac |-> {"m8"}],
                    [name |-> "wan", addresses |-> {<<"b0", Far>>}, mac |-> {}]>>,
   neighbors |-> <<[ip |-> {"a2"}, mac |-> {"m2"}], [ip |-> {}, mac |-> {"m4"}]>>,
   ports |-> <<PortOf("unknown", {}, {20})>>,
   fdb |-> <<[mac |-> "m2", port |-> 1, vlan |-> {}], [mac |-> "m4", port |-> 2, vlan |-> {10}]>>,
   wifi |-> <<"m4", "m3">>, gateways |-> <<"b1">>]
MCResults == {Trace, Switch("a3", <<[ip |-> "gw", mac |-> "m9"]>>), Switch("b2", <<>>), Gateway}
=============================================================================
