--------------------------- MODULE TopologyDevices ---------------------------
(***************************************************************************)
(* The evidence of single devices laid over the map of an audit: traced    *)
(* routes (topology/upstream.py), the tables a device gave up over SNMP    *)
(* (topology/snmp.py, snmp_extended.py) or SSH (topology/ssh_management.py) *)
(* and the guard against switches that look like routers.                  *)
(*                                                                         *)
(* Interface-scoped segment identifiers of IPv6 link-local prefixes are    *)
(* left out: no address of the instances is link-local.                    *)
(***************************************************************************)
EXTENDS TopologyGraph

\* What the readers of stored results hand on: lists; the addresses of an
\* interface, finitely many, inside the network of their prefix (ip_interface).
IsTrace(d) ==
  /\ {"targets", "traces"} \subseteq DOMAIN d /\ IsSeq(d.targets) /\ IsSeq(d.traces)
  /\ \A i \in DOMAIN d.traces : IsSeq(d.traces[i].hops)
IsSnmp(d) ==
  /\ {"target", "name", "arp", "fdb", "lldp", "ports", "addresses", "neighbors"} \subseteq DOMAIN d
  /\ IsSeq(d.arp) /\ IsSeq(d.fdb) /\ IsSeq(d.lldp) /\ IsSeq(d.addresses) /\ IsSeq(d.neighbors)
  /\ \A i \in DOMAIN d.addresses : Placed(<<d.addresses[i].ip, d.addresses[i].network>>)
IsSsh(d) ==
  /\ {"target", "name", "interfaces", "neighbors", "ports", "fdb", "wifi", "gateways"} \subseteq DOMAIN d
  /\ IsSeq(d.interfaces) /\ IsSeq(d.neighbors) /\ IsSeq(d.fdb) /\ IsSeq(d.wifi) /\ IsSeq(d.gateways)
  /\ \A i \in DOMAIN d.interfaces : IsFiniteSet(d.interfaces[i].addresses)

\* segments of the map
SegmentAt(t, i) == IF i = 0 THEN NoNode ELSE t.segments[i].id
SegmentForScope(t, c) ==
  SegmentAt(t, SelectInSeq(t.segments, LAMBDA s : s.network = c.scope \/ c.target \in s.network))
SegmentForAddress(t, ip) ==
  LET holds(i) == ip \in t.segments[i].network
      size(i)  == Cardinality(t.segments[i].network)
  IN  SegmentAt(t, SelectInSeq([i \in DOMAIN t.segments |-> i], LAMBDA i :
        holds(i) /\ \A j \in DOMAIN t.segments : holds(j) => size(i) <= size(j)))
WithSegment(t, id, F(_)) ==
  [t EXCEPT !.segments = [i \in DOMAIN t.segments |-> IF t.segments[i].id = id
                                                      THEN F(t.segments[i]) ELSE t.segments[i]]]
EnsureSegment(t, network, provenance) ==
  IF \E s \in ToSet(t.segments) : s.id = SegmentId(network) THEN t
  ELSE [t EXCEPT !.segments = Append(@, Segment(network, {}, {}, provenance))]

-----------------------------------------------------------------------------
(* topology/upstream.py: the next hop belongs to the source segment.       *)

\* the source segment, drawn from a prefix the sensor really has
SourceNetwork(t, ip) ==
  {a[2] : a \in {b \in UNION {n.addresses : n \in {m \in ToSet(t.nodes) : m.kind = "wirescope"}} :
                   b[1] = ip /\ b[2] # {}}}
EnsureSourceSegment(t, ip) ==
  IF (\E s \in ToSet(t.segments) : ip \in s.network) \/ SourceNetwork(t, ip) = {} THEN t
  ELSE LET network == CHOOSE n \in SourceNetwork(t, ip) : TRUE
           s == Segment(network, {SensorId(t.interface)}, {}, {"environment-interface-address"})
           u == [t EXCEPT !.segments = Append(@, s)]
       IN  IF s.id \in Ids(u) THEN u ELSE AddNode(u, SegmentNode(s))

CorrectRoutedGateway(t, c) ==
  LET target == SegmentForScope(t, c)
      u      == EnsureSourceSegment(t, c.source)
      source == SegmentForAddress(u, c.source)
      from   == IF source = NoNode THEN {} ELSE {source}
      g      == CHOOSE x \in c.gateway : TRUE
      old    == LastHolding(u, g)
      node   == IF old = NoNode THEN <<"route-hop", g>> ELSE old
      v == IF old = NoNode
           THEN AddNode(u, [Node(node, "network-device") EXCEPT !.roles = {"gateway", "router"},
                              !.addresses = {<<g, {}>>}, !.names = {g}, !.connected = from,
                              !.provenance = {"confirmed-scope-route"}])
           ELSE Amended(u, node, LAMBDA n : [Marked(n, {"gateway", "router"}, {"confirmed-scope-route"})
                                               EXCEPT !.connected = (@ \ {target}) \cup from])
      w == WithSegment([v EXCEPT !.edges = Chosen(@, LAMBDA d :
                           ~ (/\ d.relation = "segment_gateway" /\ d.source = target /\ d.target = node
                              /\ "confirmed-scope-route" \in d.provenance))],
                       target, LAMBDA s : [s EXCEPT !.gateways = @ \ {g},
                                                    !.provenance = @ \cup {"confirmed-scope-route"}])
      x == WithSegment(w, source, LAMBDA s : [s EXCEPT !.gateways = @ \cup {g}])
  IN  IF target = NoNode \/ c.gateway = {} THEN t
      ELSE IF source = NoNode THEN w
      ELSE IF HasEdge(x, LAMBDA d : d.relation = "segment_gateway" /\ d.source = source /\ d.target = node)
      THEN x
      ELSE PutEdge(x, [Edge(source, node, "segment_gateway", {"confirmed-scope-route"})
                         EXCEPT !.segment = source, !.key = <<"source-gateway", source, node>>])

\* one hop of a trace, the document and the place in it given by at: w.map, the
\* node before it, and whether any hop answered
AddHop(w, hop, at, gateway) ==
  LET t     == w.map
      ttl   == hop[1]
      known == IF hop[2] = {} THEN NoNode ELSE LastHolding(t, CHOOSE x \in hop[2] : TRUE)
      node  == IF hop[2] = {} THEN <<"route-gap", at, ttl>>
               ELSE IF known # NoNode THEN known ELSE <<"route-hop", CHOOSE x \in hop[2] : TRUE>>
      new   == [Node(node, IF hop[2] = {} THEN "route-gap" ELSE "network-device")
                  EXCEPT !.addresses = {<<x, {}>> : x \in hop[2]}, !.names = hop[2],
                         !.roles = {IF hop[2] = {} THEN "unknown-hop" ELSE "route-hop"},
                         !.provenance = {"route-trace"}]
      u     == PutNode(t, new)
      drawn == /\ gateway # NoNode /\ node = gateway
               /\ HasEdge(u, LAMBDA d : d.relation = "segment_gateway" /\ d.source = w.previous /\ d.target = gateway)
      e     == [Edge(w.previous, node, "route_hop", {"route-trace"})
                  EXCEPT !.key = <<"route-trace", at, ttl>>]
  IN  [map      |-> IF w.previous = NoNode \/ w.previous = node \/ drawn THEN u ELSE PutKeyed(u, e),
       previous |-> node, last |-> node, responded |-> w.responded \/ hop[2] # {}]

AddHops(w, hops, at, gateway) == FoldLeft(LAMBDA v, h : AddHop(v, h, at, gateway), w, hops)

DecorateTrace(t, trace, at) ==
  LET target  == SegmentForScope(t, trace)
      u       == EnsureSourceSegment(t, trace.source)
      source  == SegmentForAddress(u, trace.source)
      gateway == IF trace.gateway = {} THEN NoNode ELSE LastHolding(u, CHOOSE x \in trace.gateway : TRUE)
      start   == [map |-> u, previous |-> IF source # NoNode THEN source ELSE gateway,
                  last |-> NoNode, responded |-> FALSE]
      end     == AddHops(start, trace.hops, at, gateway)
      arrived(d) == d.relation = "route_target" /\ d.source = end.last /\ d.target = target
  IN  IF target = NoNode THEN t
      ELSE IF \/ ~ end.responded \/ ~ trace.reached
              \/ end.last = target \/ HasEdge(end.map, arrived)
      THEN end.map
      ELSE PutEdge(end.map, [Edge(end.last, target, "route_target", {"route-trace"})
                               EXCEPT !.key = <<"route-target", at>>])

CorrectGateways(t, d) == FoldLeft(CorrectRoutedGateway, t, d.targets \o d.traces)
DecorateTraces(t, d) ==
  FoldLeft(LAMBDA u, i : IF d.traces[i].completed THEN DecorateTrace(u, d.traces[i], <<d.id, i>>) ELSE u,
           t, [i \in DOMAIN d.traces |-> i])
DecorateRouteTrace(t, d) == DecorateTraces(CorrectGateways(t, d), d)
DecorateUpstreamTopology(t, docs) == FoldLeft(DecorateRouteTrace, t, docs)

-----------------------------------------------------------------------------
(* topology/snmp.py: ARP, forwarding and LLDP tables of a switch.          *)

ManagedDevice(t, d, prefix) ==
  IF FirstHolding(t, d.target) # NoNode THEN FirstHolding(t, d.target) ELSE <<prefix, d.target>>

Managed(t, d, prefix, role, provenance) ==
  LET id == ManagedDevice(t, d, prefix)
      u  == PutNode(t, [Node(id, "network-device") EXCEPT !.addresses = {<<d.target, {}>>},
                           !.roles = {"network-device", role}, !.provenance = {provenance}])
  IN  Amended(u, id, LAMBDA n : [n EXCEPT !.names = @ \cup d.name])

\* a row that binds an address to a MAC; an unknown one makes a node of its own
Bound(t, row, id, role, provenance) ==
  LET byIp  == FirstHolding(t, row.ip)
      byMac == FirstWithMac(t, row.mac)
      node  == IF byIp # NoNode THEN byIp ELSE IF byMac # NoNode THEN byMac ELSE id
      u     == PutNode(t, [Node(node, "endpoint") EXCEPT !.addresses = {<<row.ip, {}>>}, !.names = {row.ip},
                              !.mac = {row.mac}, !.provenance = {provenance}])
      v     == IF node \in Ids(t) THEN u ELSE MarkNode(u, node, {role}, {})
  IN  [map  |-> Amended(v, node, LAMBDA n : [n EXCEPT !.mac = IF @ = {} THEN {row.mac} ELSE @]),
       node |-> node]

AddForwarding(t, row, d, switch) ==
  LET node == FirstWithMac(t, row.mac)
      e    == [Edge(switch, node, "layer2_neighbor", {"snmp-fdb"}) EXCEPT !.mapping = "switch_port",
                 !.key = <<"snmp-fdb", d.target, row.mac, row.port, row.vlans>>,
                 !.vlans = row.vlans, !.port = row.ifindex]
      u    == PutKeyed(t, e)
  IN  IF node \in {NoNode, switch} THEN t
      ELSE IF Cardinality(row.vlans) # 1 THEN u
      ELSE Amended(u, node, LAMBDA n : [Marked(n, {}, {"snmp-qbridge-fdb"}) EXCEPT !.vlans = @ \cup row.vlans])

LldpRemote(t, row) ==
  LET byMac  == IF row.chassis = {} THEN NoNode ELSE FirstWithMac(t, CHOOSE m \in row.chassis : TRUE)
      byName == IF row.name = {} THEN NoNode ELSE FirstNamed(t, CHOOSE x \in row.name : TRUE)
  IN  IF byMac # NoNode THEN byMac ELSE byName

AddLldp(t, aliases, row, d, switch) ==
  LET known  == LldpRemote(aliases, row)
      remote == IF known # NoNode THEN known ELSE <<"snmp-lldp", d.target, IF row.chassis # {} THEN row.chassis ELSE row.name>>
      new    == [Node(remote, "network-device") EXCEPT !.roles = {"network-device", "network-neighbor"},
                   !.names = row.name, !.mac = row.chassis, !.provenance = {"snmp-lldp"}]
      u      == IF remote \in Ids(t) THEN t ELSE AddNode(t, new)
      v      == MarkNode(u, remote, {"network-neighbor"}, {"snmp-lldp"})
  IN  IF remote = switch THEN t
      ELSE PutKeyed(v, [Edge(switch, remote, "layer2_neighbor", {"snmp-lldp"})
                          EXCEPT !.mapping = "snmp_lldp_neighbor",
                                 !.key = <<"snmp-lldp", d.target, row.port, remote>>])

BindArp(t, d) ==
  FoldLeft(LAMBDA u, r : Bound(u, r, <<"snmp-arp", r.ip>>, "snmp-arp", "snmp-arp").map, t, d.arp)
AddForwardings(t, d, switch) == FoldLeft(LAMBDA u, r : AddForwarding(u, r, d, switch), t, d.fdb)
AddLldps(t, d, switch) == FoldLeft(LAMBDA u, r : AddLldp(u, t, r, d, switch), t, d.lldp)

DecorateSnmp(t, d) ==
  LET switch == ManagedDevice(t, d, "snmp-device")
      known  == BindArp(Managed(t, d, "snmp-device", "snmp-managed", "credentialed-snmp"), d)
  IN  AddLldps(AddForwardings(known, d, switch), d, switch)
DecorateSnmpTopology(t, docs) == FoldLeft(DecorateSnmp, t, docs)

-----------------------------------------------------------------------------
(* topology/snmp_extended.py: the device's own addresses, port membership,  *)
(* neighbour cache and LLDP management addresses.                           *)

Port(d, ifindex) ==
  IF ifindex \in DOMAIN d.ports THEN d.ports[ifindex]
  ELSE [mode |-> "unknown", tagged |-> {}, untagged |-> {}, pvid |-> {}]
InterfaceNode(d, row) == <<"snmp-interface", d.target, row.ifindex, row.ip>>

\* owner: the node of the device, and whether its networks become segments
AddInterfaceAddress(t, row, d, owner) ==
  LET device == owner.node
      id     == InterfaceNode(d, row)
      subnet == Cardinality(row.network) > 1
      inside == IF subnet THEN {SegmentId(row.network)} ELSE {}
      owned  == Amended(t, device, LAMBDA n : [n EXCEPT !.addresses = @ \cup {<<row.ip, row.network>>}])
      node   == [Node(id, "network-interface") EXCEPT !.roles = {"router-interface"}, !.parent = device,
                   !.addresses = {<<row.ip, row.network>>}, !.segments = inside,
                   !.vlans = Port(d, row.ifindex).tagged \cup Port(d, row.ifindex).untagged,
                   !.provenance = {"credentialed-snmp-ip-interface"}]
      u == IF id \in Ids(owned) THEN owned ELSE AddNode(owned, node)
      v == PutKeyed(u, [Edge(device, id, "routed_interface", {"credentialed-snmp-ip-interface"})
                          EXCEPT !.mapping = "snmp_ip_interface", !.key = <<"snmp-interface", id>>])
  IN  IF ~ (owner.segments /\ subnet) THEN v
      ELSE WithSegment(EnsureSegment(v, row.network, {"credentialed-snmp-ip-interface"}),
                       SegmentId(row.network), LAMBDA s : [s EXCEPT !.members = @ \cup {id}])

\* an access port with one VLAN places the host behind it; a trunk never does
AccessVlan(port) ==
  IF port.mode = "access" /\ Cardinality(port.untagged) = 1 /\ port.pvid \in {{}, port.untagged}
  THEN port.untagged ELSE {}

PlaceBehindPorts(t, d, device) ==
  LET mine(e) == /\ e.mapping = "switch_port" /\ e.key[1] = "snmp-fdb" /\ e.key[2] = d.target
                 /\ e.port \in DOMAIN d.ports
      vlansOf(e) == IF e.vlans = {} THEN AccessVlan(d.ports[e.port]) ELSE e.vlans
      behind(e) == IF e.source = device THEN e.target ELSE e.source
      edges  == [i \in DOMAIN t.edges |-> IF mine(t.edges[i])
                   THEN [t.edges[i] EXCEPT !.vlans = vlansOf(t.edges[i])] ELSE t.edges[i]]
      placed(n) == UNION {e.vlans : e \in {f \in ToSet(edges) :
                            mine(f) /\ Cardinality(f.vlans) = 1 /\ behind(f) = n.id /\ n.id # device}}
  IN  [t EXCEPT !.edges = edges,
                !.nodes = [i \in DOMAIN t.nodes |-> [t.nodes[i] EXCEPT !.vlans = @ \cup placed(t.nodes[i])]]]

\* most specific interface network that holds the neighbour; else the first
InterfaceFor(row, d) ==
  LET holds(a) == a.ifindex = row.ifindex /\ row.ip \in a.network
      first == SelectInSeq(d.addresses, LAMBDA a : a.ifindex = row.ifindex)
      best  == SelectInSeq(d.addresses, LAMBDA a : holds(a) /\ \A b \in ToSet(d.addresses) :
                             holds(b) => Cardinality(a.network) <= Cardinality(b.network))
  IN  [index |-> IF best # 0 THEN best ELSE first,
       network |-> IF best = 0 THEN {} ELSE d.addresses[best].network]

AddCachedNeighbor(t, row, d) ==
  LET b      == Bound(t, row, <<"snmp-neighbor", d.target, row.ip>>, "snmp-neighbor", "snmp-neighbor-cache")
      at     == InterfaceFor(row, d)
      port   == Port(d, row.ifindex)
      all    == port.tagged \cup port.untagged
      vlan   == IF port.mode = "access" /\ Cardinality(port.untagged) = 1 THEN port.untagged
                ELSE IF Cardinality(all) = 1 /\ port.pvid \in {{}, all} THEN all ELSE {}
      inside == IF at.network = {} THEN {} ELSE {SegmentId(at.network)}
      placed == Amended(b.map, b.node, LAMBDA n :
                  [n EXCEPT !.segments = @ \cup inside, !.vlans = @ \cup vlan])
  IN  IF ~ row.valid THEN t
      ELSE IF at.index = 0 THEN placed
      ELSE PutKeyed(placed, [Edge(InterfaceNode(d, d.addresses[at.index]), b.node, "neighbor_cache", {"credentialed-snmp"})
                               EXCEPT !.key = <<"snmp-neighbor", d.target, row.ifindex, row.ip, row.mac>>])

AddManagementAddresses(t, aliases, row) ==
  LET held   == SelectInSeq(row.management, LAMBDA ip : FirstHolding(aliases, ip) # NoNode)
      remote == IF LldpRemote(aliases, row) # NoNode THEN LldpRemote(aliases, row)
                ELSE IF held = 0 THEN NoNode ELSE FirstHolding(aliases, row.management[held])
  IN  IF remote = NoNode \/ row.management = <<>> THEN t
      ELSE Amended(t, remote, LAMBDA n : [Marked(n, {}, {"snmp-lldp-management-address"})
             EXCEPT !.addresses = @ \cup {<<ip, {}>> : ip \in ToSet(row.management)}])

AddInterfaceAddresses(t, d, owner) ==
  FoldLeft(LAMBDA u, r : AddInterfaceAddress(u, r, d, owner), t, d.addresses)
AddCachedNeighbors(t, d) == FoldLeft(LAMBDA u, r : AddCachedNeighbor(u, r, d), t, d.neighbors)
AddLldpAddresses(t, d) == FoldLeft(LAMBDA u, r : AddManagementAddresses(u, t, r), t, d.lldp)

DecorateSnmpExtended(t, d, addSegments) ==
  LET device == ManagedDevice(t, d, "snmp-device")
      new == [Node(device, "network-device") EXCEPT !.addresses = {<<d.target, {}>>},
                !.roles = {"network-device", "snmp-managed"}, !.names = d.name,
                !.provenance = {"credentialed-snmp"}]
      u == IF device \in Ids(t) THEN t ELSE AddNode(t, new)
      v == MarkNode(u, device, {"router"}, {"credentialed-snmp-ip-mib"})
      w == AddInterfaceAddresses(v, d, [node |-> device, segments |-> addSegments])
  IN  AddLldpAddresses(AddCachedNeighbors(PlaceBehindPorts(w, d, device), d), d)
DecorateSnmpExtendedTopology(t, docs, addSegments) ==
  FoldLeft(LAMBDA u, d : DecorateSnmpExtended(u, d, addSegments), t, docs)

-----------------------------------------------------------------------------
(* topology/ssh_management.py: interfaces, neighbours, bridge and Wi-Fi     *)
(* tables and default route of a device read over SSH.                      *)

SshInterface(d, row) == <<"ssh-interface", d.target, row.name>>

\* the device and one of its interfaces in a network
JoinNetwork(t, network, id, device) ==
  LET s == SegmentId(network)
      x == WithSegment(EnsureSegment(t, network, {"ssh-ip-addr"}), s,
                       LAMBDA g : [g EXCEPT !.members = @ \cup {device}])
      y == Amended(x, id, LAMBDA n : [n EXCEPT !.segments = @ \cup {s}])
      z == Amended(y, device, LAMBDA n : [n EXCEPT !.connected = @ \cup {s}])
  IN  PutKeyed(z, [Edge(device, id, "routed_interface", {"ssh-ip-addr"})
                     EXCEPT !.segment = s, !.key = <<"ssh-interface", id, network>>])
JoinNetworks(t, networks, id, device) ==
  FoldLeft(LAMBDA u, n : JoinNetwork(u, n, id, device), t, networks)

AddSshInterface(t, row, d, device) ==
  LET id   == SshInterface(d, row)
      nets == {a[2] : a \in {b \in row.addresses : Cardinality(b[2]) > 1}}
      node == [Node(id, "network-interface") EXCEPT !.roles = {"router-interface"}, !.parent = device,
                 !.addresses = row.addresses, !.names = {row.name}, !.mac = row.mac,
                 !.provenance = {"ssh-ip-addr", "credentialed-ssh-readonly"}]
      u    == IF id \in Ids(t) THEN t ELSE AddNode(t, node)
  IN  JoinNetworks(u, SetToSeq(nets), id, device)

\* ip neigh: a row has an address, a MAC or both
AddSshNeighbor(t, row) ==
  LET byIp  == {FirstHolding(t, x) : x \in row.ip} \ {NoNode}
      byMac == {FirstWithMac(t, x) : x \in row.mac} \ {NoNode}
      node  == CHOOSE id \in IF byIp # {} THEN byIp ELSE IF byMac # {} THEN byMac
                             ELSE {<<"ssh-neighbor", IF row.ip # {} THEN row.ip ELSE row.mac>>} : TRUE
      new   == [Node(node, "endpoint") EXCEPT !.roles = {"management-neighbor"}, !.mac = row.mac,
                  !.addresses = {<<x, {}>> : x \in row.ip}, !.names = row.ip]
      u     == IF node \in Ids(t) THEN t ELSE AddNode(t, new)
  IN  Amended(u, node, LAMBDA n : [Marked(n, {}, {"ssh-ip-neigh"}) EXCEPT !.mac = IF @ = {} THEN row.mac ELSE @])

\* _vlan_port_map: one VLAN on the port makes it an access port
PortMode(port) ==
  LET members == port.tagged \cup port.untagged \cup port.pvid
  IN  IF members = {} THEN "unknown"
      ELSE IF Cardinality(members) = 1 THEN "access"
      ELSE IF Cardinality(port.untagged) <= 1 THEN "trunk" ELSE "hybrid"

AddBridgeEntry(t, row, d, device) ==
  LET node == FirstWithMac(t, row.mac)
      port == Port(d, row.port)
      only == port.untagged \cup port.pvid
      vlan == IF row.vlan # {} THEN row.vlan
              ELSE IF PortMode(port) = "access" /\ Cardinality(only) = 1 THEN only ELSE {}
      why  == IF row.vlan # {} THEN "ssh-bridge-fdb" ELSE "ssh-bridge-vlan"
      u    == PutKeyed(t, [Edge(device, node, "layer2_neighbor", {"ssh-bridge-fdb"})
                             EXCEPT !.mapping = "switch_port", !.vlans = vlan,
                                    !.key = <<"ssh-fdb", d.target, row.mac, row.port, vlan>>])
  IN  IF node \in {NoNode, device} THEN t
      ELSE IF vlan = {} THEN u
      ELSE Amended(u, node, LAMBDA n : [Marked(n, {}, {why}) EXCEPT !.vlans = @ \cup vlan])

AddAssociation(t, mac, d, device) ==
  LET known  == FirstWithMac(t, mac)
      client == IF known # NoNode THEN known ELSE <<"ssh-wifi", mac>>
      u == PutNode(t, [Node(client, "endpoint") EXCEPT !.roles = {"wifi-client"}, !.mac = {mac},
                          !.provenance = {"ssh-wifi-association"}])
  IN  PutKeyed(u, [Edge(device, client, "layer2_neighbor", {"ssh-wifi-association"})
                     EXCEPT !.mapping = "wifi_association", !.key = <<"ssh-wifi", d.target, mac>>])

AddUpstreamRoute(t, gateway, d, device) ==
  LET known == FirstHolding(t, gateway)
      node  == IF known # NoNode THEN known ELSE <<"ssh-route-gateway", gateway>>
      u     == IF known # NoNode THEN t
               ELSE AddNode(t, [Node(node, "endpoint") EXCEPT !.roles = {"upstream-gateway"}, !.names = {gateway},
                                  !.addresses = {<<gateway, {}>>}, !.provenance = {"ssh-ip-route"}])
  IN  IF node = device THEN u
      ELSE PutKeyed(u, [Edge(device, node, "upstream_route", {"ssh-ip-route"})
                          EXCEPT !.key = <<"ssh-default-route", d.target, gateway>>])

AddSshInterfaces(t, d, device) ==
  FoldLeft(LAMBDA u, r : AddSshInterface(u, r, d, device), t, d.interfaces)
AddSshNeighbors(t, d) == FoldLeft(AddSshNeighbor, t, d.neighbors)
AddBridgeEntries(t, d, device) == FoldLeft(LAMBDA u, r : AddBridgeEntry(u, r, d, device), t, d.fdb)
AddAssociations(t, d, device) == FoldLeft(LAMBDA u, m : AddAssociation(u, m, d, device), t, d.wifi)
AddUpstreamRoutes(t, d, device) == FoldLeft(LAMBDA u, g : AddUpstreamRoute(u, g, d, device), t, d.gateways)

DecorateSsh(t, d) ==
  LET device == ManagedDevice(t, d, "ssh-device")
      u == Managed(t, d, "ssh-device", "ssh-managed", "credentialed-ssh-readonly")
      v == AddSshNeighbors(AddSshInterfaces(u, d, device), d)
  IN  AddUpstreamRoutes(AddAssociations(AddBridgeEntries(v, d, device), d, device), d, device)
DecorateSshManagement(t, docs) == FoldLeft(DecorateSsh, t, docs)

\* "router" stays only where it was known before, or two networks back it
GuardSnmpRouterRoles(t) ==
  LET networks(n) == {a[2] : a \in {b \in UNION {m.addresses : m \in {c \in ToSet(t.nodes) :
                                      c.parent = n.id /\ "router-interface" \in c.roles}} :
                                    Cardinality(b[2]) > 1}}
      suspect(n)  == /\ {"snmp-managed", "router"} \subseteq n.roles
                     /\ n.id \notin t.routers /\ "gateway" \notin n.roles
      guarded(n)  == IF ~ suspect(n) THEN n
                     ELSE IF Cardinality(networks(n)) >= 2
                     THEN [n EXCEPT !.connected = @ \cup {SegmentId(x) : x \in networks(n)}]
                     ELSE [n EXCEPT !.roles = @ \ {"router", "router-candidate"}]
  IN  [t EXCEPT !.nodes = [i \in DOMAIN t.nodes |-> guarded(t.nodes[i])]]

=============================================================================
