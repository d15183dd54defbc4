---------------------------- MODULE TopologyGraph ----------------------------
(***************************************************************************)
(* The network map of an audit as a value: topology/*.py.                  *)
(*                                                                         *)
(* A map is a record of three lists, as in the code: nodes, edges and      *)
(* segments.  The order of a list is kept, because "the first node that    *)
(* holds this address" and "the last one" are both used.  Labels, counts,  *)
(* confidences and colours are left out; names, addresses, MACs, roles,    *)
(* provenance and segment membership are kept as sets.  An address entry   *)
(* is a pair of the address and the network of its prefix ({} when it is   *)
(* written without one); a network is the set of its addresses.            *)
(***************************************************************************)
EXTENDS Integers, FiniteSets, Sequences, SequencesExt

CONSTANTS
  AddressOrder,  \* every IP address of the instance, in numerical order
  MulticastAddr  \* those among them that are multicast or broadcast

IpAddress == ToSet(AddressOrder)
NoNode == <<>>

Node(id, kind) ==
  [id |-> id, kind |-> kind, roles |-> {}, addresses |-> {}, names |-> {}, mac |-> {},
   segments |-> {}, connected |-> {}, provenance |-> {}, parent |-> NoNode,
   vlans |-> {}, findings |-> {}]

Edge(source, target, relation, provenance) ==
  [source |-> source, target |-> target, relation |-> relation, provenance |-> provenance,
   segment |-> NoNode, mapping |-> "", key |-> <<>>, vlans |-> {}, port |-> 0]

SensorId(interface) == <<"wirescope", interface>>
SegmentId(network) == <<"segment", network>>
EndpointId(x) == <<IF x \in MulticastAddr THEN "group" ELSE "endpoint", x>>

\* What the readers of the stored evidence hand on (topology/builder.py, segmented.py):
\* lists; assets with identifiers of their own; gateways that _safe_ip could parse;
\* and addresses inside the network of their prefix, which ip_interface computes.
IsSeq(s) == s \in Seq(ToSet(s))
Distinct(list) == \A i, j \in DOMAIN list : list[i].id = list[j].id => i = j
Placed(a) == a[2] = {} \/ a[1] \in a[2]
IsEvidence(e) ==
  /\ IsSeq(e.assets) /\ IsSeq(e.hostRoute) /\ IsSeq(e.defaultRoutes) /\ IsSeq(e.leases)
  /\ IsSeq(e.dhcpRouters) /\ IsSeq(e.dhcpServers) /\ IsSeq(e.neighbors) /\ IsSeq(e.bridges)
  /\ IsSeq(e.roots) /\ IsSeq(e.overlay) /\ IsSeq(e.targets) /\ IsSeq(e.routes)
  /\ Distinct(e.assets) /\ \A a \in e.sensor : Placed(a)
  /\ \A i \in DOMAIN e.routes : e.routes[i].gateway \subseteq IpAddress
  /\ \A i \in DOMAIN e.hostRoute : e.hostRoute[i].gateway \in IpAddress
  /\ \A i \in DOMAIN e.defaultRoutes : e.defaultRoutes[i].gateway \in IpAddress
  /\ \A i \in DOMAIN e.leases : e.leases[i].router \in IpAddress

EmptyMap(e) ==
  [audit |-> e.audit, interface |-> e.interface,
   nodes |-> <<>>, edges |-> <<>>, segments |-> <<>>,
   routers |-> {}, candidates |-> {}, overlay |-> FALSE, audits |-> <<>>]

\* the numbers of a set in ascending order, and SelectSeq by means of it
Ascending(I) ==
  [k \in 1..Cardinality(I) |-> CHOOSE i \in I : Cardinality({j \in I : j <= i}) = k]
Chosen(s, Test(_)) ==
  LET order == Ascending({i \in DOMAIN s : Test(s[i])})
  IN  [k \in DOMAIN order |-> s[order[k]]]

Ids(t) == {t.nodes[i].id : i \in DOMAIN t.nodes}
Bare(n) == {a[1] : a \in n.addresses}
NodeAt(t, i) == IF i = 0 THEN NoNode ELSE t.nodes[i].id
FirstHolding(t, ip) == NodeAt(t, SelectInSeq(t.nodes, LAMBDA n : ip \in Bare(n)))
LastHolding(t, ip) == NodeAt(t, SelectLastInSeq(t.nodes, LAMBDA n : ip \in Bare(n)))
FirstWithMac(t, m) == NodeAt(t, SelectInSeq(t.nodes, LAMBDA n : m \in n.mac))
FirstNamed(t, x) == NodeAt(t, SelectInSeq(t.nodes, LAMBDA n : x \in n.names))
NodeNamed(t, id) == t.nodes[SelectInSeq(t.nodes, LAMBDA n : n.id = id)]

Marked(n, roles, provenance) ==
  [n EXCEPT !.roles = @ \cup roles, !.provenance = @ \cup provenance]
Amended(t, id, F(_)) ==
  [t EXCEPT !.nodes = [i \in DOMAIN t.nodes |-> IF t.nodes[i].id = id
                                                THEN F(t.nodes[i]) ELSE t.nodes[i]]]
MarkNode(t, id, roles, provenance) == Amended(t, id, LAMBDA n : Marked(n, roles, provenance))
AddNode(t, n) == [t EXCEPT !.nodes = Append(@, n)]
\* the node as it is, marked; or a new one
PutNode(t, n) ==
  IF n.id \in Ids(t) THEN MarkNode(t, n.id, n.roles, n.provenance) ELSE AddNode(t, n)
HasEdge(t, Test(_)) == \E i \in DOMAIN t.edges : Test(t.edges[i])
PutEdge(t, e) == [t EXCEPT !.edges = Append(@, e)]
\* an edge is added once per identifier
PutKeyed(t, e) == IF HasEdge(t, LAMBDA f : f.key = e.key) THEN t ELSE PutEdge(t, e)

\* add_edge of the builder: one edge per pair of nodes and relation
AddEdge(t, a, b, relation, provenance) ==
  LET i == SelectInSeq(t.edges, LAMBDA e : {e.source, e.target} = {a, b} /\ e.relation = relation)
  IN  IF a = b THEN t
      ELSE IF i = 0 THEN PutEdge(t, Edge(a, b, relation, {provenance}))
      ELSE [t EXCEPT !.edges[i].provenance = @ \cup {provenance}]

-----------------------------------------------------------------------------
(* topology/builder.py: inventory, environment, passive evidence, overlay. *)

\* aliases: the last asset that has the name, MAC or address; then the sensor
Alias(t, x) ==
  LET i == SelectLastInSeq(t.nodes, LAMBDA n : n.kind = "asset" /\ x \in Bare(n) \cup n.names \cup n.mac)
      j == SelectInSeq(t.nodes, LAMBDA n : n.kind = "wirescope" /\ x \in Bare(n))
  IN  IF i # 0 THEN NodeAt(t, i)
      ELSE IF j # 0 THEN NodeAt(t, j)
      ELSE IF EndpointId(x) \in Ids(t) THEN EndpointId(x) ELSE NoNode

ResolveEndpoint(t, x, roles, provenance) ==
  IF Alias(t, x) # NoNode
  THEN MarkNode(t, Alias(t, x), roles, {})
  ELSE AddNode(t, [Node(EndpointId(x), IF x \in MulticastAddr THEN "multicast-group" ELSE "endpoint")
                     EXCEPT !.addresses = IF x \in IpAddress THEN {<<x, {}>>} ELSE {},
                            !.names = {x}, !.roles = roles, !.provenance = {provenance}])

\* an endpoint of the given role and the sensor's edge to it
Related(t, x, role, relation, provenance) ==
  LET u == ResolveEndpoint(t, x, {role}, provenance)
  IN  AddEdge(u, SensorId(t.interface), Alias(u, x), relation, provenance)

AddAsset(t, a) ==
  AddNode(t, [Node(<<"asset", a.id>>, "asset")
                EXCEPT !.addresses = {<<x, {}>> : x \in a.addresses}, !.names = a.names,
                       !.mac = a.mac, !.provenance = {"inventory"},
                       !.roles = IF a.device THEN {"network-device"} ELSE {}])

AddNeighbor(t, b) ==
  LET id == IF Alias(t, b.label) # NoNode THEN Alias(t, b.label)
            ELSE <<"neighbor", b.protocol, b.label>>
      n  == [Node(id, "network-device") EXCEPT !.roles = {"network-neighbor"},
               !.names = {b.label}, !.provenance = {b.protocol}]
      u  == IF id \in Ids(t) THEN MarkNode(t, id, {"network-neighbor"}, {}) ELSE AddNode(t, n)
  IN  AddEdge(u, SensorId(t.interface), id, "layer2_neighbor", b.protocol)

AddBridge(t, b, role) ==
  LET id == <<"stp-bridge", b>>
      u  == PutNode(t, Marked(Node(id, "network-device"), {role}, {"stp"}))
  IN  IF role = "stp-bridge" THEN AddEdge(u, SensorId(t.interface), id, "stp_observed", "stp") ELSE u

Communicated(t, pair) ==
  LET u == ResolveEndpoint(t, pair[1], {}, "pcap")
      v == ResolveEndpoint(u, pair[2], {}, "pcap")
  IN  AddEdge(v, Alias(v, pair[1]), Alias(v, pair[2]), "communication", "pcap")

\* the loops of assemble_topology, over what each source has
AddAssets(t, e) == FoldLeft(AddAsset, t, e.assets)
GatewaySources(e) ==
  [i \in DOMAIN e.hostRoute |-> <<e.hostRoute[i].gateway, "default-route">>]
    \o [i \in DOMAIN e.dhcpRouters |-> <<e.dhcpRouters[i], "dhcp-router">>]
AddGateways(t, e) ==
  FoldLeft(LAMBDA u, s : Related(u, s[1], "gateway", "default_gateway", s[2]), t, GatewaySources(e))
AddDhcpServers(t, e) ==
  FoldLeft(LAMBDA u, s : Related(u, s, "dhcp-server", "dhcp_observed", "dhcp"), t, e.dhcpServers)
AddNeighbors(t, e) == FoldLeft(AddNeighbor, t, e.neighbors)
AddBridges(t, bridges, role) == FoldLeft(LAMBDA u, b : AddBridge(u, b, role), t, bridges)
AddOverlay(t, e) == FoldLeft(Communicated, t, e.overlay)

AssembleTopology(e) ==
  LET own     == [Node(SensorId(e.interface), "wirescope")
                    EXCEPT !.roles = {"sensor"}, !.addresses = e.sensor, !.provenance = {"environment"}]
      placed  == AddNode(AddAssets(EmptyMap(e), e), own)
      beside  == AddNeighbors(AddDhcpServers(AddGateways(placed, e), e), e)
      bridged == AddBridges(AddBridges(beside, e.bridges, "stp-bridge"), e.roots, "stp-root")
  IN  [AddOverlay(bridged, e) EXCEPT !.overlay = e.overlay # <<>>]

-----------------------------------------------------------------------------
(* topology/segmented.py: the segments of the scope, and their gateways.   *)

\* the rows of the confirmed route context that leave through the interface
RouteRows(e) == {i \in DOMAIN e.routes : e.routes[i].interface = e.interface}

MutDropInvalidHostDefaultRoute(t, e) ==
  LET valid == UNION {e.routes[i].gateway : i \in RouteRows(e)}
  IN  [t EXCEPT !.edges = Chosen(@, LAMBDA d : ~ (/\ d.relation = "default_gateway"
                            /\ "default-route" \in d.provenance
                            /\ Bare(NodeNamed(t, d.target)) \cap valid = {})),
                !.nodes = Chosen(@, LAMBDA n : n.kind # "endpoint" \/ n.provenance # {"default-route"})]
DropInvalidHostDefaultRoute(t, e) ==
  LET valid == UNION {e.routes[i].gateway : i \in RouteRows(e)}
      kept  == Chosen(t.edges, LAMBDA d :
                 ~ (/\ d.relation = "default_gateway" /\ "default-route" \in d.provenance
                    /\ Bare(NodeNamed(t, d.target)) \cap valid = {}))
      used  == UNION {{d.source, d.target} : d \in ToSet(kept)}
  IN  [t EXCEPT !.edges = kept,
                !.nodes = Chosen(@, LAMBDA n : ~ (/\ n.kind = "endpoint" /\ n.id \notin used
                                                     /\ n.provenance = {"default-route"}))]

Segment(network, members, gateways, provenance) ==
  [id |-> SegmentId(network), network |-> network, members |-> members,
   gateways |-> gateways, provenance |-> provenance]

\* the route of a target: its own row, or the first whose probed address is in it
RouteOf(e, network) ==
  LET own    == {i \in RouteRows(e) : e.routes[i].target = network}
      within == {i \in RouteRows(e) : e.routes[i].representative \in network}
  IN  IF own # {} THEN {e.routes[Max(own)]} ELSE IF within # {} THEN {e.routes[Min(within)]} ELSE {}

DecorateSegment(t, e, network) ==
  LET id      == SegmentId(network)
      members == {n.id : n \in {m \in ToSet(t.nodes) : Bare(m) \cap network # {}}}
      joined  == [t EXCEPT !.nodes = [i \in DOMAIN t.nodes |->
                    IF t.nodes[i].id \in members THEN [t.nodes[i] EXCEPT !.segments = @ \cup {id}]
                                                 ELSE t.nodes[i]]]
      route   == RouteOf(e, network)
      hops    == UNION {r.gateway : r \in route}
      why     == {IF route = {} THEN "audit-scope" ELSE "confirmed-scope-route"}
      listed(u, g) == [u EXCEPT !.segments = Append(@, Segment(network, members, g, why))]
      new(g)  == [Node(EndpointId(g), "endpoint") EXCEPT !.roles = {"gateway"},
                    !.addresses = {<<g, {}>>}, !.names = {g}, !.segments = {id},
                    !.provenance = {"confirmed-scope-route"}]
  IN  IF hops = {} THEN listed(joined, {})
      ELSE LET g    == CHOOSE x \in hops : TRUE
               old  == FirstHolding(joined, g)
               node == IF old = NoNode THEN EndpointId(g) ELSE old
               u    == IF old = NoNode THEN AddNode(joined, new(g))
                       ELSE Amended(joined, old, LAMBDA n :
                              [n EXCEPT !.roles = @ \cup {"gateway"}, !.segments = @ \cup {id}])
           IN  listed(PutEdge(u, [Edge(SensorId(t.interface), node, "segment_gateway",
                                       {"confirmed-scope-route"}) EXCEPT !.segment = id]), {g})

DecorateSegments(t, e) ==
  LET again(i) == \E j \in 1..(i - 1) : e.targets[j] = e.targets[i]
  IN  FoldLeft(LAMBDA u, i : IF again(i) THEN u ELSE DecorateSegment(u, e, e.targets[i]),
               t, [i \in DOMAIN e.targets |-> i])

SegmentedTopology(e) == DecorateSegments(DropInvalidHostDefaultRoute(AssembleTopology(e), e), e)

-----------------------------------------------------------------------------
(* topology/interface_gateway.py                                           *)

CandidateGateways(e) ==
  LET routes == e.defaultRoutes \o e.hostRoute
  IN  [i \in DOMAIN routes |-> <<routes[i].gateway, "interface-default-route", routes[i].interface>>]
        \o [i \in DOMAIN e.leases |-> <<e.leases[i].router, "dhcp-lease-router", e.leases[i].interface>>]

InterfaceGateway(t, candidate) ==
  LET g      == candidate[1]
      why    == candidate[2]
      k      == SelectInSeq(t.segments, LAMBDA s : g \in s.network)
      id     == IF k = 0 THEN NoNode ELSE t.segments[k].id
      inside == IF k = 0 THEN {} ELSE {id}
      old    == FirstHolding(t, g)
      node   == IF old = NoNode THEN EndpointId(g) ELSE old
      u == IF old = NoNode
           THEN AddNode(t, [Node(node, "endpoint") EXCEPT !.roles = {"gateway"}, !.names = {g},
                              !.addresses = {<<g, {}>>}, !.provenance = {why}, !.segments = inside])
           ELSE Amended(t, node, LAMBDA n : [Marked(n, {"gateway"}, {why}) EXCEPT !.segments = @ \cup inside])
      v == IF k = 0 THEN u ELSE [u EXCEPT !.segments[k].gateways = @ \cup {g}]
      sensor == SensorId(t.interface)
  IN  IF HasEdge(v, LAMBDA d : /\ d.source = sensor /\ d.target = node /\ why \in d.provenance
                               /\ d.relation \in {"segment_gateway", "default_gateway"})
      THEN v
      ELSE PutEdge(v, [Edge(sensor, node, "segment_gateway", {why}) EXCEPT !.segment = id])

\* those of the interface of the audit
DecorateInterfaceGateway(t, e) ==
  FoldLeft(LAMBDA u, c : IF c[3] # e.interface THEN u ELSE InterfaceGateway(u, c), t, CandidateGateways(e))

-----------------------------------------------------------------------------
(* topology/routing.py: segment - gateway - segment.                       *)

SegmentNode(s) == [Node(s.id, "segment") EXCEPT !.roles = {"subnet"}, !.segments = {s.id},
                                                !.provenance = s.provenance]
GatewayForSegment(t, s) == NodeAt(t, SelectInSeq(t.nodes, LAMBDA n : Bare(n) \cap s.gateways # {}))

\* sensor -> gateway becomes segment -> gateway; one edge per pair survives
RewriteGatewayEdges(t) ==
  LET known  == {GatewayForSegment(t, s) : s \in ToSet(t.segments)} \ {NoNode}
      moves(d)   == d.relation = "segment_gateway" /\ d.segment \in Ids(t)
      replaced(d) == /\ d.relation = "default_gateway" /\ d.source[1] = "wirescope"
                     /\ d.target \in known /\ "default-route" \in d.provenance
      again(i)   == \E j \in 1..(i - 1) : /\ moves(t.edges[j])
                                          /\ t.edges[j].segment = t.edges[i].segment
                                          /\ t.edges[j].target = t.edges[i].target
      moved(d)   == IF moves(d) THEN [d EXCEPT !.source = d.segment] ELSE d
      kept == Ascending({i \in DOMAIN t.edges :
                           ~ replaced(t.edges[i]) /\ ~ (moves(t.edges[i]) /\ again(i))})
  IN  [t EXCEPT !.edges = [i \in DOMAIN kept |-> moved(t.edges[kept[i]])]]

AttachGateway(t, s) ==
  LET g == GatewayForSegment(t, s)
      u == Amended(t, g, LAMBDA n : [Marked(n, {"gateway", "router"}, {"confirmed-scope-route"})
                                        EXCEPT !.connected = @ \cup {s.id}])
  IN  IF g = NoNode THEN t
      ELSE IF HasEdge(t, LAMBDA d : d.relation = "segment_gateway" /\ d.source = s.id /\ d.target = g)
      THEN u
      ELSE PutEdge(u, [Edge(s.id, g, "segment_gateway", {"confirmed-scope-route"}) EXCEPT !.segment = s.id])

\* a node in two segments is a router only with the evidence of a network device
MultiHomed(n) ==
  LET device == \/ n.kind = "network-device"
                \/ n.roles \cap {"gateway", "network-device", "network-neighbor", "stp-root", "dhcp-server"} # {}
  IN  IF n.kind \in {"segment", "multicast-group", "wirescope"} \/ Cardinality(n.segments) < 2 THEN n
      ELSE [Marked(n, {IF device THEN "router" ELSE "router-candidate"}, {"multi-segment-addresses"})
              EXCEPT !.connected = n.segments]

DrawSegments(t) ==
  FoldLeft(LAMBDA u, s : IF s.id \in Ids(u) THEN u ELSE AddNode(u, SegmentNode(s)), t, t.segments)
AttachGateways(t) == FoldLeft(AttachGateway, t, t.segments)

DecorateRoutedTopology(t) ==
  LET wired == AttachGateways(RewriteGatewayEdges(DrawSegments(t)))
      homed == [wired EXCEPT !.nodes = [i \in DOMAIN wired.nodes |-> MultiHomed(wired.nodes[i])]]
      withRole(r) == {n.id : n \in {m \in ToSet(homed.nodes) : r \in m.roles}}
  IN  [homed EXCEPT !.routers = withRole("router"),
                    !.candidates = withRole("router-candidate") \ withRole("router")]

=============================================================================
