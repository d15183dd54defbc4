------------------------------ MODULE Topology ------------------------------
(***************************************************************************)
(* A request for the network map: of one audit, of two audits compared, or *)
(* of all audits together (backend/routers/topology.py, topology/*.py).    *)
(*                                                                         *)
(* The map is built from what is stored, in a pipeline of decorators; each *)
(* stage opens its own session and reads the evidence again, while the     *)
(* worker goes on saving results.  The stages are therefore actions of     *)
(* their own, interleaved with SaveResult.  The audits' inventory,         *)
(* environment and scope do not change during a request.                   *)
(***************************************************************************)
EXTENDS TopologyDevices

CONSTANTS
  EvidenceOf,      \* audit -> what may be stored for it, a sequence
  Results,         \* the results a handler may save
  TraceLimit,      \* _route_trace_documents: newest traces read
  TableLimit,      \* _latest_documents: newest SNMP or SSH results read
  EndpointLimit,   \* MAX_STRUCTURAL_ENDPOINTS_PER_SEGMENT
  CurrentAudit,    \* the audit of the request
  BaselineAudit,   \* the audit it is compared against
  MaxSaved,        \* bound: results saved while the request runs
  NoMap

VARIABLES
  evidence,   \* audit -> which of these is stored
  artifacts,  \* results saved so far, oldest first
  mapping,    \* what the request is building: "global" or an audit
  stage,      \* the next decorator
  drawing,    \* the map under construction
  applied,    \* result type -> artifacts the decorators used
  faults,     \* source_errors
  finished    \* audit or "global" -> the finished map

topoVars == <<evidence, artifacts, mapping, stage, drawing, applied, faults, finished>>

MapAudits == DOMAIN EvidenceOf
ResultTypes == {"trace", "snmp", "ssh"}
Stored == [a \in MapAudits |-> EvidenceOf[a][evidence[a]]]
IsDocument(type, d) ==
  /\ type = "trace" => IsTrace(d)
  /\ type = "snmp" => IsSnmp(d)
  /\ type = "ssh" => IsSsh(d)

ASSUME TopologyAssumption ==
  /\ "global" \notin MapAudits
  /\ {CurrentAudit, BaselineAudit} \subseteq MapAudits
  /\ TraceLimit \in Nat /\ TableLimit \in Nat /\ AddressOrder \in Seq(IpAddress)
  /\ \A d \in Results : d.type \in ResultTypes /\ IsDocument(d.type, d)
  /\ IsFiniteSet(MapAudits) /\ \A a \in MapAudits : \A i \in DOMAIN EvidenceOf[a] : IsEvidence(EvidenceOf[a][i])

-----------------------------------------------------------------------------
(* Which stored results a stage sees.                                      *)

Limit(type) == IF type = "trace" THEN TraceLimit ELSE TableLimit

\* the newest results of one kind: those with fewer than the limit after them
CandidateRows(a, type) ==
  LET rows == {i \in DOMAIN artifacts : artifacts[i].audit = a /\ artifacts[i].doc.type = type}
  IN  {i \in rows : Cardinality({j \in rows : j > i}) < Limit(type)}

\* one row per target, the newest; traces have none
OnePerTarget(rows, type) ==
  {i \in rows : type = "trace" \/ ~ \E j \in rows :
                  j > i /\ artifacts[j].doc.target = artifacts[i].doc.target}

\* _latest_documents, newest first: unreadable artifacts are passed over
LatestDocuments(a, type) ==
  LET rows == OnePerTarget({i \in CandidateRows(a, type) : artifacts[i].readable}, type)
  IN  Reverse(Ascending(rows))

\* what the health check expects to find on the map
MutCandidateArtifacts(a, type) == ToSet(LatestDocuments(a, type))
CandidateArtifacts(a, type) == OnePerTarget(CandidateRows(a, type), type)

\* the documents of one stage, with the artifact they came from
DocumentsOf(a, type) ==
  LET rows == LatestDocuments(a, type)
  IN  [k \in DOMAIN rows |-> [artifacts[rows[k]].doc EXCEPT !.id = rows[k]]]
AuditsShown == IF mapping = "global" THEN drawing.audits ELSE <<mapping>>
Documents(type) == FoldLeft(LAMBDA docs, a : docs \o DocumentsOf(a, type), <<>>, AuditsShown)

-----------------------------------------------------------------------------
(* The map of all audits: topology/global_view.py, decorate_global_routing. *)

\* every segment of every terminal audit that could be built, and a node for each
\* of its gateways; the rows of the segments list none
AttachGlobalGateway(t, s, g) ==
  LET id == <<"gateway", g>>
      u  == PutNode(t, [Node(id, "endpoint") EXCEPT !.roles = {"gateway"}, !.names = {g},
                           !.addresses = {<<g, {}>>}, !.provenance = {"confirmed-scope-route"}])
  IN  IF HasEdge(u, LAMBDA d : d.source = s.id /\ d.target = id) THEN u
      ELSE PutEdge(u, [Edge(s.id, id, "segment_gateway", {"confirmed-scope-route"}) EXCEPT !.segment = s.id])
AttachGlobalGateways(t, s) ==
  FoldLeft(LAMBDA u, g : AttachGlobalGateway(u, s, g), t, SetToSeq(s.gateways))

AddGlobalSegment(t, s) ==
  LET row == Segment(s.network, {}, {}, {"retained-audits"})
      u   == IF \E r \in ToSet(t.segments) : r.id = row.id THEN t
             ELSE AddNode([t EXCEPT !.segments = Append(@, row)], SegmentNode(row))
  IN  AttachGlobalGateways(u, s)
AddGlobalSegments(t, segments) == FoldLeft(AddGlobalSegment, t, segments)

GlobalTopology(e) ==
  LET built(a) == SegmentedTopology(e[a])
      names    == SetToSeq({a \in MapAudits : /\ e[a].terminal /\ ~ e[a].broken
                                              /\ built(a).segments # <<>>})
      empty    == [audit |-> "global", interface |-> "unknown", nodes |-> <<>>, edges |-> <<>>, segments |-> <<>>,
                   routers |-> {}, candidates |-> {}, overlay |-> FALSE, audits |-> names]
  IN  FoldLeft(LAMBDA t, a : AddGlobalSegments(t, built(a).segments), empty, names)

DecorateGlobalRouting(t) ==
  LET attached(n) == {d.source : d \in {c \in ToSet(t.edges) :
                        c.relation = "segment_gateway" /\ c.target = n.id /\ c.source[1] = "segment"}}
      marked(n) == IF attached(n) = {} THEN n
                   ELSE [n EXCEPT !.connected = attached(n), !.roles = @ \cup {"gateway"}
                           \cup IF Cardinality(attached(n)) >= 2 THEN {"router"} ELSE {}]
  IN  [t EXCEPT !.nodes = [i \in DOMAIN t.nodes |-> marked(t.nodes[i])],
                !.routers = {n.id : n \in {m \in ToSet(t.nodes) : Cardinality(attached(m)) >= 2}}]

-----------------------------------------------------------------------------
(* Views and coverage: topology/presentation.py and completeness.py.       *)

DirectedBroadcasts(t) ==
  LET last(net) == AddressOrder[SelectLastInSeq(AddressOrder, LAMBDA x : x \in net)]
  IN  {last(s.network) : s \in {r \in ToSet(t.segments) : Cardinality(r.network) > 2}}
BroadcastNodes(t) ==
  {n.id : n \in {m \in ToSet(t.nodes) : \/ m.kind = "multicast-group"
                                        \/ Bare(m) \cap (MulticastAddr \cup DirectedBroadcasts(t)) # {}}}
EndsOf(edges) == UNION {{d.source, d.target} : d \in edges}
Infrastructure(t) ==
  {n.id : n \in {m \in ToSet(t.nodes) :
     \/ m.kind \in {"wirescope", "network-device", "network-interface"}
     \/ m.roles \cap {"gateway", "router", "network-device", "network-neighbor",
                      "dhcp-server", "dns-server", "stp-root", "stp-bridge"} # {}}}

StructuralView(t) ==
  LET hidden  == BroadcastNodes(t)
      plain   == {d \in ToSet(t.edges) : d.relation # "communication"}
      edges   == {d \in plain : {d.source, d.target} \cap hidden = {}}
      members(s)  == (s.members \cap Ids(t)) \ (hidden \cup Infrastructure(t))
      visible(s)  == CHOOSE v \in SUBSET members(s) :
                       Cardinality(v) = IF Cardinality(members(s)) < EndpointLimit
                                        THEN Cardinality(members(s)) ELSE EndpointLimit
      trafficOnly == {id \in EndsOf(ToSet(t.edges) \ plain) :
                        id \notin EndsOf(plain) \cup Infrastructure(t) /\ id[1] # "asset"}
  IN  [edges |-> edges,
       nodes |-> (Infrastructure(t) \cup EndsOf(edges) \cup UNION {visible(s) : s \in ToSet(t.segments)})
                   \ (hidden \cup trafficOnly)]

\* status of the evidence: "sufficient" needs inventory, a gateway and no fault
Coverage(t, errors) ==
  LET relations == {d.relation : d \in ToSet(t.edges)}
      roles     == UNION {n.roles : n \in ToSet(t.nodes)}
      inventory == IF \E n \in ToSet(t.nodes) : n.kind = "asset" THEN "sufficient" ELSE "missing"
      l3 == IF t.segments = <<>> THEN "missing"
            ELSE IF \/ relations \cap {"segment_gateway", "default_gateway", "routed_interface",
                                       "route_hop", "upstream_route"} # {}
                    \/ roles \cap {"gateway", "router"} # {}
            THEN "sufficient" ELSE "partial"
  IN  IF errors = {} /\ inventory = "sufficient" /\ l3 = "sufficient" THEN "sufficient" ELSE "partial"

-----------------------------------------------------------------------------
(* The request.                                                            *)

TopoInit ==
  /\ evidence \in {e \in [MapAudits -> UNION {DOMAIN EvidenceOf[a] : a \in MapAudits}] :
                     \A a \in MapAudits : e[a] \in DOMAIN EvidenceOf[a]}
  /\ artifacts = <<>>
  /\ mapping \in {"global", CurrentAudit}
  /\ stage = "build" /\ drawing = NoMap
  /\ applied = [type \in ResultTypes |-> {}] /\ faults = {}
  /\ finished = [x \in MapAudits \cup {"global"} |-> NoMap]

Decorated(t, next) ==
  /\ drawing' = t /\ stage' = next
  /\ UNCHANGED <<evidence, artifacts, mapping, faults, finished>>

\* a handler stores its result; the file may be damaged when it is read
SaveResult(a, d, readable) ==
  /\ Len(artifacts) < MaxSaved
  /\ artifacts' = Append(artifacts, [audit |-> a, doc |-> d, readable |-> readable])
  /\ UNCHANGED <<evidence, mapping, stage, drawing, applied, faults, finished>>

\* a source of the audit that cannot be read ends the request with an error
BuildFails ==
  /\ stage = "build" /\ mapping # "global" /\ Stored[mapping].broken
  /\ stage' = "failed"
  /\ UNCHANGED <<evidence, artifacts, mapping, drawing, applied, faults, finished>>

Build ==
  /\ stage = "build" /\ mapping # "global" /\ ~ Stored[mapping].broken
  /\ Decorated(SegmentedTopology(Stored[mapping]), "gateway") /\ UNCHANGED applied

\* one audit that cannot be built is a fault of the global map, not its end
BuildGlobal ==
  /\ stage = "build" /\ mapping = "global"
  /\ drawing' = GlobalTopology(Stored) /\ stage' = "routing"
  /\ faults' = {<<"audit", a>> : a \in {b \in MapAudits : Stored[b].terminal /\ Stored[b].broken}}
  /\ UNCHANGED <<evidence, artifacts, mapping, applied, finished>>

InterfaceGateways ==
  /\ stage = "gateway"
  /\ Decorated(DecorateInterfaceGateway(drawing, Stored[mapping]), "routing") /\ UNCHANGED applied

Routing ==
  /\ stage = "routing"
  /\ Decorated(IF mapping = "global" THEN DecorateGlobalRouting(drawing)
                                     ELSE DecorateRoutedTopology(drawing), "upstream")
  /\ UNCHANGED applied

Used(type) == [applied EXCEPT ![type] = {d.id : d \in ToSet(Documents(type))}]
Upstream ==
  /\ stage = "upstream"
  /\ Decorated(DecorateUpstreamTopology(drawing, Documents("trace")), "snmp")
  /\ applied' = Used("trace")
Snmp ==
  /\ stage = "snmp"
  /\ Decorated(DecorateSnmpTopology(drawing, Documents("snmp")), "extended")
  /\ applied' = Used("snmp")
SnmpExtended ==
  /\ stage = "extended"
  /\ Decorated(DecorateSnmpExtendedTopology(drawing, Documents("snmp"), mapping # "global"), "ssh")
  /\ UNCHANGED applied
Ssh ==
  /\ stage = "ssh"
  /\ Decorated(DecorateSshManagement(drawing, Documents("ssh")), "guard")
  /\ applied' = Used("ssh")
GuardRoles ==
  /\ stage = "guard"
  /\ Decorated(GuardSnmpRouterRoles(drawing), IF mapping = "global" THEN "health" ELSE "findings")
  /\ UNCHANGED applied

\* findings hang on the nodes of their assets
DecorateFindings(t, findings) ==
  LET found(n) == IF n.kind # "asset" THEN n
                  ELSE [n EXCEPT !.findings = {f \in findings : f[1] = n.id[2]}]
  IN  [t EXCEPT !.nodes = [i \in DOMAIN t.nodes |-> found(t.nodes[i])]]
Findings ==
  /\ stage = "findings"
  /\ Decorated(DecorateFindings(drawing, Stored[mapping].findings), "health")
  /\ UNCHANGED applied

\* results that should be on the map and are not
SourceErrors ==
  LET audits == IF mapping = "global" THEN ToSet(drawing.audits) ELSE {mapping}
  IN  {<<"artifact", i>> : i \in {j \in DOMAIN artifacts : \E a \in audits, type \in ResultTypes :
                                    j \in CandidateArtifacts(a, type) \ applied[type]}}

\* The health check is the last read; the views are computed from the map alone.
\* A comparison goes on with the map of the baseline.
SourceHealth ==
  /\ stage = "health"
  /\ LET errors == faults \cup SourceErrors IN
       finished' = [finished EXCEPT ![mapping] =
         [map |-> drawing, view |-> StructuralView(drawing), faults |-> errors, applied |-> applied,
          coverage |-> Coverage(drawing, errors), saved |-> Len(artifacts)]]
  /\ IF mapping = CurrentAudit THEN mapping' = BaselineAudit /\ stage' = "build"
                               ELSE mapping' = mapping /\ stage' = "done"
  /\ drawing' = NoMap /\ faults' = {} /\ applied' = [type \in ResultTypes |-> {}]
  /\ UNCHANGED <<evidence, artifacts>>

TopoNext ==
  \/ \E a \in MapAudits, d \in Results, r \in BOOLEAN : SaveResult(a, d, r)
  \/ Build \/ BuildFails \/ BuildGlobal \/ InterfaceGateways \/ Routing \/ Upstream
  \/ Snmp \/ SnmpExtended \/ Ssh \/ GuardRoles \/ Findings \/ SourceHealth

TopoSpec == TopoInit /\ [][TopoNext]_topoVars

-----------------------------------------------------------------------------
(* Comparison: topology/compare.py and history.py.                         *)

\* the addresses a node is known by, or the one its identifier is made of
KnownAddresses(n) ==
  LET named == IF n.id[1] \in {"endpoint", "gateway", "route-hop", "snmp-device", "snmp-arp"}
               THEN {n.id[2]} ELSE {}
      usable(ips) == (ips \cap IpAddress) \ MulticastAddr
  IN  IF usable(Bare(n)) # {} THEN usable(Bare(n)) ELSE usable(named)
IsSegment(n) == n.kind = "segment" \/ n.id[1] = "segment"
\* the identity of a node across audits: network, MAC, lowest address, or none
MutStableNodeKey(n, side) ==
  IF IsSegment(n) THEN <<"segment", n.id[2]>>
  ELSE IF n.mac # {} THEN <<"mac", n.mac>>
  ELSE IF n.names # {} THEN <<"name", n.names>>
  ELSE <<"opaque", side, n.id>>
StableNodeKey(n, side) ==
  IF IsSegment(n) THEN <<"segment", n.id[2]>>
  ELSE IF n.mac # {} THEN <<"mac", n.mac>>
  ELSE IF KnownAddresses(n) # {}
       THEN <<"ip", AddressOrder[SelectInSeq(AddressOrder, LAMBDA x : x \in KnownAddresses(n))]>>
  ELSE IF n.kind = "wirescope" /\ n.id[1] = "wirescope" THEN n.id
  ELSE <<"opaque", side, n.id>>

\* keys of the nodes of one side; a key met again stays on its own side
NodeSnapshot(t, side) ==
  LET shown == {i \in DOMAIN t.nodes : t.nodes[i].kind \notin {"multicast-group", "route-gap"}}
      plain(i) == StableNodeKey(t.nodes[i], side)
      key(i)   == IF \E j \in shown : j < i /\ plain(j) = plain(i)
                  THEN <<"duplicate", side, t.nodes[i].id>> ELSE plain(i)
      keyOf(id) == key(CHOOSE i \in shown : t.nodes[i].id = id)
      drawn == {d \in ToSet(t.edges) : {d.source, d.target} \subseteq {t.nodes[i].id : i \in shown}}
      directed == {"communication", "default_gateway", "route_hop", "route_target", "segment_gateway"}
      ends(d)  == IF d.relation \in directed THEN <<keyOf(d.source), keyOf(d.target)>>
                  ELSE {keyOf(d.source), keyOf(d.target)}
  IN  [nodes |-> {<<key(i), t.nodes[i]>> : i \in shown},
       edges |-> {<<d.relation \in directed, d.relation, d.mapping, ends(d)>> : d \in drawn}]

CompareTopologies(baseline, current) ==
  LET left  == NodeSnapshot(baseline, "baseline")
      right == NodeSnapshot(current, "current")
      keys(side) == {p[1] : p \in side.nodes}
  IN  [added   |-> keys(right) \ keys(left),
       removed |-> keys(left) \ keys(right),
       same    |-> {<<pq[1][2], pq[2][2]>> :
                      pq \in {uv \in left.nodes \X right.nodes : uv[1][1] = uv[2][1]}},
       edges   |-> [added |-> right.edges \ left.edges, removed |-> left.edges \ right.edges]]

-----------------------------------------------------------------------------
(* Properties.                                                             *)

TopoTypeOK ==
  /\ \A a \in MapAudits : evidence[a] \in DOMAIN EvidenceOf[a]
  /\ \A i \in DOMAIN artifacts : artifacts[i].audit \in MapAudits /\ artifacts[i].doc \in Results
  /\ mapping \in MapAudits \cup {"global"}
  /\ \A type \in ResultTypes : applied[type] \subseteq DOMAIN artifacts
  /\ DOMAIN finished = MapAudits \cup {"global"}

\* Every stage leaves a graph, although stages move edges, drop nodes and look
\* nodes up by address, MAC or name (topology/*.py): no identifier is used twice
\* or belongs to a node of another kind; every edge joins two nodes of the map;
\* every gateway that a segment lists is an address of a node, also after
\* upstream.py has moved next hops between segments; and the structural view
\* shows no edge whose end it hides.
Labelled(t) ==
  \A i \in DOMAIN t.nodes :
    t.nodes[i].kind \in {"segment", "wirescope"} => t.nodes[i].id[1] = t.nodes[i].kind
MapConnected ==
  /\ drawing # NoMap =>
       /\ Labelled(drawing) /\ Distinct(drawing.nodes) /\ Distinct(drawing.segments)
       /\ \A d \in ToSet(drawing.edges) : {d.source, d.target} \subseteq Ids(drawing)
       /\ \A s \in ToSet(drawing.segments) : \A g \in s.gateways :
            \E n \in ToSet(drawing.nodes) : g \in Bare(n)
  /\ \A x \in DOMAIN finished : finished[x] # NoMap =>
       EndsOf(finished[x].view.edges) \subseteq finished[x].view.nodes

\* A map that claims sufficient coverage leaves nothing out: every result saved
\* before its health check is on it, unless a later result for the same target
\* took its place or newer results filled the limit; and a global map has every
\* ended audit that has segments (source_health.py, global_view.py, completeness.py).
Superseded(i, saved) ==
  LET later == {j \in (i + 1)..saved : /\ artifacts[j].audit = artifacts[i].audit
                                       /\ artifacts[j].doc.type = artifacts[i].doc.type}
  IN  \/ artifacts[i].doc.type # "trace" /\ \E j \in later : artifacts[j].doc.target = artifacts[i].doc.target
      \/ Cardinality(later) >= Limit(artifacts[i].doc.type)
OmissionsShown ==
  \A x \in DOMAIN finished : (finished[x] # NoMap /\ finished[x].coverage = "sufficient") =>
    /\ \A i \in 1..finished[x].saved :
         \/ artifacts[i].audit \notin IF x = "global" THEN ToSet(finished[x].map.audits) ELSE {x}
         \/ i \in finished[x].applied[artifacts[i].doc.type]
         \/ Superseded(i, finished[x].saved)
    /\ x = "global" => \A a \in MapAudits : Stored[a].terminal => ~ Stored[a].broken

\* compare.py: "the comparison never invents continuity".  Two nodes reported as
\* the same one share a MAC or an address, or are the same segment or sensor.
NoInventedContinuity ==
  (finished[CurrentAudit] # NoMap /\ finished[BaselineAudit] # NoMap) =>
    \A p \in CompareTopologies(finished[BaselineAudit].map, finished[CurrentAudit].map).same :
      \/ p[1].mac \cap p[2].mac # {}
      \/ KnownAddresses(p[1]) \cap KnownAddresses(p[2]) # {}
      \/ IsSegment(p[1]) /\ IsSegment(p[2]) /\ p[1].id[2] = p[2].id[2]
      \/ p[1].kind = "wirescope" /\ p[1].id = p[2].id
=============================================================================
