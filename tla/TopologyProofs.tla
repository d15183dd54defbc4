--------------------------- MODULE TopologyProofs ---------------------------
(***************************************************************************)
(* Theorems about Topology, for all evidence and all results saved while a *)
(* map is drawn: every stage leaves a graph, a map that leaves a result    *)
(* out says so, and a comparison joins only nodes that share an identity.  *)
(***************************************************************************)
EXTENDS Topology, GraphProofs

-----------------------------------------------------------------------------
\* The structural view keeps both ends of every edge it shows: it hides a node
\* only with the edges of it, and traffic-only nodes have none (presentation.py).
LEMMA ViewClosed ==
  ASSUME NEW t
  PROVE  EndsOf(StructuralView(t).edges) \subseteq StructuralView(t).nodes
<1> DEFINE hidden == BroadcastNodes(t)
           plain == {d \in ToSet(t.edges) : d.relation # "communication"}
           edges == {d \in plain : {d.source, d.target} \cap hidden = {}}
           trafficOnly == {id \in EndsOf(ToSet(t.edges) \ plain) :
                             id \notin EndsOf(plain) \cup Infrastructure(t) /\ id[1] # "asset"}
           view == StructuralView(t)
<1>1. \E shown : /\ view.edges = edges
                 /\ view.nodes = (Infrastructure(t) \cup EndsOf(edges) \cup shown)
                                    \ (hidden \cup trafficOnly)
  BY Zenon DEF StructuralView
<1>2. ASSUME NEW id \in EndsOf(edges) PROVE id \in EndsOf(plain) /\ id \notin hidden
  BY DEF EndsOf
<1>3. ASSUME NEW id \in EndsOf(edges) PROVE id \notin trafficOnly
  BY <1>2
<1> HIDE DEF edges, view, hidden, trafficOnly
<1>4. EndsOf(view.edges) \subseteq view.nodes
  BY <1>1, <1>2, <1>3
<1> QED BY <1>4 DEF view

\* A result as it is saved.
Artifact == [audit : MapAudits, doc : Results, readable : BOOLEAN]

\* The audits that could not be built into the global map.
GlobalFaults ==
    {<<"audit", a>> : a \in {b \in MapAudits : Stored[b].terminal /\ Stored[b].broken}}

\* The audits a map covers.
Covered(x, t) == IF x = "global" THEN ToSet(t.audits) ELSE {x}

\* Result i is no result of these audits, is used, or has been replaced.
Accounted(i, audits, used, saved) ==
    \/ artifacts[i].audit \notin audits
    \/ i \in used[artifacts[i].doc.type]
    \/ Superseded(i, saved)

\* What the finished map m of x says of the results saved before its health check.
Honest(x, m) ==
    m # NoMap =>
        /\ m.saved \in 0 .. Len(artifacts)
        /\ EndsOf(m.view.edges) \subseteq m.view.nodes
        /\ m.coverage = "sufficient" =>
              /\ \A i \in 1 .. m.saved : Accounted(i, Covered(x, m.map), m.applied, m.saved)
              /\ x = "global" => GlobalFaults = {}

\* The faults of a global map are the audits it leaves out, until it is finished.
TopoInv ==
    /\ mapping \in MapAudits \cup {"global"}
    /\ artifacts \in Seq(Artifact)
    /\ finished = [x \in MapAudits \cup {"global"} |-> finished[x]]
    /\ mapping = "global" /\ stage \notin {"build", "done"} => faults = GlobalFaults
    /\ \A x \in MapAudits \cup {"global"} : Honest(x, finished[x])

\* Of the results of one kind, those the health check does not look for were
\* replaced by later ones of the same target or filled the limit.
LEMMA CandidatesOrReplaced ==
  ASSUME artifacts \in Seq(Artifact), NEW i \in 1 .. Len(artifacts)
  PROVE  \/ i \in CandidateArtifacts(artifacts[i].audit, artifacts[i].doc.type)
         \/ Superseded(i, Len(artifacts))
<1> DEFINE a == artifacts[i].audit
           type == artifacts[i].doc.type
           rows == {j \in DOMAIN artifacts : artifacts[j].audit = a /\ artifacts[j].doc.type = type}
           after == {j \in rows : j > i}
<1>1. DOMAIN artifacts = 1 .. Len(artifacts) /\ Len(artifacts) \in Nat /\ i \in rows
  OBVIOUS
<1>2. Cardinality(after) \in Nat
  <2>1. IsFiniteSet(1 .. Len(artifacts))
    BY <1>1, FS_Interval
  <2>2. IsFiniteSet(after)
    BY <1>1, <2>1, FS_Subset
  <2> QED BY <2>2, FS_CardinalityType
<1>3. after = {j \in (i + 1) .. Len(artifacts) : artifacts[j].audit = a
                                               /\ artifacts[j].doc.type = type}
  BY <1>1
<1>4. Limit(type) \in Nat
  BY TopologyAssumption DEF Limit
<1>5. CASE Cardinality(after) >= Limit(type)
  BY <1>3, <1>5 DEF Superseded
<1>6. CASE ~(Cardinality(after) >= Limit(type))
  <2>1. Cardinality(after) < Limit(type)
    BY <1>2, <1>4, <1>6
  <2>2. i \in CandidateRows(a, type)
    BY <1>1, <2>1 DEF CandidateRows
  <2>3. CASE type # "trace" /\ \E j \in CandidateRows(a, type) :
                 j > i /\ artifacts[j].doc.target = artifacts[i].doc.target
    <3>1. PICK j \in CandidateRows(a, type) :
                 j > i /\ artifacts[j].doc.target = artifacts[i].doc.target
      BY <2>3
    <3>2. j \in after
      BY <3>1 DEF CandidateRows
    <3> HIDE DEF after
    <3> QED BY <1>3, <2>3, <3>1, <3>2 DEF Superseded
  <2>4. CASE ~(type # "trace" /\ \E j \in CandidateRows(a, type) :
                 j > i /\ artifacts[j].doc.target = artifacts[i].doc.target)
    BY <2>2, <2>4 DEF CandidateArtifacts, OnePerTarget
  <2> QED BY <2>3, <2>4
<1> QED BY <1>5, <1>6

\* Saving a result changes nothing about the earlier ones.
LEMMA AccountedStays ==
  ASSUME artifacts \in Seq(Artifact), NEW e,
         artifacts' = artifacts \/ artifacts' = Append(artifacts, e),
         NEW saved \in 0 .. Len(artifacts), NEW i \in 1 .. saved, NEW audits, NEW used,
         Accounted(i, audits, used, saved)
  PROVE  Accounted(i, audits, used, saved)'
<1>1. \A j \in 1 .. saved : artifacts'[j] = artifacts[j]
  <2>1. \A j \in 1 .. saved : j \in 1 .. Len(artifacts)
    OBVIOUS
  <2> QED BY <2>1
<1> DEFINE later == {j \in (i + 1) .. saved : /\ artifacts[j].audit = artifacts[i].audit
                                            /\ artifacts[j].doc.type = artifacts[i].doc.type}
<1>2. later' = later
  <2>1. \A j \in (i + 1) .. saved : artifacts'[j] = artifacts[j]
    BY <1>1
  <2> QED BY <1>1, <2>1
<1>3. Superseded(i, saved) => Superseded(i, saved)'
  <2>1. artifacts'[i] = artifacts[i] /\ \A j \in later : artifacts'[j] = artifacts[j]
    BY <1>1
  <2>2. Superseded(i, saved) <=>
          \/ artifacts[i].doc.type # "trace"
             /\ \E j \in later : artifacts[j].doc.target = artifacts[i].doc.target
          \/ Cardinality(later) >= Limit(artifacts[i].doc.type)
    BY DEF Superseded
  <2>3. Superseded(i, saved)' <=>
          \/ artifacts'[i].doc.type # "trace"
             /\ \E j \in later' : artifacts'[j].doc.target = artifacts'[i].doc.target
          \/ Cardinality(later') >= Limit(artifacts'[i].doc.type)
    BY DEF Superseded, Limit
  <2> HIDE DEF later
  <2> QED BY <1>2, <2>1, <2>2, <2>3
<1> QED BY <1>1, <1>3 DEF Accounted

\* A finished map stays honest while results are saved.
LEMMA HonestStays ==
  ASSUME artifacts \in Seq(Artifact), NEW e,
         artifacts' = artifacts \/ artifacts' = Append(artifacts, e),
         evidence' = evidence, NEW x, NEW m, Honest(x, m)
  PROVE  Honest(x, m)'
<1> SUFFICES ASSUME m # NoMap PROVE Honest(x, m)'
  BY DEF Honest
<1>1. m.saved \in 0 .. Len(artifacts) /\ m.saved \in 0 .. Len(artifacts')
  <2>1. m.saved \in 0 .. Len(artifacts)
    BY DEF Honest
  <2>2. Len(artifacts) \in Nat /\ (Len(artifacts') = Len(artifacts) \/ Len(artifacts') = Len(artifacts) + 1)
    OBVIOUS
  <2> QED BY <2>1, <2>2
<1>2. GlobalFaults' = GlobalFaults
  BY DEF GlobalFaults, Stored
<1>3. EndsOf(m.view.edges) \subseteq m.view.nodes
  BY DEF Honest
<1>4. ASSUME m.coverage = "sufficient", NEW i \in 1 .. m.saved
      PROVE  Accounted(i, Covered(x, m.map), m.applied, m.saved)'
  <2>1. Accounted(i, Covered(x, m.map), m.applied, m.saved)
    BY <1>4 DEF Honest
  <2>2. PICK audits, used, saved : audits = Covered(x, m.map) /\ used = m.applied /\ saved = m.saved
    OBVIOUS
  <2>3. Accounted(i, audits, used, saved)'
    BY <1>1, <2>1, <2>2, AccountedStays
  <2> QED BY <2>2, <2>3 DEF Accounted, Covered, Superseded
<1>5. m.coverage = "sufficient" => (x = "global" => GlobalFaults = {})
  BY DEF Honest
<1> QED BY <1>1, <1>2, <1>3, <1>4, <1>5 DEF Honest, EndsOf

\* The health check finishes an honest map: coverage is sufficient only without
\* a fault, and without one every candidate is among the results used.
LEMMA HealthHonest ==
  ASSUME TopoInv, SourceHealth
  PROVE  Honest(mapping, finished'[mapping])
<1> DEFINE errors == faults \cup SourceErrors
<1>1. PICK m : m = finished'[mapping]
  OBVIOUS
<1>2. /\ m.map = drawing /\ m.view = StructuralView(drawing) /\ m.applied = applied
      /\ m.coverage = Coverage(drawing, errors) /\ m.saved = Len(artifacts)
  BY <1>1 DEF SourceHealth, TopoInv
<1>3. m.saved \in 0 .. Len(artifacts)
  BY <1>2 DEF TopoInv
<1>4. EndsOf(m.view.edges) \subseteq m.view.nodes
  BY <1>2, ViewClosed
<1>5. ASSUME m.coverage = "sufficient" PROVE faults = {} /\ SourceErrors = {}
  <2>1. Coverage(drawing, errors) = "sufficient" => errors = {}
    <3> HIDE DEF errors
    <3> QED BY DEF Coverage
  <2> QED BY <1>2, <1>5, <2>1
<1>6. ASSUME m.coverage = "sufficient", NEW i \in 1 .. m.saved
      PROVE  Accounted(i, Covered(mapping, m.map), m.applied, m.saved)
  <2> DEFINE a == artifacts[i].audit
             type == artifacts[i].doc.type
  <2>1. i \in 1 .. Len(artifacts) /\ artifacts[i] \in Artifact
    BY <1>2, <1>6 DEF TopoInv
  <2>2. type \in ResultTypes
    BY <2>1, TopologyAssumption DEF Artifact
  <2>3. i \in CandidateArtifacts(a, type) \/ Superseded(i, Len(artifacts))
    BY <2>1, CandidatesOrReplaced DEF TopoInv
  <2>4. ASSUME a \in Covered(mapping, drawing), i \in CandidateArtifacts(a, type), i \notin applied[type]
        PROVE  FALSE
    <3> HIDE DEF a, type
    <3>1. <<"artifact", i>> \in SourceErrors
      BY <2>1, <2>2, <2>4 DEF SourceErrors, Covered, TopoInv
    <3> QED BY <1>5, <1>6, <3>1
  <2> QED BY <1>2, <2>3, <2>4 DEF Accounted
<1>7. ASSUME m.coverage = "sufficient", mapping = "global" PROVE GlobalFaults = {}
  BY <1>5, <1>7 DEF TopoInv, SourceHealth
<1> QED BY <1>1, <1>3, <1>4, <1>6, <1>7 DEF Honest

LEMMA TopoStep ==
  ASSUME TopoInv, [TopoNext]_topoVars
  PROVE  TopoInv'
<1>1. /\ mapping \in MapAudits \cup {"global"} /\ artifacts \in Seq(Artifact)
      /\ finished = [x \in MapAudits \cup {"global"} |-> finished[x]]
      /\ mapping = "global" /\ stage \notin {"build", "done"} => faults = GlobalFaults
      /\ \A x \in MapAudits \cup {"global"} : Honest(x, finished[x])
  BY DEF TopoInv
<1>2. evidence' = evidence => GlobalFaults' = GlobalFaults
  BY DEF GlobalFaults, Stored
<1> DEFINE Stays == /\ evidence' = evidence /\ finished' = finished /\ mapping' = mapping
                    /\ artifacts' = artifacts \/ \E e \in Artifact : artifacts' = Append(artifacts, e)
<1>3. ASSUME Stays, mapping = "global" /\ stage' \notin {"build", "done"} => faults' = GlobalFaults
      PROVE  TopoInv'
  <2>1. artifacts' \in Seq(Artifact)
    BY <1>1, <1>3
  <2>2. ASSUME NEW x \in MapAudits \cup {"global"} PROVE Honest(x, finished[x])'
    <3>1. PICK m : m = finished[x]
      OBVIOUS
    <3>2. PICK e : artifacts' = artifacts \/ (e \in Artifact /\ artifacts' = Append(artifacts, e))
      BY <1>3
    <3>3. Honest(x, m)'
      BY <1>1, <1>3, <3>1, <3>2, HonestStays
    <3>4. finished'[x] = m
      BY <1>3, <3>1
    <3> QED BY <3>3, <3>4 DEF Honest
  <2> QED BY <1>1, <1>2, <1>3, <2>1, <2>2 DEF TopoInv
<1>4. ASSUME NEW a \in MapAudits, NEW d \in Results, NEW r \in BOOLEAN, SaveResult(a, d, r)
      PROVE  TopoInv'
  <2>1. [audit |-> a, doc |-> d, readable |-> r] \in Artifact
    BY DEF Artifact
  <2> QED BY <1>1, <1>3, <1>4, <2>1 DEF SaveResult
<1>5. CASE BuildGlobal
  BY <1>3, <1>5 DEF BuildGlobal, GlobalFaults
<1>6. CASE Build \/ BuildFails
  BY <1>3, <1>6 DEF Build, BuildFails, Decorated
<1>7. CASE InterfaceGateways \/ Routing \/ Upstream \/ Snmp
  BY <1>1, <1>3, <1>7 DEF InterfaceGateways, Routing, Upstream, Snmp, Decorated
<1>8. CASE SnmpExtended \/ Ssh \/ GuardRoles \/ Findings
  BY <1>1, <1>3, <1>8 DEF SnmpExtended, Ssh, GuardRoles, Findings, Decorated
<1>9. CASE SourceHealth
  <2>1. /\ evidence' = evidence /\ artifacts' = artifacts
        /\ (mapping' = mapping /\ stage' = "done") \/ (mapping' = BaselineAudit /\ stage' = "build")
    BY <1>9 DEF SourceHealth
  <2>2. mapping' \in MapAudits \cup {"global"} /\ (mapping' = "global" => stage' \in {"build", "done"})
    BY <1>1, <2>1, TopologyAssumption
  <2>3. finished' = [x \in MapAudits \cup {"global"} |-> finished'[x]]
    BY <1>1, <1>9 DEF SourceHealth
  <2>4. ASSUME NEW x \in MapAudits \cup {"global"} PROVE Honest(x, finished[x])'
    <3>1. PICK m : m = finished'[x]
      OBVIOUS
    <3>2. Honest(x, m)
      <4>1. CASE x = mapping
        BY <1>9, <3>1, <4>1, HealthHonest
      <4>2. CASE x # mapping
        <5>1. finished'[x] = finished[x]
          BY <1>1, <1>9, <4>2 DEF SourceHealth
        <5> QED BY <1>1, <3>1, <5>1
      <4> QED BY <4>1, <4>2
    <3>3. Honest(x, m)'
      BY <1>2, <2>1, <3>2 DEF Honest, Accounted, Superseded, Covered, EndsOf
    <3> QED BY <3>1, <3>3 DEF Honest
  <2> QED BY <1>1, <2>1, <2>2, <2>3, <2>4 DEF TopoInv
<1>10. CASE UNCHANGED topoVars
  BY <1>1, <1>3, <1>10 DEF topoVars
<1> QED BY <1>4, <1>5, <1>6, <1>7, <1>8, <1>9, <1>10 DEF TopoNext

LEMMA TopoInvariant == TopoSpec => []TopoInv
<1>1. TopoInit => TopoInv
  <2> SUFFICES ASSUME TopoInit PROVE TopoInv
    OBVIOUS
  <2>1. mapping \in MapAudits \cup {"global"} /\ artifacts \in Seq(Artifact) /\ stage = "build"
    BY TopologyAssumption DEF TopoInit
  <2>2. finished = [x \in MapAudits \cup {"global"} |-> NoMap]
    BY DEF TopoInit
  <2>3. finished = [x \in MapAudits \cup {"global"} |-> finished[x]]
    BY <2>2
  <2>4. \A x \in MapAudits \cup {"global"} : Honest(x, finished[x])
    BY <2>2 DEF Honest
  <2> QED BY <2>1, <2>3, <2>4 DEF TopoInv
<1>2. TopoInv /\ [TopoNext]_topoVars => TopoInv'
  BY TopoStep
<1> QED BY <1>1, <1>2, PTL DEF TopoSpec

\* A map whose coverage is called sufficient leaves nothing out, for any evidence,
\* any limits and any interleaving of the request's stages with results being
\* saved (topology/source_health.py, topology/completeness.py).
THEOREM OmissionsAreShown == TopoSpec => []OmissionsShown
<1>1. TopoInv => OmissionsShown
  <2> SUFFICES ASSUME TopoInv, NEW x \in DOMAIN finished,
                      finished[x] # NoMap /\ finished[x].coverage = "sufficient"
               PROVE  /\ \A i \in 1 .. finished[x].saved :
                           \/ artifacts[i].audit \notin
                                IF x = "global" THEN ToSet(finished[x].map.audits) ELSE {x}
                           \/ i \in finished[x].applied[artifacts[i].doc.type]
                           \/ Superseded(i, finished[x].saved)
                      /\ x = "global" => \A a \in MapAudits : Stored[a].terminal => ~ Stored[a].broken
    BY Zenon DEF OmissionsShown
  <2>1. Honest(x, finished[x])
    BY DEF TopoInv
  <2>2. \A i \in 1 .. finished[x].saved :
           Accounted(i, Covered(x, finished[x].map), finished[x].applied, finished[x].saved)
    BY <2>1 DEF Honest
  <2>3. x = "global" => GlobalFaults = {}
    BY <2>1 DEF Honest
  <2>4. x = "global" => \A a \in MapAudits : Stored[a].terminal => ~ Stored[a].broken
    BY <2>3 DEF GlobalFaults
  <2> QED BY <2>2, <2>4 DEF Accounted, Covered
<1> QED BY <1>1, TopoInvariant, PTL

\* The structural view of a finished map shows no edge whose end it hides, whatever
\* the stages drew (topology/presentation.py); MapConnected checks the same for TLC.
THEOREM ViewsAreClosed ==
  TopoSpec => [](\A x \in DOMAIN finished : finished[x] # NoMap =>
                   EndsOf(finished[x].view.edges) \subseteq finished[x].view.nodes)
<1>1. TopoInv => \A x \in DOMAIN finished : finished[x] # NoMap =>
                   EndsOf(finished[x].view.edges) \subseteq finished[x].view.nodes
  BY DEF TopoInv, Honest
<1> QED BY <1>1, TopoInvariant, PTL

-----------------------------------------------------------------------------
\* The map of all audits.  It is a graph, every segment has a node, and every
\* node called a segment stands for one (global_view.py).
Global(t) ==
    /\ Graph(t) /\ Drawn(t)
    /\ \A id \in Ids(t) : id[1] = "segment" => id \in SegmentIds(t)

LEMMA AttachGlobalGatewayIs ==
  ASSUME NEW t, Global(t), NEW s, s.id \in Ids(t), NEW g
  PROVE  /\ Global(AttachGlobalGateway(t, s, g))
         /\ Ids(t) \subseteq Ids(AttachGlobalGateway(t, s, g))
         /\ AttachGlobalGateway(t, s, g).audits = t.audits
<1> DEFINE id  == <<"gateway", g>>
           new == [Node(id, "endpoint") EXCEPT !.roles = {"gateway"}, !.names = {g},
                     !.addresses = {<<g, {}>>}, !.provenance = {"confirmed-scope-route"}]
           u   == PutNode(t, new)
           e   == [Edge(s.id, id, "segment_gateway", {"confirmed-scope-route"}) EXCEPT !.segment = s.id]
           v   == PutEdge(u, e)
<1>1. AttachGlobalGateway(t, s, g) = u \/ AttachGlobalGateway(t, s, g) = v
  BY DEF AttachGlobalGateway
<1>2. DOMAIN new = NodeFields /\ new.id = id /\ new.kind = "endpoint"
  BY DEF Node, NodeFields
<1>3. Plain(id) /\ id[1] # "segment"
  BY DEF Plain, NoNode
<1>4. Graph(t) /\ Drawn(t) /\ \A x \in Ids(t) : x[1] = "segment" => x \in SegmentIds(t)
  BY DEF Global
<1> HIDE DEF new, id
<1>5. Proper(new)
  BY <1>2, <1>3, PlainProper
<1>6. Extended(t, u) /\ Ids(u) = Ids(t) \cup {id}
  <2>1. CASE id \in Ids(t)
    BY <1>2, <1>4, <2>1, MarkNodeGrows DEF PutNode
  <2>2. CASE id \notin Ids(t)
    BY <1>2, <1>4, <1>5, <2>2, AddNodeGrows DEF PutNode
  <2> QED BY <2>1, <2>2
<1> HIDE DEF u
<1>7. Graph(u) /\ SegmentIds(u) = SegmentIds(t) /\ u.audits = t.audits
  BY <1>6, ExtendedIds DEF Extended, Grown, Kept, SegmentIds
<1>8. Joined(u, e)
  BY <1>6 DEF Joined, Edge, EdgeFields
<1> HIDE DEF e
<1>9. Extended(u, v) /\ Ids(v) = Ids(u)
  BY <1>7, <1>8, PutEdgeGrows DEF PutEdge, Ids, Graph, MapFields
<1> HIDE DEF v
<1>10. Graph(v) /\ SegmentIds(v) = SegmentIds(t) /\ v.audits = t.audits
  BY <1>7, <1>9, ExtendedIds DEF Extended, Grown, Kept, SegmentIds
<1>11. Global(u) /\ Global(v)
  BY <1>3, <1>4, <1>6, <1>7, <1>9, <1>10 DEF Global, Drawn
<1> QED BY <1>1, <1>6, <1>7, <1>9, <1>10, <1>11

GlobalSoFar(p, q, r, k, t) == Global(t) /\ Ids(p) \subseteq Ids(t) /\ t.audits = p.audits

GlobalGatewayOp(p, q, r, t, x) == AttachGlobalGateway(t, q, x)
GlobalGateways == INSTANCE FoldInduction WITH Op <- GlobalGatewayOp, Good <- GlobalSoFar
LEMMA AttachGlobalGatewaysIs ==
  ASSUME NEW t, Global(t), NEW s, s.id \in Ids(t), IsFiniteSet(s.gateways)
  PROVE  GlobalSoFar(t, s, s, 0, AttachGlobalGateways(t, s))
<1>1. GlobalGateways!WellOrdered
  BY LeastOf DEF GlobalGateways!WellOrdered
<1>2. GlobalSoFar(t, s, s, 0, t)
  BY DEF GlobalSoFar
<1>3. \A k \in 1..Len(SetToSeq(s.gateways)) : \A u : GlobalSoFar(t, s, s, k - 1, u) => GlobalSoFar(t, s, s, k, GlobalGatewayOp(t, s, s, u, SetToSeq(s.gateways)[k]))
  <2> SUFFICES ASSUME NEW k \in 1..Len(SetToSeq(s.gateways)), NEW u, GlobalSoFar(t, s, s, k - 1, u)
               PROVE  GlobalSoFar(t, s, s, k, AttachGlobalGateway(u, s, SetToSeq(s.gateways)[k]))
    BY DEF GlobalGatewayOp
  <2> QED BY AttachGlobalGatewayIs DEF GlobalSoFar
<1>4. Len(SetToSeq(s.gateways)) \in Nat /\ DOMAIN SetToSeq(s.gateways) = 1..Len(SetToSeq(s.gateways))
  BY SetListed, SeqShape
<1>5. GlobalSoFar(t, s, s, Len(SetToSeq(s.gateways)), GlobalGateways!Folded(t, s, s, t, SetToSeq(s.gateways)))
  BY <1>1, <1>2, <1>3, <1>4, GlobalGateways!FoldKeeps
<1>6. GlobalGateways!Folded(t, s, s, t, SetToSeq(s.gateways)) = AttachGlobalGateways(t, s)
  BY DEF GlobalGateways!Folded, AttachGlobalGateways, FoldLeft, MapThenFoldSet, Max, GlobalGatewayOp
<1> QED BY <1>5, <1>6 DEF GlobalSoFar

LEMMA AddGlobalSegmentIs ==
  ASSUME NEW t, Global(t), NEW s, Row(s)
  PROVE  GlobalSoFar(t, s, s, 0, AddGlobalSegment(t, s))
<1> DEFINE row == Segment(s.network, {}, {}, {"retained-audits"})
           a   == [t EXCEPT !.segments = Append(@, row)]
           b   == AddNode(a, SegmentNode(row))
           u   == IF \E r \in ToSet(t.segments) : r.id = row.id THEN t ELSE b
<1>1. AddGlobalSegment(t, s) = AttachGlobalGateways(u, s)
  BY DEF AddGlobalSegment
<1>2. Row(row) /\ row.id = s.id /\ row.gateways = {} /\ row.network = s.network
  BY SegmentRow, FS_EmptySet DEF Row
<1>3. s.id[1] = "segment" /\ IsFiniteSet(s.gateways) /\ row.id = SegmentId(row.network)
  BY <1>2 DEF Row, SegmentId
<1>4. a = AddSegment(t, row)
  BY DEF AddSegment
<1>5. Graph(t) /\ Drawn(t) /\ \A id \in Ids(t) : id[1] = "segment" => id \in SegmentIds(t)
  BY DEF Global
<1> HIDE DEF row, a
<1>6. CASE \E r \in ToSet(t.segments) : r.id = row.id
  <2>1. s.id \in Ids(t)
    BY <1>2, <1>5, <1>6 DEF ToSet, Drawn, SegmentIds
  <2>2. u = t
    BY <1>6
  <2> HIDE DEF u
  <2> QED BY <1>1, <1>3, <2>1, <2>2, AttachGlobalGatewaysIs
<1>7. CASE ~ \E r \in ToSet(t.segments) : r.id = row.id
  <2>1. \A i \in DOMAIN t.segments : t.segments[i].id # row.id
    BY <1>7 DEF ToSet
  <2>2. row.id \notin Ids(t)
    BY <1>2, <1>3, <1>5, <2>1 DEF SegmentIds
  <2>3. /\ Kept(t, a) /\ Ids(a) = Ids(t)
        /\ \E k : /\ DOMAIN a.segments = DOMAIN t.segments \cup {k}
                  /\ a.segments[k] = row
                  /\ \A i \in DOMAIN t.segments : a.segments[i] = t.segments[i]
    BY <1>2, <1>4, <1>5, <2>1, AddSegmentKeeps
  <2>4. SegmentIds(a) = SegmentIds(t) \cup {row.id}
    BY <2>3 DEF SegmentIds
  <2>5. Graph(a) /\ a.audits = t.audits
    BY <2>3 DEF Kept
  <2>6. Proper(SegmentNode(row)) /\ SegmentNode(row).id = row.id
    BY <1>3, SegmentNodeProper
  <2>7. Extended(a, b) /\ Ids(b) = Ids(t) \cup {row.id}
    BY <2>2, <2>3, <2>5, <2>6, AddNodeGrows
  <2> HIDE DEF b
  <2>8. Graph(b) /\ SegmentIds(b) = SegmentIds(t) \cup {row.id} /\ b.audits = t.audits
    BY <2>4, <2>5, <2>7, ExtendedIds DEF Extended, Grown, Kept, SegmentIds
  <2>9. Global(b) /\ s.id \in Ids(b)
    BY <1>2, <1>5, <2>7, <2>8 DEF Global, Drawn
  <2>10. u = b
    BY <1>7
  <2> HIDE DEF u
  <2>11. GlobalSoFar(b, s, s, 0, AttachGlobalGateways(b, s))
    BY <1>3, <2>9, AttachGlobalGatewaysIs
  <2> QED BY <1>1, <2>7, <2>8, <2>10, <2>11 DEF GlobalSoFar
<1> QED BY <1>6, <1>7

RowOp(p, q, r, t, x) == AddGlobalSegment(t, x)
GlobalRows == INSTANCE FoldInduction WITH Op <- RowOp, Good <- GlobalSoFar
LEMMA AddGlobalSegmentsIs ==
  ASSUME NEW t, Global(t), NEW list, IsSeq(list), \A i \in DOMAIN list : Row(list[i])
  PROVE  GlobalSoFar(t, t, t, 0, AddGlobalSegments(t, list))
<1>1. GlobalRows!WellOrdered
  BY LeastOf DEF GlobalRows!WellOrdered
<1>2. GlobalSoFar(t, t, t, 0, t)
  BY DEF GlobalSoFar
<1>3. \A k \in 1..Len(list) : \A u : GlobalSoFar(t, t, t, k - 1, u) => GlobalSoFar(t, t, t, k, RowOp(t, t, t, u, list[k]))
  <2> SUFFICES ASSUME NEW k \in 1..Len(list), NEW u, GlobalSoFar(t, t, t, k - 1, u)
               PROVE  GlobalSoFar(t, t, t, k, AddGlobalSegment(u, list[k]))
    BY DEF RowOp
  <2>1. Row(list[k]) /\ Global(u)
    BY SeqShape DEF GlobalSoFar
  <2>2. GlobalSoFar(u, list[k], list[k], 0, AddGlobalSegment(u, list[k]))
    BY <2>1, AddGlobalSegmentIs
  <2> QED BY <2>2 DEF GlobalSoFar
<1>4. Len(list) \in Nat /\ DOMAIN list = 1..Len(list)
  BY SeqShape
<1>5. GlobalSoFar(t, t, t, Len(list), GlobalRows!Folded(t, t, t, t, list))
  BY <1>1, <1>2, <1>3, <1>4, GlobalRows!FoldKeeps
<1>6. GlobalRows!Folded(t, t, t, t, list) = AddGlobalSegments(t, list)
  BY DEF GlobalRows!Folded, AddGlobalSegments, FoldLeft, MapThenFoldSet, Max, RowOp
<1> QED BY <1>5, <1>6 DEF GlobalSoFar

\* The audits a global map shows, and the map before their segments are added.
Shown(e) == {a \in MapAudits : e[a].terminal /\ ~ e[a].broken /\ SegmentedTopology(e[a]).segments # <<>>}
Blank(e) ==
    [audit |-> "global", interface |-> "unknown", nodes |-> <<>>, edges |-> <<>>, segments |-> <<>>,
     routers |-> {}, candidates |-> {}, overlay |-> FALSE, audits |-> SetToSeq(Shown(e))]

LEMMA BlankIs ==
  ASSUME NEW e
  PROVE  Global(Blank(e)) /\ Blank(e).audits = SetToSeq(Shown(e))
<1>1. PICK t : t = Blank(e)
  OBVIOUS
<1>2. /\ DOMAIN t = MapFields /\ t.nodes = <<>> /\ t.edges = <<>> /\ t.segments = <<>>
      /\ t.audits = SetToSeq(Shown(e))
  BY <1>1 DEF Blank, MapFields
<1>3. IsSeq(<<>>) /\ DOMAIN <<>> = {}
  BY DEF IsSeq
<1>4. Graph(t)
  BY <1>2, <1>3 DEF Graph, Distinct
<1>5. Ids(t) = {} /\ SegmentIds(t) = {}
  BY <1>2, <1>3 DEF Ids, SegmentIds
<1> QED BY <1>1, <1>2, <1>4, <1>5 DEF Global, Drawn


GlobalOp(p, q, r, t, x) == AddGlobalSegments(t, SegmentedTopology(q[x]).segments)
GlobalAudits == INSTANCE FoldInduction WITH Op <- GlobalOp, Good <- GlobalSoFar
LEMMA GlobalTopologyIs ==
  ASSUME NEW e, \A a \in MapAudits : IsEvidence(e[a])
  PROVE  Global(GlobalTopology(e)) /\ IsSeq(GlobalTopology(e).audits)
<1>0. /\ IsSeq(SetToSeq(Shown(e))) /\ ToSet(SetToSeq(Shown(e))) = Shown(e)
      /\ Len(SetToSeq(Shown(e))) \in Nat /\ DOMAIN SetToSeq(Shown(e)) = 1..Len(SetToSeq(Shown(e)))
  <2>1. IsFiniteSet(Shown(e))
    BY TopologyAssumption, FS_Subset DEF Shown
  <2> QED BY <2>1, SetListed, SeqShape
<1>1. GlobalAudits!WellOrdered
  BY LeastOf DEF GlobalAudits!WellOrdered
<1>2. GlobalSoFar(Blank(e), e, e, 0, Blank(e))
  BY BlankIs DEF GlobalSoFar
<1>3. \A k \in 1..Len(SetToSeq(Shown(e))) : \A u : GlobalSoFar(Blank(e), e, e, k - 1, u) => GlobalSoFar(Blank(e), e, e, k, GlobalOp(Blank(e), e, e, u, SetToSeq(Shown(e))[k]))
  <2> SUFFICES ASSUME NEW k \in 1..Len(SetToSeq(Shown(e))), NEW u, GlobalSoFar(Blank(e), e, e, k - 1, u)
               PROVE  GlobalSoFar(Blank(e), e, e, k, GlobalOp(Blank(e), e, e, u, SetToSeq(Shown(e))[k]))
    OBVIOUS
  <2>1. PICK a \in MapAudits : a = SetToSeq(Shown(e))[k]
    BY <1>0 DEF ToSet, Shown
  <2>2. PICK m : m = SegmentedTopology(e[a])
    OBVIOUS
  <2>3. Graph(m)
    BY <2>2, SegmentedTopologyIs
  <2>4. IsSeq(m.segments) /\ \A i \in DOMAIN m.segments : Row(m.segments[i])
    BY <2>3 DEF Graph
  <2>5. GlobalSoFar(u, u, u, 0, AddGlobalSegments(u, m.segments))
    BY <2>4, AddGlobalSegmentsIs DEF GlobalSoFar
  <2> QED BY <2>1, <2>2, <2>5 DEF GlobalSoFar, GlobalOp
<1>4. Len(SetToSeq(Shown(e))) \in Nat /\ DOMAIN SetToSeq(Shown(e)) = 1..Len(SetToSeq(Shown(e)))
  BY <1>0
<1>5. GlobalSoFar(Blank(e), e, e, Len(SetToSeq(Shown(e))), GlobalAudits!Folded(Blank(e), e, e, Blank(e), SetToSeq(Shown(e))))
  BY <1>1, <1>2, <1>3, <1>4, GlobalAudits!FoldKeeps
<1>6. GlobalAudits!Folded(Blank(e), e, e, Blank(e), SetToSeq(Shown(e))) = GlobalTopology(e)
  BY DEF GlobalAudits!Folded, GlobalTopology, Blank, Shown, FoldLeft, MapThenFoldSet, Max, GlobalOp
<1> QED BY <1>0, <1>5, <1>6, BlankIs DEF GlobalSoFar

LEMMA DecorateGlobalRoutingGrows ==
  ASSUME NEW t, Graph(t)
  PROVE  Extended(t, DecorateGlobalRouting(t))
<1> DEFINE attached(n) == {d.source : d \in {c \in ToSet(t.edges) :
                             c.relation = "segment_gateway" /\ c.target = n.id /\ c.source[1] = "segment"}}
           marked(n) == IF attached(n) = {} THEN n
                        ELSE [n EXCEPT !.connected = attached(n), !.roles = @ \cup {"gateway"}
                                \cup IF Cardinality(attached(n)) >= 2 THEN {"router"} ELSE {}]
           routers == {n.id : n \in {m \in ToSet(t.nodes) : Cardinality(attached(m)) >= 2}}
<1>1. PICK u : u = DecorateGlobalRouting(t)
  OBVIOUS
<1>2. u = [t EXCEPT !.nodes = [i \in DOMAIN t.nodes |-> marked(t.nodes[i])], !.routers = routers]
  BY <1>1 DEF DecorateGlobalRouting
<1>3. ASSUME NEW n, Proper(n) PROVE Later(n, marked(n))
  <2> HIDE DEF attached
  <2>1. /\ DOMAIN marked(n) = NodeFields /\ marked(n).id = n.id /\ marked(n).kind = n.kind
        /\ marked(n).addresses = n.addresses /\ marked(n).names = n.names /\ marked(n).mac = n.mac
    BY <1>3 DEF Proper, NodeFields
  <2> QED BY <1>3, <2>1, LaterIf
<1> HIDE DEF marked, routers
<1>4. /\ DOMAIN u = MapFields /\ u.interface = t.interface /\ u.audits = t.audits
      /\ u.edges = t.edges /\ u.segments = t.segments
      /\ u.nodes = [i \in DOMAIN t.nodes |-> marked(t.nodes[i])]
  BY <1>2 DEF Graph, MapFields
<1>5. \A i \in DOMAIN t.nodes : Later(t.nodes[i], u.nodes[i])
  BY <1>3, <1>4 DEF Graph
<1>6. u.nodes = [i \in DOMAIN t.nodes |-> u.nodes[i]]
  BY <1>4
<1>7. Extended(t, u)
  BY <1>4, <1>5, <1>6, Renewed
<1> QED BY <1>1, <1>7

LEMMA DecorateFindingsGrows ==
  ASSUME NEW t, Graph(t), NEW findings
  PROVE  Extended(t, DecorateFindings(t, findings))
<1> DEFINE found(n) == IF n.kind # "asset" THEN n
                       ELSE [n EXCEPT !.findings = {f \in findings : f[1] = n.id[2]}]
<1>1. PICK u : u = DecorateFindings(t, findings)
  OBVIOUS
<1>2. u = [t EXCEPT !.nodes = [i \in DOMAIN t.nodes |-> found(t.nodes[i])]]
  BY <1>1 DEF DecorateFindings
<1>3. ASSUME NEW n, Proper(n) PROVE Later(n, found(n))
  <2>1. /\ DOMAIN found(n) = NodeFields /\ found(n).id = n.id /\ found(n).kind = n.kind
        /\ found(n).addresses = n.addresses /\ found(n).names = n.names /\ found(n).mac = n.mac
    BY <1>3 DEF Proper, NodeFields
  <2> QED BY <1>3, <2>1, LaterIf
<1> HIDE DEF found
<1>4. /\ DOMAIN u = MapFields /\ u.interface = t.interface /\ u.audits = t.audits
      /\ u.edges = t.edges /\ u.segments = t.segments
      /\ u.nodes = [i \in DOMAIN t.nodes |-> found(t.nodes[i])]
  BY <1>2 DEF Graph, MapFields
<1>5. \A i \in DOMAIN t.nodes : Later(t.nodes[i], u.nodes[i])
  BY <1>3, <1>4 DEF Graph
<1>6. u.nodes = [i \in DOMAIN t.nodes |-> u.nodes[i]]
  BY <1>4
<1>7. Extended(t, u)
  BY <1>4, <1>5, <1>6, Renewed
<1> QED BY <1>1, <1>7

-----------------------------------------------------------------------------
\* The documents of a stage: readable results of its kind, numbered by artifact.
LEMMA DocumentsOfAre ==
  ASSUME artifacts \in Seq(Artifact), NEW a, NEW type
  PROVE  /\ IsSeq(DocumentsOf(a, type))
         /\ \A k \in DOMAIN DocumentsOf(a, type) : IsDocument(type, DocumentsOf(a, type)[k])
<1> DEFINE n     == Len(artifacts)
           found == {i \in DOMAIN artifacts : artifacts[i].audit = a /\ artifacts[i].doc.type = type}
           I     == OnePerTarget({i \in CandidateRows(a, type) : artifacts[i].readable}, type)
           up    == Ascending(I)
           rows  == Reverse(up)
           docs  == [k \in DOMAIN rows |-> [artifacts[rows[k]].doc EXCEPT !.id = rows[k]]]
<1>1. DocumentsOf(a, type) = docs
  BY DEF DocumentsOf, LatestDocuments
<1>2. n \in Nat /\ DOMAIN artifacts = 1..n
  OBVIOUS
<1>3. I \subseteq found /\ found \subseteq 1..n
  BY <1>2 DEF OnePerTarget, CandidateRows
<1>4. \A i \in I : artifacts[i].doc \in Results /\ artifacts[i].doc.type = type
  <2>1. \A i \in I : i \in 1..n /\ artifacts[i].doc.type = type
    BY <1>3
  <2>2. \A i \in 1..n : artifacts[i] \in Artifact
    OBVIOUS
  <2>3. \A x \in Artifact : x.doc \in Results
    BY DEF Artifact
  <2> HIDE DEF I
  <2> QED BY <2>1, <2>2, <2>3
<1> HIDE DEF I, found
<1>5. I \in SUBSET (1..n)
  BY <1>3
<1>6. IsSeq(up) /\ \A k \in DOMAIN up : up[k] \in I
  BY <1>2, <1>5, AscendingIs
<1> HIDE DEF up
<1>7. rows = [i \in 1..Len(up) |-> up[(Len(up) - i) + 1]]
  BY DEF Reverse
<1>8. Len(up) \in Nat /\ DOMAIN up = 1..Len(up) /\ DOMAIN rows = 1..Len(up)
  BY <1>6, <1>7, SeqShape
<1>9. \A k \in DOMAIN rows : rows[k] \in I
  <2> SUFFICES ASSUME NEW k \in 1..Len(up) PROVE rows[k] \in I
    BY <1>8
  <2>1. (Len(up) - k) + 1 \in 1..Len(up)
    BY <1>8
  <2> QED BY <1>6, <1>7, <1>8, <2>1
<1> HIDE DEF rows
<1>10. docs = [k \in 1..Len(up) |-> docs[k]]
  BY <1>8
<1>11. IsSeq(docs) /\ DOMAIN docs = 1..Len(up)
  <2> HIDE DEF docs
  <2> QED BY <1>8, <1>10, SeqMade
<1>12. ASSUME NEW k \in DOMAIN docs PROVE IsDocument(type, docs[k])
  <2>1. PICK d \in Results : d = artifacts[rows[k]].doc /\ d.type = type
    BY <1>4, <1>8, <1>9, <1>11
  <2>2. docs[k] = [d EXCEPT !.id = rows[k]]
    BY <1>8, <1>11, <2>1
  <2>3. IsDocument(type, d)
    BY <2>1, TopologyAssumption
  <2> HIDE DEF docs
  <2>4. type = "trace" => IsTrace(docs[k])
    BY <2>2, <2>3 DEF IsDocument, IsTrace
  <2>5. type = "snmp" => IsSnmp(docs[k])
    BY <2>2, <2>3 DEF IsDocument, IsSnmp
  <2>6. type = "ssh" => IsSsh(docs[k])
    BY <2>2, <2>3 DEF IsDocument, IsSsh
  <2> QED BY <2>4, <2>5, <2>6 DEF IsDocument
<1> HIDE DEF docs
<1> QED BY <1>1, <1>11, <1>12

DocsSoFar(p, q, r, k, t) == IsSeq(t) /\ \A i \in DOMAIN t : IsDocument(q, t[i])

ReadOp(p, q, r, t, x) == t \o DocumentsOf(x, q)
ReadAudits == INSTANCE FoldInduction WITH Op <- ReadOp, Good <- DocsSoFar
LEMMA DocumentsAre ==
  ASSUME artifacts \in Seq(Artifact), NEW type, IsSeq(AuditsShown)
  PROVE  IsSeq(Documents(type)) /\ \A i \in DOMAIN Documents(type) : IsDocument(type, Documents(type)[i])
<1>1. ReadAudits!WellOrdered
  BY LeastOf DEF ReadAudits!WellOrdered
<1>2. DocsSoFar(type, type, type, 0, <<>>)
  <2>1. IsSeq(<<>>) /\ DOMAIN <<>> = {}
    BY DEF IsSeq
  <2> QED BY <2>1 DEF DocsSoFar
<1>3. \A k \in 1..Len(AuditsShown) : \A u : DocsSoFar(type, type, type, k - 1, u) => DocsSoFar(type, type, type, k, ReadOp(type, type, type, u, AuditsShown[k]))
  <2> SUFFICES ASSUME NEW k \in 1..Len(AuditsShown), NEW u, DocsSoFar(type, type, type, k - 1, u)
               PROVE  DocsSoFar(type, type, type, k, ReadOp(type, type, type, u, AuditsShown[k]))
    OBVIOUS
  <2>1. PICK v : v = DocumentsOf(AuditsShown[k], type)
    OBVIOUS
  <2>2. IsSeq(v) /\ \A i \in DOMAIN v : IsDocument(type, v[i])
    BY <2>1, DocumentsOfAre
  <2>3. IsSeq(u \o v) /\ ToSet(u \o v) = ToSet(u) \cup ToSet(v)
    BY <2>2, SeqConcat DEF DocsSoFar
  <2>4. \A i \in DOMAIN (u \o v) : IsDocument(type, (u \o v)[i])
    <3>1. \A x \in ToSet(u) \cup ToSet(v) : IsDocument(type, x)
      BY <2>2 DEF ToSet, DocsSoFar
    <3>2. \A i \in DOMAIN (u \o v) : (u \o v)[i] \in ToSet(u \o v)
      BY DEF ToSet
    <3> QED BY <2>3, <3>1, <3>2
  <2> QED BY <2>1, <2>3, <2>4 DEF DocsSoFar, ReadOp
<1>4. Len(AuditsShown) \in Nat /\ DOMAIN AuditsShown = 1..Len(AuditsShown)
  BY SeqShape
<1>5. DocsSoFar(type, type, type, Len(AuditsShown), ReadAudits!Folded(type, type, type, <<>>, AuditsShown))
  BY <1>1, <1>2, <1>3, <1>4, ReadAudits!FoldKeeps
<1>6. ReadAudits!Folded(type, type, type, <<>>, AuditsShown) = Documents(type)
  BY DEF ReadAudits!Folded, Documents, FoldLeft, MapThenFoldSet, Max, ReadOp
<1> QED BY <1>5, <1>6 DEF DocsSoFar

-----------------------------------------------------------------------------
\* The map under construction is a graph at every stage.  Interface gateways need
\* the sensor on it, traces a node for every segment; and a global map names the
\* audits whose results the later stages read.
Working == {"gateway", "routing", "upstream", "snmp", "extended", "ssh", "guard", "findings", "health"}
MapInv ==
    /\ \A a \in MapAudits : evidence[a] \in DOMAIN EvidenceOf[a]
    /\ stage \in Working \cup {"build", "failed", "done"}
    /\ stage \notin Working => drawing = NoMap
    /\ stage \in Working => Graph(drawing)
    /\ stage \in {"gateway", "findings"} => mapping # "global"
    /\ stage = "gateway" => SensorId(drawing.interface) \in Ids(drawing)
    /\ stage = "upstream" \/ (stage = "routing" /\ mapping = "global") => Drawn(drawing)
    /\ stage \in Working /\ mapping = "global" => IsSeq(drawing.audits)

LEMMA StoredIs ==
  ASSUME MapInv, NEW a \in MapAudits
  PROVE  IsEvidence(Stored[a])
BY TopologyAssumption DEF MapInv, Stored

LEMMA AuditsShownIs ==
  ASSUME MapInv, stage \in Working
  PROVE  IsSeq(AuditsShown)
<1>1. IsSeq(<<mapping>>)
  BY DEF IsSeq, ToSet
<1> QED BY <1>1 DEF MapInv, AuditsShown

LEMMA StageDocuments ==
  ASSUME TopoInv, MapInv, stage \in Working
  PROVE  /\ IsSeq(Documents("trace")) /\ \A i \in DOMAIN Documents("trace") : IsTrace(Documents("trace")[i])
         /\ IsSeq(Documents("snmp")) /\ \A i \in DOMAIN Documents("snmp") : IsSnmp(Documents("snmp")[i])
         /\ IsSeq(Documents("ssh")) /\ \A i \in DOMAIN Documents("ssh") : IsSsh(Documents("ssh")[i])
<1>1. artifacts \in Seq(Artifact) /\ IsSeq(AuditsShown)
  BY AuditsShownIs DEF TopoInv
<1>2. IsSeq(Documents("trace")) /\ \A i \in DOMAIN Documents("trace") : IsDocument("trace", Documents("trace")[i])
  BY <1>1, DocumentsAre
<1>3. IsSeq(Documents("snmp")) /\ \A i \in DOMAIN Documents("snmp") : IsDocument("snmp", Documents("snmp")[i])
  BY <1>1, DocumentsAre
<1>4. IsSeq(Documents("ssh")) /\ \A i \in DOMAIN Documents("ssh") : IsDocument("ssh", Documents("ssh")[i])
  BY <1>1, DocumentsAre
<1> QED BY <1>2, <1>3, <1>4 DEF IsDocument

\* The stages that read what devices gave up: they only add to the map.
LEMMA DeviceStepGrows ==
  ASSUME TopoInv, MapInv, Snmp \/ SnmpExtended \/ Ssh \/ GuardRoles \/ Findings
  PROVE  Grown(drawing, drawing')
<1>1. Graph(drawing) /\ stage \in Working
  BY DEF MapInv, Working, Snmp, SnmpExtended, Ssh, GuardRoles, Findings
<1>2. CASE Snmp
  BY <1>1, <1>2, StageDocuments, DecorateSnmpTopologyGrows DEF Snmp, Decorated
<1>3. CASE SnmpExtended
  BY <1>1, <1>3, StageDocuments, DecorateSnmpExtendedTopologyGrows DEF SnmpExtended, Decorated
<1>4. CASE Ssh
  BY <1>1, <1>4, StageDocuments, DecorateSshManagementGrows DEF Ssh, Decorated
<1>5. CASE GuardRoles
  BY <1>1, <1>5, GuardSnmpRouterRolesGrows, ExtendedGrown DEF GuardRoles, Decorated
<1>6. CASE Findings
  BY <1>1, <1>6, DecorateFindingsGrows, ExtendedGrown DEF Findings, Decorated
<1> QED BY <1>2, <1>3, <1>4, <1>5, <1>6

LEMMA MapStep ==
  ASSUME TopoInv, MapInv, [TopoNext]_topoVars
  PROVE  MapInv'
<1>1. /\ \A a \in MapAudits : evidence[a] \in DOMAIN EvidenceOf[a]
      /\ mapping \in MapAudits \cup {"global"}
  BY DEF MapInv, TopoInv
<1>2. CASE UNCHANGED topoVars \/ \E a \in MapAudits, d \in Results, r \in BOOLEAN : SaveResult(a, d, r)
  <2>1. UNCHANGED <<evidence, mapping, stage, drawing>>
    BY <1>2 DEF topoVars, SaveResult
  <2> QED BY <2>1 DEF MapInv
<1>3. CASE Build
  <2>1. Graph(drawing') /\ Sensed(drawing')
    BY <1>1, <1>3, StoredIs, SegmentedTopologyIs DEF Build, Decorated
  <2>2. SensorId(drawing'.interface) \in Ids(drawing')
    BY <2>1 DEF Sensed, Ids
  <2>3. stage' = "gateway" /\ evidence' = evidence /\ mapping' = mapping /\ mapping # "global"
    BY <1>3 DEF Build, Decorated
  <2> QED BY <1>1, <2>1, <2>2, <2>3 DEF MapInv, Working
<1>4. CASE BuildFails
  <2>1. stage' = "failed" /\ UNCHANGED <<evidence, drawing, mapping>> /\ stage = "build"
    BY <1>4 DEF BuildFails
  <2> QED BY <1>1, <2>1 DEF MapInv, Working
<1>5. CASE BuildGlobal
  <2>1. Global(drawing') /\ IsSeq(drawing'.audits)
    BY <1>5, StoredIs, GlobalTopologyIs DEF BuildGlobal
  <2>2. stage' = "routing" /\ evidence' = evidence /\ mapping' = mapping
    BY <1>5 DEF BuildGlobal
  <2> QED BY <1>1, <2>1, <2>2 DEF MapInv, Working, Global
\* a stage that keeps the map a graph, with the audits it names
<1>6. ASSUME stage \in Working, stage' \in Working, evidence' = evidence, mapping' = mapping,
             Kept(drawing, drawing'), stage' # "gateway", stage' = "findings" => mapping # "global",
             stage' = "routing" => mapping # "global", stage' = "upstream" => Drawn(drawing')
      PROVE  MapInv'
  <2>1. Graph(drawing') /\ drawing'.audits = drawing.audits
    BY <1>6 DEF Kept
  <2> QED BY <1>1, <1>6, <2>1 DEF MapInv
<1>7. CASE InterfaceGateways
  <2>1. /\ stage = "gateway" /\ stage' = "routing" /\ evidence' = evidence /\ mapping' = mapping
        /\ drawing' = DecorateInterfaceGateway(drawing, Stored[mapping])
    BY <1>7 DEF InterfaceGateways, Decorated
  <2>2. Graph(drawing) /\ SensorId(drawing.interface) \in Ids(drawing) /\ mapping \in MapAudits
    BY <1>1, <2>1 DEF MapInv, Working
  <2>3. Kept(drawing, drawing')
    BY <2>1, <2>2, StoredIs, DecorateInterfaceGatewayKeeps
  <2>4. mapping # "global"
    BY <2>1 DEF MapInv
  <2> QED BY <1>6, <2>1, <2>3, <2>4 DEF Working
<1>8. CASE Routing
  <2>1. /\ stage = "routing" /\ stage' = "upstream" /\ evidence' = evidence /\ mapping' = mapping
        /\ drawing' = IF mapping = "global" THEN DecorateGlobalRouting(drawing) ELSE DecorateRoutedTopology(drawing)
    BY <1>8 DEF Routing, Decorated
  <2>2. Graph(drawing) /\ (mapping = "global" => Drawn(drawing))
    BY <2>1 DEF MapInv, Working
  <2>3. Kept(drawing, drawing') /\ Drawn(drawing')
    <3>1. CASE mapping = "global"
      <4>1. Extended(drawing, drawing')
        BY <2>1, <2>2, <3>1, DecorateGlobalRoutingGrows
      <4> QED BY <2>2, <3>1, <4>1, ExtendedDrawn
    <3>2. CASE mapping # "global"
      BY <2>1, <2>2, <3>2, DecorateRoutedTopologyKeeps
    <3> QED BY <3>1, <3>2
  <2> QED BY <1>6, <2>1, <2>3 DEF Working
<1>9. CASE Upstream
  <2>1. /\ stage = "upstream" /\ stage' = "snmp" /\ evidence' = evidence /\ mapping' = mapping
        /\ drawing' = DecorateUpstreamTopology(drawing, Documents("trace"))
    BY <1>9 DEF Upstream, Decorated
  <2>2. Graph(drawing) /\ Drawn(drawing) /\ stage \in Working
    BY <2>1 DEF MapInv, Working
  <2>3. Kept(drawing, drawing')
    BY <2>1, <2>2, StageDocuments, DecorateUpstreamTopologyKeeps
  <2> QED BY <1>6, <2>1, <2>3 DEF Working
<1>10. CASE Snmp \/ SnmpExtended \/ Ssh \/ GuardRoles \/ Findings
  <2>1. Kept(drawing, drawing')
    BY <1>10, DeviceStepGrows DEF Grown
  <2>2. /\ stage \in {"snmp", "extended", "ssh", "guard", "findings"} /\ evidence' = evidence /\ mapping' = mapping
        /\ stage' \in {"extended", "ssh", "guard", "findings", "health"}
        /\ stage' = "findings" => mapping # "global"
    BY <1>10 DEF Snmp, SnmpExtended, Ssh, GuardRoles, Findings, Decorated
  <2> QED BY <1>6, <2>1, <2>2 DEF Working
<1>11. CASE SourceHealth
  <2>1. drawing' = NoMap /\ evidence' = evidence /\ stage' \in {"build", "done"}
    BY <1>11 DEF SourceHealth
  <2> QED BY <1>1, <2>1 DEF MapInv, Working
<1> QED BY <1>2, <1>3, <1>4, <1>5, <1>7, <1>8, <1>9, <1>10, <1>11 DEF TopoNext

LEMMA MapInvariant == TopoSpec => [](TopoInv /\ MapInv)
<1>1. TopoInit => MapInv
  <2> SUFFICES ASSUME TopoInit PROVE MapInv
    OBVIOUS
  <2>1. (\A a \in MapAudits : evidence[a] \in DOMAIN EvidenceOf[a]) /\ stage = "build" /\ drawing = NoMap
    BY DEF TopoInit
  <2> QED BY <2>1 DEF MapInv, Working
<1>2. TopoInv /\ MapInv /\ [TopoNext]_topoVars => MapInv'
  BY MapStep
<1> QED BY <1>1, <1>2, TopoInvariant, PTL DEF TopoSpec

\* Every stage of every request leaves a graph, for all evidence, all results that
\* are saved meanwhile and all limits: identifiers are unique and of their kind,
\* edges join nodes of the map, the gateways a segment lists are addresses of
\* nodes, and the views show no edge whose end they hide (topology/*.py).
THEOREM MapsAreConnected == TopoSpec => []MapConnected
<1>1. TopoInv /\ MapInv => MapConnected
  <2> SUFFICES ASSUME TopoInv, MapInv PROVE MapConnected
    OBVIOUS
  <2>1. \A x \in DOMAIN finished : finished[x] # NoMap =>
          EndsOf(finished[x].view.edges) \subseteq finished[x].view.nodes
    BY DEF TopoInv, Honest
  <2>2. ASSUME drawing # NoMap
        PROVE  /\ Labelled(drawing) /\ Distinct(drawing.nodes) /\ Distinct(drawing.segments)
               /\ \A d \in ToSet(drawing.edges) : {d.source, d.target} \subseteq Ids(drawing)
               /\ \A s \in ToSet(drawing.segments) : \A g \in s.gateways :
                    \E n \in ToSet(drawing.nodes) : g \in Bare(n)
    <3>1. Graph(drawing)
      BY <2>2 DEF MapInv
    <3>2. Labelled(drawing)
      BY <3>1 DEF Graph, Proper, Labelled
    <3>3. Distinct(drawing.nodes) /\ Distinct(drawing.segments)
      BY <3>1 DEF Graph
    <3>4. \A d \in ToSet(drawing.edges) : {d.source, d.target} \subseteq Ids(drawing)
      BY <3>1 DEF Graph, Joined, ToSet
    <3>5. \A s \in ToSet(drawing.segments) : \A g \in s.gateways : \E n \in ToSet(drawing.nodes) : g \in Bare(n)
      BY <3>1 DEF Graph, Held, ToSet
    <3> QED BY <3>2, <3>3, <3>4, <3>5
  <2> QED BY <2>1, <2>2 DEF MapConnected
<1> QED BY <1>1, MapInvariant, PTL

\* Results read from devices, the guard and the findings take nothing away: every
\* node stays, with its addresses, names and MACs; every edge stays; every segment
\* stays with the gateways it lists, and a new segment lists none (snmp.py,
\* snmp_extended.py, ssh_management.py, snmp_role_guard.py, findings.py).
THEOREM DevicesOnlyAdd ==
  TopoSpec => [][Snmp \/ SnmpExtended \/ Ssh \/ GuardRoles \/ Findings => Grown(drawing, drawing')]_topoVars
<1>1. TopoInv /\ MapInv /\ [TopoNext]_topoVars
        => [Snmp \/ SnmpExtended \/ Ssh \/ GuardRoles \/ Findings => Grown(drawing, drawing')]_topoVars
  BY DeviceStepGrows
<1> QED BY <1>1, MapInvariant, PTL DEF TopoSpec

-----------------------------------------------------------------------------
\* The lowest of some addresses, as StableNodeKey takes it, is one of them.
Lowest(ips) == AddressOrder[SelectInSeq(AddressOrder, LAMBDA x : x \in ips)]

LEMMA LowestAddress ==
  ASSUME NEW ips, ips \subseteq IpAddress, ips # {}
  PROVE  Lowest(ips) \in ips
<1> DEFINE places == {i \in 1 .. Len(AddressOrder) : AddressOrder[i] \in ips}
<1>1. AddressOrder \in Seq(IpAddress)
  BY TopologyAssumption
<1>2. places # {}
  <2>1. PICK ip \in ips : ip \in IpAddress
    OBVIOUS
  <2>2. PICK i \in DOMAIN AddressOrder : AddressOrder[i] = ip
    BY <2>1 DEF IpAddress, ToSet
  <2> QED BY <1>1, <2>1, <2>2
<1>3. places \in SUBSET Nat
  BY <1>1
<1>4. \E n \in places : \A m \in places : n <= m
  <2> HIDE DEF places
  <2> QED BY <1>2, <1>3, LeastOf
<1>5. Min(places) \in places
  <2> HIDE DEF places
  <2> QED BY <1>4 DEF Min
<1>6. Lowest(ips) = AddressOrder[Min(places)]
  BY <1>2 DEF Lowest, SelectInSeq
<1>7. AddressOrder[Min(places)] \in ips
  BY <1>5
<1> QED BY <1>6, <1>7

\* What a node is known by across audits.
LEMMA StableKeys ==
  ASSUME NEW n, NEW side
  PROVE  \/ IsSegment(n) /\ StableNodeKey(n, side) = <<"segment", n.id[2]>>
         \/ n.mac # {} /\ StableNodeKey(n, side) = <<"mac", n.mac>>
         \/ \E ip \in KnownAddresses(n) : StableNodeKey(n, side) = <<"ip", ip>>
         \/ n.kind = "wirescope" /\ n.id[1] = "wirescope" /\ StableNodeKey(n, side) = n.id
         \/ StableNodeKey(n, side) = <<"opaque", side, n.id>>
<1>1. PICK ips : ips = KnownAddresses(n)
  OBVIOUS
<1>2. PICK ip : ip = Lowest(ips)
  OBVIOUS
<1>3. StableNodeKey(n, side) = IF IsSegment(n) THEN <<"segment", n.id[2]>>
                               ELSE IF n.mac # {} THEN <<"mac", n.mac>>
                               ELSE IF ips # {} THEN <<"ip", ip>>
                               ELSE IF n.kind = "wirescope" /\ n.id[1] = "wirescope" THEN n.id
                               ELSE <<"opaque", side, n.id>>
  BY <1>1, <1>2 DEF StableNodeKey, Lowest, SelectInSeq
<1>4. ips # {} => ip \in KnownAddresses(n)
  <2>1. ips \subseteq IpAddress
    BY <1>1 DEF KnownAddresses
  <2> QED BY <1>1, <1>2, <2>1, LowestAddress
<1> QED BY <1>1, <1>3, <1>4

\* A node of a snapshot is a node of the map, known by its key or on its side only.
LEMMA SnapshotNodes ==
  ASSUME NEW t, NEW side, NEW p \in NodeSnapshot(t, side).nodes
  PROVE  \E i \in DOMAIN t.nodes :
           /\ p[2] = t.nodes[i]
           /\ p[1] = StableNodeKey(p[2], side) \/ p[1] = <<"duplicate", side, p[2].id>>
<1> DEFINE shown == {i \in DOMAIN t.nodes : t.nodes[i].kind \notin {"multicast-group", "route-gap"}}
           plain(i) == StableNodeKey(t.nodes[i], side)
           key(i) == IF \E j \in shown : j < i /\ plain(j) = plain(i)
                     THEN <<"duplicate", side, t.nodes[i].id>> ELSE plain(i)
<1>1. NodeSnapshot(t, side).nodes = {<<key(i), t.nodes[i]>> : i \in shown}
  BY Zenon DEF NodeSnapshot
<1>2. PICK i \in shown : p = <<key(i), t.nodes[i]>>
  BY <1>1
<1>3. p[1] = key(i) /\ p[2] = t.nodes[i]
  BY <1>2
<1>4. key(i) = plain(i) \/ key(i) = <<"duplicate", side, t.nodes[i].id>>
  OBVIOUS
<1>5. plain(i) = StableNodeKey(p[2], side)
  BY <1>3
<1> HIDE DEF key, plain
<1> QED BY <1>3, <1>4, <1>5

\* What two nodes have in common when they are one thing seen twice.
Common(n, m) ==
    \/ n.mac \cap m.mac # {}
    \/ KnownAddresses(n) \cap KnownAddresses(m) # {}
    \/ IsSegment(n) /\ IsSegment(m) /\ n.id[2] = m.id[2]
    \/ n.kind = "wirescope" /\ n.id = m.id

\* Two nodes of two sides have the same key only when they have something in common.
LEMMA SameKeySameThing ==
  ASSUME NEW t, NEW u,
         NEW p \in NodeSnapshot(t, "baseline").nodes, NEW q \in NodeSnapshot(u, "current").nodes,
         p[1] = q[1]
  PROVE  Common(p[2], q[2])
<1>1. PICK n, m, k : n = p[2] /\ m = q[2] /\ k = p[1] /\ k = q[1]
  OBVIOUS
<1>2. /\ k = StableNodeKey(n, "baseline") \/ k = <<"duplicate", "baseline", n.id>>
      /\ k = StableNodeKey(m, "current") \/ k = <<"duplicate", "current", m.id>>
  BY <1>1, SnapshotNodes
<1> DEFINE Known(x, side) ==
             \/ IsSegment(x) /\ k = <<"segment", x.id[2]>>
             \/ x.mac # {} /\ k = <<"mac", x.mac>>
             \/ \E ip \in KnownAddresses(x) : k = <<"ip", ip>>
             \/ x.kind = "wirescope" /\ k[1] = "wirescope" /\ k = x.id
             \/ k = <<"opaque", side, x.id>>
             \/ k = <<"duplicate", side, x.id>>
<1>3. Known(n, "baseline")
  BY <1>2, StableKeys
<1>4. Known(m, "current")
  BY <1>2, StableKeys
<1>5. CASE IsSegment(n) /\ k = <<"segment", n.id[2]>>
  <2>1. IsSegment(m) /\ k = <<"segment", m.id[2]>>
    BY <1>4, <1>5
  <2> QED BY <1>1, <1>5, <2>1 DEF Common
<1>6. CASE n.mac # {} /\ k = <<"mac", n.mac>>
  <2>1. k[1] = "mac" /\ k[2] = n.mac
    BY <1>6
  <2>2. m.mac = n.mac
    BY <1>4, <2>1
  <2> QED BY <1>1, <1>6, <2>2 DEF Common
<1>7. CASE \E ip \in KnownAddresses(n) : k = <<"ip", ip>>
  <2>1. PICK ip \in KnownAddresses(n) : k = <<"ip", ip>>
    BY <1>7
  <2>2. ip \in KnownAddresses(m)
    BY <1>4, <2>1
  <2> QED BY <1>1, <2>1, <2>2 DEF Common
<1>8. CASE n.kind = "wirescope" /\ k[1] = "wirescope" /\ k = n.id
  <2>1. k = m.id
    BY <1>4, <1>8
  <2> QED BY <1>1, <1>8, <2>1 DEF Common
<1>9. CASE k = <<"opaque", "baseline", n.id>> \/ k = <<"duplicate", "baseline", n.id>>
  <2>1. k[1] \in {"opaque", "duplicate"} /\ k[2] = "baseline"
    BY <1>9
  <2>2. FALSE
    BY <1>4, <2>1
  <2> QED BY <2>2
<1> QED BY <1>3, <1>5, <1>6, <1>7, <1>8, <1>9

\* compare.py never invents continuity, whatever the two maps are: two nodes
\* reported as the same one share a MAC address or an address, are the same network
\* or the same sensor, and a key met again on one side is never matched.
THEOREM ComparisonsInventNothing == TopoSpec => []NoInventedContinuity
<1>1. NoInventedContinuity
  <2> SUFFICES ASSUME NEW p \in CompareTopologies(finished[BaselineAudit].map,
                                                  finished[CurrentAudit].map).same
               PROVE  Common(p[1], p[2])
    BY DEF NoInventedContinuity, Common
  <2>1. PICK t, u : t = finished[BaselineAudit].map /\ u = finished[CurrentAudit].map
    OBVIOUS
  <2> DEFINE left == NodeSnapshot(t, "baseline")
             right == NodeSnapshot(u, "current")
             pairs == {uv \in left.nodes \X right.nodes : uv[1][1] = uv[2][1]}
  <2>2. CompareTopologies(t, u).same = {<<pq[1][2], pq[2][2]>> : pq \in pairs}
    BY Zenon DEF CompareTopologies
  <2>3. PICK pq \in pairs : p = <<pq[1][2], pq[2][2]>>
    BY <2>1, <2>2
  <2>4. PICK v, w : v = pq[1] /\ w = pq[2]
    OBVIOUS
  <2>5. v \in left.nodes /\ w \in right.nodes /\ v[1] = w[1]
    BY <2>3, <2>4
  <2>6. Common(v[2], w[2])
    BY <2>5, SameKeySameThing
  <2>7. p[1] = v[2] /\ p[2] = w[2]
    BY <2>3, <2>4
  <2> HIDE DEF left, right, pairs
  <2> QED BY <2>6, <2>7
<1> QED BY <1>1, PTL
=============================================================================
