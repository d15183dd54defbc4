---------------------------- MODULE GraphProofs ----------------------------
(***************************************************************************)
(* What the decorators of a map keep (TopologyGraph, TopologyDevices): a   *)
(* map stays a graph.  Each operation has a lemma; each loop of the code   *)
(* is a fold, and what it keeps follows from its body by FoldInduction.    *)
(***************************************************************************)
EXTENDS TopologyDevices, FiniteSetTheorems, WellFoundedInduction, TLAPS

\* A set of numbers that is not empty has a least one.
LEMMA LeastOf ==
  ASSUME NEW S \in SUBSET Nat, S # {}
  PROVE  \E n \in S : \A m \in S : n <= m
<1> DEFINE R == OpToRel(<, Nat)
<1>1. IsWellFoundedOn(R, Nat)
  BY NatLessThanWellFounded
<1>2. PICK n \in S : \A y \in S : ~(<<y, n>> \in R)
  <2> HIDE DEF R
  <2> QED BY <1>1, WFMin
<1>3. ASSUME NEW m \in S PROVE n <= m
  <2>1. m \in Nat /\ n \in Nat
    OBVIOUS
  <2>2. <<m, n>> \notin R
    BY <1>2
  <2>3. ~(m < n)
    BY <2>1, <2>2 DEF OpToRel
  <2> QED BY <2>1, <2>3
<1> QED BY <1>3

LEMMA MinIs ==
  ASSUME NEW S \in SUBSET Nat, S # {}
  PROVE  Min(S) \in S /\ \A y \in S : Min(S) <= y
<1>1. \E x \in S : \A y \in S : x <= y
  BY LeastOf
<1> QED BY <1>1 DEF Min

LEMMA MaxIs ==
  ASSUME NEW n \in Nat, NEW S \in SUBSET (1..n), S # {}
  PROVE  Max(S) \in S /\ \A y \in S : Max(S) >= y
<1> DEFINE T == {n - x : x \in S}
<1>1. T \in SUBSET Nat /\ T # {}
  <2>1. \A x \in S : n - x \in Nat
    OBVIOUS
  <2> QED BY <2>1
<1>2. PICK z \in T : \A y \in T : z <= y
  BY <1>1, LeastOf
<1>3. PICK x \in S : z = n - x
  OBVIOUS
<1>4. ASSUME NEW y \in S PROVE x >= y
  <2>1. n - y \in T
    OBVIOUS
  <2>2. n - x <= n - y
    BY <1>2, <1>3, <2>1
  <2> QED BY <2>2
<1>5. \E w \in S : \A y \in S : w >= y
  BY <1>4
<1> QED BY <1>5 DEF Max

-----------------------------------------------------------------------------
\* Sequences.

LEMMA SeqShape ==
  ASSUME NEW s, IsSeq(s)
  PROVE  Len(s) \in Nat /\ DOMAIN s = 1..Len(s)
BY DEF IsSeq

LEMMA SeqMade ==
  ASSUME NEW n \in Nat, NEW s, s = [i \in 1..n |-> s[i]]
  PROVE  IsSeq(s) /\ Len(s) = n /\ DOMAIN s = 1..n
<1>1. s \in [1..n -> ToSet(s)]
  BY DEF ToSet
<1> QED BY <1>1 DEF IsSeq

LEMMA SeqTyped ==
  ASSUME NEW S, NEW s, s \in Seq(S)
  PROVE  IsSeq(s) /\ \A i \in DOMAIN s : s[i] \in S
<1>1. Len(s) \in Nat /\ DOMAIN s = 1..Len(s) /\ \A i \in DOMAIN s : s[i] \in S
  OBVIOUS
<1>2. s = [i \in 1..Len(s) |-> s[i]]
  BY <1>1
<1> QED BY <1>1, <1>2, SeqMade

LEMMA SeqAppend ==
  ASSUME NEW s, IsSeq(s), NEW x
  PROVE  /\ IsSeq(Append(s, x)) /\ DOMAIN Append(s, x) = DOMAIN s \cup {Len(s) + 1}
         /\ \A i \in DOMAIN s : Append(s, x)[i] = s[i]
         /\ Append(s, x)[Len(s) + 1] = x /\ Len(s) + 1 \notin DOMAIN s
<1>1. Len(s) \in Nat /\ DOMAIN s = 1..Len(s) /\ s \in Seq(ToSet(s) \cup {x})
  BY DEF IsSeq, ToSet
<1>2. /\ DOMAIN Append(s, x) = 1..(Len(s) + 1) /\ \A i \in 1..Len(s) : Append(s, x)[i] = s[i]
      /\ Append(s, x)[Len(s) + 1] = x /\ Append(s, x) \in Seq(ToSet(s) \cup {x})
  BY <1>1
<1>4. IsSeq(Append(s, x))
  BY <1>2, SeqTyped
<1> QED BY <1>1, <1>2, <1>4

LEMMA SeqConcat ==
  ASSUME NEW s, NEW t, IsSeq(s), IsSeq(t)
  PROVE  IsSeq(s \o t) /\ ToSet(s \o t) = ToSet(s) \cup ToSet(t)
<1> DEFINE n == Len(s) + Len(t)
<1>1. /\ Len(s) \in Nat /\ DOMAIN s = 1..Len(s) /\ Len(t) \in Nat /\ DOMAIN t = 1..Len(t)
      /\ s \in Seq(ToSet(s) \cup ToSet(t)) /\ t \in Seq(ToSet(s) \cup ToSet(t))
  BY DEF IsSeq, ToSet
<1>2. /\ DOMAIN (s \o t) = 1..n
      /\ \A i \in 1..n : (s \o t)[i] = IF i <= Len(s) THEN s[i] ELSE t[i - Len(s)]
      /\ s \o t \in Seq(ToSet(s) \cup ToSet(t))
  BY <1>1
<1>4. IsSeq(s \o t)
  BY <1>2, SeqTyped
<1>5. ASSUME NEW x \in ToSet(s \o t) PROVE x \in ToSet(s) \cup ToSet(t)
  BY <1>1, <1>2, <1>5 DEF ToSet
<1>6. ASSUME NEW x \in ToSet(s) PROVE x \in ToSet(s \o t)
  <2>1. PICK i \in 1..Len(s) : x = s[i]
    BY <1>1 DEF ToSet
  <2>2. i \in 1..n /\ (s \o t)[i] = x
    BY <1>1, <1>2, <2>1
  <2> QED BY <1>2, <2>2 DEF ToSet
<1>7. ASSUME NEW x \in ToSet(t) PROVE x \in ToSet(s \o t)
  <2>1. PICK i \in 1..Len(t) : x = t[i]
    BY <1>1 DEF ToSet
  <2>2. Len(s) + i \in 1..n /\ (s \o t)[Len(s) + i] = x
    BY <1>1, <1>2, <2>1
  <2> QED BY <1>2, <2>2 DEF ToSet
<1> QED BY <1>4, <1>5, <1>6, <1>7

\* The first or the last position that passes a test.
Selection(I) == IF I # {} THEN Min(I) ELSE 0
LastSelection(I) == IF I # {} THEN Max(I) ELSE 0

LEMMA SelectionIs ==
  ASSUME NEW n \in Nat, NEW I \in SUBSET (1..n)
  PROVE  /\ Selection(I) \in I \cup {0} /\ (Selection(I) = 0 <=> I = {})
         /\ LastSelection(I) \in I \cup {0} /\ (LastSelection(I) = 0 <=> I = {})
<1>1. I \in SUBSET Nat /\ 0 \notin I
  OBVIOUS
<1> QED BY <1>1, MinIs, MaxIs DEF Selection, LastSelection

\* The numbers of a set, in order, are the numbers of the set.
LEMMA AscendingIs ==
  ASSUME NEW n \in Nat, NEW I \in SUBSET (1..n)
  PROVE  /\ IsSeq(Ascending(I))
         /\ \A k \in DOMAIN Ascending(I) : Ascending(I)[k] \in I
         /\ \A i \in I : \E k \in DOMAIN Ascending(I) : Ascending(I)[k] = i
         /\ \A k, l \in DOMAIN Ascending(I) : Ascending(I)[k] = Ascending(I)[l] => k = l
<1> DEFINE rank(i) == Cardinality({j \in I : j <= i})
           m == Cardinality(I)
           f == [i \in I |-> rank(i)]
           A == Ascending(I)
<1>1. IsFiniteSet(I) /\ m \in Nat
  <2>1. IsFiniteSet(1..n)
    BY FS_Interval
  <2>2. IsFiniteSet(I)
    BY <2>1, FS_Subset
  <2> QED BY <2>2, FS_CardinalityType
<1>2. ASSUME NEW i \in I PROVE rank(i) \in 1..m /\ IsFiniteSet({j \in I : j <= i})
  <2> DEFINE S == {j \in I : j <= i}
  <2>1. S \in SUBSET I /\ i \in S
    OBVIOUS
  <2> HIDE DEF S
  <2>2. IsFiniteSet(S) /\ Cardinality(S) <= m
    BY <1>1, <2>1, FS_Subset
  <2>3. Cardinality(S) \in Nat /\ Cardinality(S) # 0
    BY <2>1, <2>2, FS_CardinalityType, FS_EmptySet
  <2>4. Cardinality(S) \in 1..m
    BY <1>1, <2>2, <2>3
  <2> QED BY <2>2, <2>4 DEF S
<1>3. ASSUME NEW i \in I, NEW j \in I, rank(i) = rank(j), i < j PROVE FALSE
  <2> DEFINE S == {h \in I : h <= i}
             T == {h \in I : h <= j}
  <2>0. i \in Int /\ j \in Int /\ \A h \in I : h \in Int
    OBVIOUS
  <2>1. \A h \in I : h <= i => h <= j
    BY <1>3, <2>0
  <2>5. \A h \in S : h \in T
    BY <2>1
  <2>6. j \in T /\ j \notin S
    BY <1>3, <2>0
  <2>4. S \in SUBSET T /\ j \in T /\ j \notin S
    <3> HIDE DEF S, T
    <3> QED BY <2>5, <2>6
  <2>2. IsFiniteSet(T)
    BY <1>2
  <2>3. Cardinality(T) = Cardinality(S)
    BY <1>3
  <2> HIDE DEF S, T
  <2> QED BY <2>4, <2>2, <2>3, FS_Subset
<1>4. \A i, j \in I : rank(i) = rank(j) => i = j
  <2>1. \A i, j \in I : i \in Int /\ j \in Int
    OBVIOUS
  <2> HIDE DEF rank
  <2> QED BY <1>3, <2>1
<1>5. f \in Injection(I, 1..m)
  <2>1. f \in [I -> 1..m]
    BY <1>2
  <2>2. \A i, j \in I : f[i] = f[j] => i = j
    BY <1>4
  <2> HIDE DEF f
  <2> QED BY <2>1, <2>2 DEF Injection, IsInjective
<1>6. f \in Surjection(I, 1..m)
  <2>1. IsFiniteSet(1..m) /\ Cardinality(1..m) = m
    BY <1>1, FS_Interval
  <2> HIDE DEF f
  <2> QED BY <1>5, <2>1, FS_Injection
<1>7. \A k \in 1..m : \E i \in I : rank(i) = k
  <2>1. \A k \in 1..m : \E i \in I : f[i] = k
    <3> HIDE DEF f
    <3> QED BY <1>6 DEF Surjection
  <2> QED BY <2>1
<1>8. A = [k \in 1..m |-> CHOOSE i \in I : rank(i) = k]
  BY DEF Ascending
<1> HIDE DEF rank, A
<1>9. \A k \in 1..m : A[k] \in I /\ rank(A[k]) = k
  BY <1>7, <1>8
<1>10. A = [k \in 1..m |-> A[k]]
  BY <1>8
<1>11. IsSeq(A) /\ DOMAIN A = 1..m
  BY <1>1, <1>10, SeqMade
<1>12. \A i \in I : \E k \in DOMAIN A : A[k] = i
  <2> SUFFICES ASSUME NEW i \in I PROVE \E k \in DOMAIN A : A[k] = i
    OBVIOUS
  <2>1. rank(i) \in 1..m
    BY <1>2 DEF rank
  <2>2. A[rank(i)] \in I /\ rank(A[rank(i)]) = rank(i)
    BY <1>9, <2>1
  <2> QED BY <1>4, <1>11, <2>1, <2>2
<1>13. \A k, l \in DOMAIN A : A[k] = A[l] => k = l
  BY <1>9, <1>11
<1> QED BY <1>9, <1>11, <1>12, <1>13 DEF A

-----------------------------------------------------------------------------
\* Maps.
NodeFields == {"id", "kind", "roles", "addresses", "names", "mac", "segments", "connected",
               "provenance", "parent", "vlans", "findings"}
EdgeFields == {"source", "target", "relation", "provenance", "segment", "mapping", "key",
               "vlans", "port"}
SegmentFields == {"id", "network", "members", "gateways", "provenance"}
MapFields == {"audit", "interface", "nodes", "edges", "segments", "routers", "candidates",
              "overlay", "audits"}

\* A node: segments and sensors are labelled as such, an identifier made of an
\* address belongs to a node that holds the address, and a sensor's addresses
\* are inside their networks.
Proper(n) ==
    /\ DOMAIN n = NodeFields /\ n.id # NoNode
    /\ n.kind \in {"segment", "wirescope"} => n.id[1] = n.kind
    /\ n.id[1] \in {"endpoint", "group"} /\ n.id[2] \in IpAddress => n.id[2] \in Bare(n)
    /\ n.id[1] \in {"route-hop", "ssh-route-gateway"} => n.id[2] \in Bare(n)
    /\ n.kind = "wirescope" => \A a \in n.addresses : Placed(a)

Joined(t, e) == DOMAIN e = EdgeFields /\ e.source \in Ids(t) /\ e.target \in Ids(t)
Row(s) == DOMAIN s = SegmentFields /\ s.id = SegmentId(s.network) /\ IsFiniteSet(s.gateways)

Held(t, g) == \E i \in DOMAIN t.nodes : g \in Bare(t.nodes[i])

\* A map: nodes and segments with identifiers of their own, edges between nodes,
\* and every gateway that a segment lists is an address of a node.
Graph(t) ==
    /\ DOMAIN t = MapFields /\ IsSeq(t.nodes) /\ IsSeq(t.edges) /\ IsSeq(t.segments)
    /\ \A i \in DOMAIN t.nodes : Proper(t.nodes[i])
    /\ Distinct(t.nodes)
    /\ \A i \in DOMAIN t.edges : Joined(t, t.edges[i])
    /\ \A i \in DOMAIN t.segments : Row(t.segments[i])
    /\ Distinct(t.segments)
    /\ \A i \in DOMAIN t.segments : \A g \in t.segments[i].gateways : Held(t, g)

\* What a decorator may do to a node it finds: m before, n after.
Later(m, n) ==
    /\ DOMAIN n = NodeFields /\ n.id = m.id /\ n.kind = m.kind
    /\ m.addresses \subseteq n.addresses /\ m.names \subseteq n.names /\ m.mac \subseteq n.mac
    /\ \A a \in n.addresses : a \in m.addresses \/ Placed(a)

\* t is a map, and every node of b is in it.
Kept(b, t) ==
    /\ Graph(t) /\ t.interface = b.interface /\ t.audits = b.audits
    /\ \A i \in DOMAIN b.nodes : \E j \in DOMAIN t.nodes : Later(b.nodes[i], t.nodes[j])

\* So is every edge and every segment, with the gateways it lists; and no other
\* segment lists any.
SameEdge(d, e) == e.source = d.source /\ e.target = d.target /\ e.relation = d.relation
Listed(b, s) ==
    \/ s.gateways = {}
    \/ \E j \in DOMAIN b.segments : b.segments[j].id = s.id /\ b.segments[j].gateways = s.gateways
SameSegment(r, s) == s.id = r.id /\ s.gateways = r.gateways
Grown(b, t) ==
    /\ Kept(b, t)
    /\ \A i \in DOMAIN b.segments : \E j \in DOMAIN t.segments : SameSegment(b.segments[i], t.segments[j])
    /\ \A i \in DOMAIN b.edges : \E j \in DOMAIN t.edges : SameEdge(b.edges[i], t.edges[j])
    /\ \A i \in DOMAIN t.segments : Listed(b, t.segments[i])

\* Nor are there more segments.
Extended(b, t) == Grown(b, t) /\ t.segments = b.segments

LEMMA LaterProper ==
  ASSUME NEW m, NEW n, Proper(m), Later(m, n)
  PROVE  Proper(n)
<1>1. Bare(m) \subseteq Bare(n)
  BY DEF Bare, Later
<1>2. n.id = m.id /\ n.kind = m.kind /\ DOMAIN n = NodeFields
  BY DEF Later
<1>3. n.kind = "wirescope" => \A a \in n.addresses : Placed(a)
  BY DEF Later, Proper
<1> QED BY <1>1, <1>2, <1>3 DEF Proper

LEMMA LaterBare ==
  ASSUME NEW m, NEW n, Later(m, n)
  PROVE  Bare(m) \subseteq Bare(n)
BY DEF Bare, Later

LEMMA LaterSelf ==
  ASSUME NEW n, Proper(n)
  PROVE  Later(n, n)
BY DEF Later, Proper

LEMMA LaterTrans ==
  ASSUME NEW m, NEW n, NEW o, Later(m, n), Later(n, o)
  PROVE  Later(m, o)
BY DEF Later

LEMMA GrownSelf ==
  ASSUME NEW t, Graph(t)
  PROVE  Grown(t, t)
<1>1. \A i \in DOMAIN t.nodes : Later(t.nodes[i], t.nodes[i])
  BY LaterSelf DEF Graph
<1> QED BY <1>1 DEF Grown, Kept, SameEdge, SameSegment, Listed

LEMMA KeptTrans ==
  ASSUME NEW a, NEW b, NEW c, Kept(a, b), Kept(b, c)
  PROVE  Kept(a, c)
<1>1. ASSUME NEW i \in DOMAIN a.nodes PROVE \E j \in DOMAIN c.nodes : Later(a.nodes[i], c.nodes[j])
  <2>1. PICK j \in DOMAIN b.nodes : Later(a.nodes[i], b.nodes[j])
    BY DEF Kept
  <2>2. PICK k \in DOMAIN c.nodes : Later(b.nodes[j], c.nodes[k])
    BY DEF Kept
  <2> QED BY <2>1, <2>2, LaterTrans
<1> QED BY <1>1 DEF Kept

LEMMA GrownTrans ==
  ASSUME NEW a, NEW b, NEW c, Grown(a, b), Grown(b, c)
  PROVE  Grown(a, c)
<1>1. Kept(a, c)
  BY KeptTrans DEF Grown
<1>2. ASSUME NEW i \in DOMAIN a.edges PROVE \E j \in DOMAIN c.edges : SameEdge(a.edges[i], c.edges[j])
  <2>1. PICK j \in DOMAIN b.edges : SameEdge(a.edges[i], b.edges[j])
    BY DEF Grown
  <2>2. PICK k \in DOMAIN c.edges : SameEdge(b.edges[j], c.edges[k])
    BY DEF Grown
  <2> QED BY <2>1, <2>2 DEF SameEdge
<1>3. ASSUME NEW i \in DOMAIN c.segments PROVE Listed(a, c.segments[i])
  <2>1. CASE c.segments[i].gateways = {}
    BY <2>1 DEF Listed
  <2>2. CASE c.segments[i].gateways # {}
    <3>1. PICK j \in DOMAIN b.segments : /\ b.segments[j].id = c.segments[i].id
                                          /\ b.segments[j].gateways = c.segments[i].gateways
      BY <2>2 DEF Grown, Listed
    <3>2. Listed(a, b.segments[j])
      BY DEF Grown
    <3> QED BY <2>2, <3>1, <3>2 DEF Listed
  <2> QED BY <2>1, <2>2
<1>4. ASSUME NEW i \in DOMAIN a.segments
      PROVE  \E j \in DOMAIN c.segments : SameSegment(a.segments[i], c.segments[j])
  <2>1. PICK j \in DOMAIN b.segments : SameSegment(a.segments[i], b.segments[j])
    BY DEF Grown
  <2>2. PICK k \in DOMAIN c.segments : SameSegment(b.segments[j], c.segments[k])
    BY DEF Grown
  <2> QED BY <2>1, <2>2 DEF SameSegment
<1> QED BY <1>1, <1>2, <1>3, <1>4 DEF Grown

LEMMA KeptIds ==
  ASSUME NEW b, NEW t, Kept(b, t)
  PROVE  Ids(b) \subseteq Ids(t) /\ Graph(t) /\ t.interface = b.interface
BY DEF Kept, Later, Ids

LEMMA GrownIds ==
  ASSUME NEW b, NEW t, Grown(b, t)
  PROVE  Ids(b) \subseteq Ids(t) /\ Graph(t) /\ t.interface = b.interface
BY KeptIds DEF Grown

LEMMA ExtendedSelf ==
  ASSUME NEW t, Graph(t)
  PROVE  Extended(t, t)
BY GrownSelf DEF Extended

LEMMA ExtendedTrans ==
  ASSUME NEW a, NEW b, NEW c, Extended(a, b), Extended(b, c)
  PROVE  Extended(a, c)
BY GrownTrans DEF Extended

LEMMA ExtendedIds ==
  ASSUME NEW b, NEW t, Extended(b, t)
  PROVE  Ids(b) \subseteq Ids(t) /\ Graph(t) /\ t.interface = b.interface
BY GrownIds DEF Extended

\* Nodes that a decorator changes in place.
LEMMA Renewed ==
  ASSUME NEW t, Graph(t), NEW u, DOMAIN u = MapFields, u.interface = t.interface, u.audits = t.audits,
         u.edges = t.edges, u.segments = t.segments,
         u.nodes = [i \in DOMAIN t.nodes |-> u.nodes[i]],
         \A i \in DOMAIN t.nodes : Later(t.nodes[i], u.nodes[i])
  PROVE  Extended(t, u) /\ Ids(u) = Ids(t)
<1>1. Len(t.nodes) \in Nat /\ DOMAIN t.nodes = 1..Len(t.nodes)
  BY SeqShape DEF Graph
<1>2. IsSeq(u.nodes) /\ DOMAIN u.nodes = DOMAIN t.nodes
  BY <1>1, SeqMade
<1>3. \A i \in DOMAIN t.nodes : u.nodes[i].id = t.nodes[i].id
  BY DEF Later
<1>4. Ids(u) = Ids(t)
  BY <1>2, <1>3 DEF Ids
<1>5. \A i \in DOMAIN u.nodes : Proper(u.nodes[i])
  BY <1>2, LaterProper DEF Graph
<1>6. Distinct(u.nodes)
  BY <1>2, <1>3 DEF Distinct, Graph
<1>9. \A g : Held(t, g) => Held(u, g)
  BY <1>2, LaterBare DEF Held
<1>7. Graph(u)
  BY <1>2, <1>4, <1>5, <1>6, <1>9 DEF Graph, Joined
<1>8. Kept(t, u)
  BY <1>2, <1>7 DEF Kept
<1> QED BY <1>4, <1>8 DEF Extended, Grown, SameEdge, SameSegment, Listed

\* One more node.
LEMMA AddNodeGrows ==
  ASSUME NEW t, Graph(t), NEW n, Proper(n), n.id \notin Ids(t)
  PROVE  Extended(t, AddNode(t, n)) /\ Ids(AddNode(t, n)) = Ids(t) \cup {n.id}
<1>1. PICK u : u = AddNode(t, n)
  OBVIOUS
<1>2. /\ DOMAIN u = MapFields /\ u.interface = t.interface /\ u.audits = t.audits
      /\ u.edges = t.edges /\ u.segments = t.segments /\ u.nodes = Append(t.nodes, n)
  BY <1>1 DEF AddNode, Graph, MapFields
<1>3. PICK k : k = Len(t.nodes) + 1
  OBVIOUS
<1>4. /\ IsSeq(u.nodes) /\ DOMAIN u.nodes = DOMAIN t.nodes \cup {k}
      /\ \A i \in DOMAIN t.nodes : u.nodes[i] = t.nodes[i]
      /\ u.nodes[k] = n /\ k \notin DOMAIN t.nodes
  BY <1>2, <1>3, SeqAppend DEF Graph
<1>5. Ids(u) = Ids(t) \cup {n.id}
  BY <1>4 DEF Ids
<1>6. \A i \in DOMAIN u.nodes : Proper(u.nodes[i])
  BY <1>4 DEF Graph
<1>7. Distinct(u.nodes)
  BY <1>4 DEF Distinct, Graph, Ids
<1>12. \A g : Held(t, g) => Held(u, g)
  BY <1>4 DEF Held
<1>8. Graph(u)
  BY <1>2, <1>4, <1>5, <1>6, <1>7, <1>12 DEF Graph, Joined
<1>9. \A i \in DOMAIN t.nodes : Later(t.nodes[i], u.nodes[i])
  BY <1>4, LaterSelf DEF Graph
<1>10. Kept(t, u)
  BY <1>2, <1>4, <1>8, <1>9 DEF Kept
<1>11. Extended(t, u)
  BY <1>2, <1>10 DEF Extended, Grown, SameEdge, SameSegment, Listed
<1> QED BY <1>1, <1>2, <1>5, <1>11

\* One more edge.
LEMMA PutEdgeGrows ==
  ASSUME NEW t, Graph(t), NEW e, Joined(t, e)
  PROVE  Extended(t, PutEdge(t, e))
<1>1. PICK u : u = PutEdge(t, e)
  OBVIOUS
<1>2. /\ DOMAIN u = MapFields /\ u.interface = t.interface /\ u.audits = t.audits
      /\ u.nodes = t.nodes /\ u.segments = t.segments /\ u.edges = Append(t.edges, e)
  BY <1>1 DEF PutEdge, Graph, MapFields
<1>3. PICK k : k = Len(t.edges) + 1
  OBVIOUS
<1>4. /\ IsSeq(u.edges) /\ DOMAIN u.edges = DOMAIN t.edges \cup {k}
      /\ \A i \in DOMAIN t.edges : u.edges[i] = t.edges[i]
      /\ u.edges[k] = e /\ k \notin DOMAIN t.edges
  BY <1>2, <1>3, SeqAppend DEF Graph
<1>5. Ids(u) = Ids(t)
  BY <1>2 DEF Ids
<1>6. Graph(u)
  BY <1>2, <1>4, <1>5 DEF Graph, Joined, Held
<1>7. Kept(t, u)
  BY <1>2, <1>6, LaterSelf DEF Kept, Graph
<1>8. \A i \in DOMAIN t.edges : SameEdge(t.edges[i], u.edges[i])
  BY <1>4 DEF SameEdge
<1>9. Extended(t, u)
  BY <1>2, <1>4, <1>7, <1>8 DEF Extended, Grown, SameSegment, Listed
<1> QED BY <1>1, <1>9

LEMMA PutKeyedGrows ==
  ASSUME NEW t, Graph(t), NEW e, Joined(t, e)
  PROVE  Extended(t, PutKeyed(t, e))
BY PutEdgeGrows, ExtendedSelf DEF PutKeyed

\* Edges that a decorator changes in place.
LEMMA Rewired ==
  ASSUME NEW t, Graph(t), NEW u, DOMAIN u = MapFields, u.interface = t.interface, u.audits = t.audits,
         u.nodes = t.nodes, u.segments = t.segments,
         u.edges = [i \in DOMAIN t.edges |-> u.edges[i]],
         \A i \in DOMAIN t.edges : DOMAIN u.edges[i] = EdgeFields /\ SameEdge(t.edges[i], u.edges[i])
  PROVE  Extended(t, u)
<1>1. Len(t.edges) \in Nat /\ DOMAIN t.edges = 1..Len(t.edges)
  BY SeqShape DEF Graph
<1>2. IsSeq(u.edges) /\ DOMAIN u.edges = DOMAIN t.edges
  BY <1>1, SeqMade
<1>3. Ids(u) = Ids(t)
  BY DEF Ids
<1>4. \A i \in DOMAIN u.edges : Joined(u, u.edges[i])
  BY <1>2, <1>3 DEF Joined, SameEdge, Graph
<1>5. Graph(u)
  BY <1>2, <1>3, <1>4 DEF Graph, Held
<1>6. Kept(t, u)
  BY <1>5, LaterSelf DEF Kept, Graph
<1> QED BY <1>2, <1>6 DEF Extended, Grown, SameSegment, Listed

\* What else a map records.
LEMMA Alike ==
  ASSUME NEW t, Graph(t), NEW u, DOMAIN u = MapFields, u.interface = t.interface, u.audits = t.audits,
         u.nodes = t.nodes, u.segments = t.segments, u.edges = t.edges
  PROVE  Extended(t, u)
<1>1. u.edges = [i \in DOMAIN t.edges |-> u.edges[i]]
  <2>1. Len(t.edges) \in Nat /\ DOMAIN t.edges = 1..Len(t.edges) /\ t.edges \in Seq(ToSet(t.edges))
    BY SeqShape DEF Graph, IsSeq
  <2> QED BY <2>1
<1>2. \A i \in DOMAIN t.edges : DOMAIN u.edges[i] = EdgeFields /\ SameEdge(t.edges[i], u.edges[i])
  BY DEF Graph, Joined, SameEdge
<1> QED BY <1>1, <1>2, Rewired

\* What a node holds stays held.
LEMMA HeldStays ==
  ASSUME NEW b, NEW t, Kept(b, t), NEW g, Held(b, g)
  PROVE  Held(t, g)
<1>1. PICK i \in DOMAIN b.nodes : g \in Bare(b.nodes[i])
  BY DEF Held
<1>2. PICK j \in DOMAIN t.nodes : Later(b.nodes[i], t.nodes[j])
  BY DEF Kept
<1> QED BY <1>1, <1>2, LaterBare DEF Held

\* Segments that a decorator changes in place.
LEMMA Relisted ==
  ASSUME NEW t, Graph(t), NEW u, DOMAIN u = MapFields, u.interface = t.interface, u.audits = t.audits,
         u.nodes = t.nodes, u.edges = t.edges,
         u.segments = [i \in DOMAIN t.segments |-> u.segments[i]],
         \A i \in DOMAIN t.segments :
            /\ DOMAIN u.segments[i] = SegmentFields /\ IsFiniteSet(u.segments[i].gateways)
            /\ u.segments[i].id = t.segments[i].id /\ u.segments[i].network = t.segments[i].network
            /\ \A g \in u.segments[i].gateways : g \in t.segments[i].gateways \/ Held(t, g)
  PROVE  /\ Kept(t, u) /\ Ids(u) = Ids(t) /\ DOMAIN u.segments = DOMAIN t.segments
         /\ (\A i \in DOMAIN t.segments : u.segments[i].gateways = t.segments[i].gateways) => Grown(t, u)
<1>1. Len(t.segments) \in Nat /\ DOMAIN t.segments = 1..Len(t.segments)
  BY SeqShape DEF Graph
<1>2. IsSeq(u.segments) /\ DOMAIN u.segments = DOMAIN t.segments
  BY <1>1, SeqMade
<1>3. Ids(u) = Ids(t)
  BY DEF Ids
<1>4. \A i \in DOMAIN u.segments : Row(u.segments[i])
  BY <1>2 DEF Row, Graph
<1>5. Distinct(u.segments)
  BY <1>2 DEF Distinct, Graph
<1>9. \A i \in DOMAIN u.segments : \A g \in u.segments[i].gateways : Held(u, g)
  BY <1>2 DEF Graph, Held
<1>6. Graph(u)
  BY <1>2, <1>3, <1>4, <1>5, <1>9 DEF Graph, Joined
<1>7. Kept(t, u)
  BY <1>6, LaterSelf DEF Kept, Graph
<1>8. ASSUME \A i \in DOMAIN t.segments : u.segments[i].gateways = t.segments[i].gateways
      PROVE  Grown(t, u)
  <2>1. \A i \in DOMAIN u.segments : Listed(t, u.segments[i])
    BY <1>2, <1>8 DEF Listed
  <2>2. \A i \in DOMAIN t.edges : SameEdge(t.edges[i], u.edges[i])
    BY DEF SameEdge
  <2>3. \A i \in DOMAIN t.segments : SameSegment(t.segments[i], u.segments[i])
    BY <1>8 DEF SameSegment
  <2> QED BY <1>2, <1>7, <2>1, <2>2, <2>3 DEF Grown
<1> QED BY <1>2, <1>3, <1>7, <1>8

\* One more segment.
AddSegment(t, s) == [t EXCEPT !.segments = Append(@, s)]
LEMMA AddSegmentKeeps ==
  ASSUME NEW t, Graph(t), NEW s, Row(s), \A i \in DOMAIN t.segments : t.segments[i].id # s.id,
         \A g \in s.gateways : Held(t, g)
  PROVE  /\ Kept(t, AddSegment(t, s)) /\ Ids(AddSegment(t, s)) = Ids(t)
         /\ AddSegment(t, s).nodes = t.nodes /\ AddSegment(t, s).edges = t.edges
         /\ \E k : /\ DOMAIN AddSegment(t, s).segments = DOMAIN t.segments \cup {k}
                   /\ AddSegment(t, s).segments[k] = s
                   /\ \A i \in DOMAIN t.segments : AddSegment(t, s).segments[i] = t.segments[i]
         /\ s.gateways = {} => Grown(t, AddSegment(t, s))
<1>1. PICK u : u = AddSegment(t, s)
  OBVIOUS
<1>2. /\ DOMAIN u = MapFields /\ u.interface = t.interface /\ u.audits = t.audits
      /\ u.nodes = t.nodes /\ u.edges = t.edges /\ u.segments = Append(t.segments, s)
  BY <1>1 DEF AddSegment, Graph, MapFields
<1>3. PICK k : k = Len(t.segments) + 1
  OBVIOUS
<1>4. /\ IsSeq(u.segments) /\ DOMAIN u.segments = DOMAIN t.segments \cup {k}
      /\ \A i \in DOMAIN t.segments : u.segments[i] = t.segments[i]
      /\ u.segments[k] = s /\ k \notin DOMAIN t.segments
  BY <1>2, <1>3, SeqAppend DEF Graph
<1>5. Ids(u) = Ids(t)
  BY <1>2 DEF Ids
<1>6. Distinct(u.segments) /\ \A i \in DOMAIN u.segments : Row(u.segments[i])
  BY <1>4 DEF Distinct, Graph
<1>10. \A i \in DOMAIN u.segments : \A g \in u.segments[i].gateways : Held(u, g)
  BY <1>2, <1>4 DEF Graph, Held
<1>7. Graph(u)
  BY <1>2, <1>4, <1>5, <1>6, <1>10 DEF Graph, Joined
<1>8. Kept(t, u)
  BY <1>2, <1>7, LaterSelf DEF Kept, Graph
<1>9. s.gateways = {} => Grown(t, u)
  <2>1. s.gateways = {} => \A i \in DOMAIN u.segments : Listed(t, u.segments[i])
    BY <1>4 DEF Listed
  <2>2. \A i \in DOMAIN t.edges : SameEdge(t.edges[i], u.edges[i])
    BY <1>2 DEF SameEdge
  <2>3. \A i \in DOMAIN t.segments : i \in DOMAIN u.segments /\ SameSegment(t.segments[i], u.segments[i])
    BY <1>4 DEF SameSegment
  <2> QED BY <1>2, <1>8, <2>1, <2>2, <2>3 DEF Grown
<1> QED BY <1>1, <1>2, <1>4, <1>5, <1>8, <1>9

LEMMA SegmentRow ==
  ASSUME NEW network, NEW members, NEW gateways, IsFiniteSet(gateways), NEW provenance
  PROVE  /\ Row(Segment(network, members, gateways, provenance))
         /\ Segment(network, members, gateways, provenance).id = SegmentId(network)
         /\ Segment(network, members, gateways, provenance).gateways = gateways
         /\ Segment(network, members, gateways, provenance).network = network
BY DEF Row, Segment, SegmentFields

LEMMA EnsureSegmentGrows ==
  ASSUME NEW t, Graph(t), NEW network, NEW provenance
  PROVE  Grown(t, EnsureSegment(t, network, provenance))
<1> DEFINE s == Segment(network, {}, {}, provenance)
<1>1. Row(s) /\ s.id = SegmentId(network) /\ s.gateways = {}
  BY SegmentRow, FS_EmptySet
<1>2. CASE \E r \in ToSet(t.segments) : r.id = SegmentId(network)
  BY <1>2, GrownSelf DEF EnsureSegment
<1>3. CASE ~ \E r \in ToSet(t.segments) : r.id = SegmentId(network)
  <2>1. \A i \in DOMAIN t.segments : t.segments[i].id # s.id
    BY <1>1, <1>3 DEF ToSet
  <2>2. EnsureSegment(t, network, provenance) = AddSegment(t, s)
    BY <1>3 DEF EnsureSegment, AddSegment
  <2> HIDE DEF s
  <2> QED BY <1>1, <2>1, <2>2, AddSegmentKeeps
<1> QED BY <1>2, <1>3

-----------------------------------------------------------------------------
\* Changes of single nodes.
LEMMA LaterIf ==
  ASSUME NEW m, Proper(m), NEW n, DOMAIN n = NodeFields, n.id = m.id, n.kind = m.kind,
         n.addresses = m.addresses, n.names = m.names, n.mac = m.mac
  PROVE  Later(m, n)
BY DEF Later

LEMMA MarkNodeGrows ==
  ASSUME NEW t, Graph(t), NEW id, NEW r, NEW p
  PROVE  /\ Extended(t, MarkNode(t, id, r, p))
         /\ Ids(MarkNode(t, id, r, p)) = Ids(t)
<1> DEFINE F(n) == Marked(n, r, p)
<1>1. PICK u : u = MarkNode(t, id, r, p)
  OBVIOUS
<1>2. /\ DOMAIN u = MapFields /\ u.interface = t.interface /\ u.audits = t.audits
      /\ u.edges = t.edges /\ u.segments = t.segments
      /\ u.nodes = [i \in DOMAIN t.nodes |-> IF t.nodes[i].id = id THEN F(t.nodes[i]) ELSE t.nodes[i]]
  BY <1>1 DEF MarkNode, Amended, Graph, MapFields
<1>3. ASSUME NEW n, Proper(n) PROVE Later(n, F(n))
  <2>1. /\ DOMAIN F(n) = NodeFields /\ F(n).id = n.id /\ F(n).kind = n.kind
        /\ F(n).addresses = n.addresses /\ F(n).names = n.names /\ F(n).mac = n.mac
    BY <1>3 DEF Proper, NodeFields, Marked
  <2> QED BY <1>3, <2>1, LaterIf
<1> HIDE DEF F
<1>4. \A i \in DOMAIN t.nodes : Later(t.nodes[i], u.nodes[i])
  BY <1>2, <1>3, LaterSelf DEF Graph
<1>5. u.nodes = [i \in DOMAIN t.nodes |-> u.nodes[i]]
  BY <1>2
<1>6. Extended(t, u) /\ Ids(u) = Ids(t)
  BY <1>2, <1>4, <1>5, Renewed
<1> QED BY <1>1, <1>6

LEMMA JoinSegmentGrows ==
  ASSUME NEW t, Graph(t), NEW id, NEW s
  PROVE  /\ Extended(t, Amended(t, id, LAMBDA n : [n EXCEPT !.segments = @ \cup {s}]))
         /\ Ids(Amended(t, id, LAMBDA n : [n EXCEPT !.segments = @ \cup {s}])) = Ids(t)
<1> DEFINE F(n) == [n EXCEPT !.segments = @ \cup {s}]
<1>1. PICK u : u = Amended(t, id, LAMBDA n : [n EXCEPT !.segments = @ \cup {s}])
  OBVIOUS
<1>2. /\ DOMAIN u = MapFields /\ u.interface = t.interface /\ u.audits = t.audits
      /\ u.edges = t.edges /\ u.segments = t.segments
      /\ u.nodes = [i \in DOMAIN t.nodes |-> IF t.nodes[i].id = id THEN F(t.nodes[i]) ELSE t.nodes[i]]
  BY <1>1 DEF Amended, Graph, MapFields
<1>3. ASSUME NEW n, Proper(n) PROVE Later(n, F(n))
  <2>1. /\ DOMAIN F(n) = NodeFields /\ F(n).id = n.id /\ F(n).kind = n.kind
        /\ F(n).addresses = n.addresses /\ F(n).names = n.names /\ F(n).mac = n.mac
    BY <1>3 DEF Proper, NodeFields
  <2> QED BY <1>3, <2>1, LaterIf
<1> HIDE DEF F
<1>4. \A i \in DOMAIN t.nodes : Later(t.nodes[i], u.nodes[i])
  BY <1>2, <1>3, LaterSelf DEF Graph
<1>5. u.nodes = [i \in DOMAIN t.nodes |-> u.nodes[i]]
  BY <1>2
<1>6. Extended(t, u) /\ Ids(u) = Ids(t)
  BY <1>2, <1>4, <1>5, Renewed
<1> QED BY <1>1, <1>6

LEMMA PutNodeGrows ==
  ASSUME NEW t, Graph(t), NEW n, n.id \notin Ids(t) => Proper(n)
  PROVE  Extended(t, PutNode(t, n)) /\ n.id \in Ids(PutNode(t, n))
BY MarkNodeGrows, AddNodeGrows DEF PutNode

\* add_edge of the builder.
LEMMA AddEdgeGrows ==
  ASSUME NEW t, Graph(t), NEW a \in Ids(t), NEW b \in Ids(t), NEW relation, NEW provenance
  PROVE  Extended(t, AddEdge(t, a, b, relation, provenance))
<1> DEFINE I == {i \in 1..Len(t.edges) : /\ {t.edges[i].source, t.edges[i].target} = {a, b}
                                         /\ t.edges[i].relation = relation}
           k == Selection(I)
           e == Edge(a, b, relation, {provenance})
           new == [t EXCEPT !.edges[k].provenance = @ \cup {provenance}]
<1>1. AddEdge(t, a, b, relation, provenance)
        = IF a = b THEN t ELSE IF k = 0 THEN PutEdge(t, e) ELSE new
  BY DEF AddEdge, SelectInSeq, Selection
<1>2. Len(t.edges) \in Nat /\ DOMAIN t.edges = 1..Len(t.edges)
  BY SeqShape DEF Graph
<1>3. k \in I \cup {0}
  <2>1. I \in SUBSET (1..Len(t.edges))
    OBVIOUS
  <2> HIDE DEF I
  <2> QED BY <1>2, <2>1, SelectionIs
<1>4. Joined(t, e)
  BY DEF Joined, Edge, EdgeFields
<1>5. ASSUME k # 0 PROVE Extended(t, new)
  <2>1. k \in DOMAIN t.edges
    BY <1>2, <1>3, <1>5
  <2> HIDE DEF k
  <2>2. PICK u : u = new
    OBVIOUS
  <2>3. /\ DOMAIN u = MapFields /\ u.interface = t.interface /\ u.audits = t.audits
        /\ u.nodes = t.nodes /\ u.segments = t.segments
        /\ u.edges = [t.edges EXCEPT ![k] = [t.edges[k] EXCEPT !.provenance = @ \cup {provenance}]]
    BY <2>2 DEF Graph, MapFields
  <2>4. u.edges = [i \in DOMAIN t.edges |-> u.edges[i]]
    BY <2>3
  <2>5. ASSUME NEW i \in DOMAIN t.edges
        PROVE  DOMAIN u.edges[i] = EdgeFields /\ SameEdge(t.edges[i], u.edges[i])
    <3>1. DOMAIN t.edges[i] = EdgeFields
      BY DEF Graph, Joined
    <3>2. u.edges[i] = t.edges[i] \/ u.edges[i] = [t.edges[i] EXCEPT !.provenance = @ \cup {provenance}]
      BY <2>3
    <3> QED BY <3>1, <3>2 DEF SameEdge, EdgeFields
  <2>6. Extended(t, u)
    BY <2>3, <2>4, <2>5, Rewired
  <2> QED BY <2>2, <2>6
<1> HIDE DEF k, e, new
<1> QED BY <1>1, <1>4, <1>5, ExtendedSelf, PutEdgeGrows

-----------------------------------------------------------------------------
\* Looking nodes up.

LEMMA FirstHoldingIs ==
  ASSUME NEW t, Graph(t), NEW ip
  PROVE  \/ FirstHolding(t, ip) = NoNode /\ \A i \in DOMAIN t.nodes : ~ (ip \in Bare(t.nodes[i]))
         \/ /\ FirstHolding(t, ip) # NoNode /\ FirstHolding(t, ip) \in Ids(t)
            /\ \E i \in DOMAIN t.nodes : FirstHolding(t, ip) = t.nodes[i].id /\ ip \in Bare(t.nodes[i])
<1> DEFINE I == {i \in 1..Len(t.nodes) : ip \in Bare(t.nodes[i])}
           k == Selection(I)
<1>1. FirstHolding(t, ip) = IF k = 0 THEN NoNode ELSE t.nodes[k].id
  BY DEF FirstHolding, SelectInSeq, Selection, NodeAt
<1>2. Len(t.nodes) \in Nat /\ DOMAIN t.nodes = 1..Len(t.nodes)
  BY SeqShape DEF Graph
<1>3. k \in I \cup {0} /\ (k = 0 <=> I = {})
  <2>1. I \in SUBSET (1..Len(t.nodes))
    OBVIOUS
  <2> HIDE DEF I
  <2> QED BY <1>2, <2>1, SelectionIs
<1>4. CASE k = 0
  BY <1>1, <1>2, <1>3, <1>4
<1>5. CASE k # 0
  <2>1. k \in DOMAIN t.nodes /\ ip \in Bare(t.nodes[k])
    BY <1>2, <1>3, <1>5
  <2>2. t.nodes[k].id # NoNode /\ t.nodes[k].id \in Ids(t)
    BY <2>1 DEF Graph, Proper, Ids
  <2> HIDE DEF k
  <2> QED BY <1>1, <1>5, <2>1, <2>2
<1> QED BY <1>4, <1>5

LEMMA LastHoldingIs ==
  ASSUME NEW t, Graph(t), NEW ip
  PROVE  \/ LastHolding(t, ip) = NoNode /\ \A i \in DOMAIN t.nodes : ~ (ip \in Bare(t.nodes[i]))
         \/ /\ LastHolding(t, ip) # NoNode /\ LastHolding(t, ip) \in Ids(t)
            /\ \E i \in DOMAIN t.nodes : LastHolding(t, ip) = t.nodes[i].id /\ ip \in Bare(t.nodes[i])
<1> DEFINE I == {i \in 1..Len(t.nodes) : ip \in Bare(t.nodes[i])}
           k == LastSelection(I)
<1>1. LastHolding(t, ip) = IF k = 0 THEN NoNode ELSE t.nodes[k].id
  BY DEF LastHolding, SelectLastInSeq, LastSelection, NodeAt
<1>2. Len(t.nodes) \in Nat /\ DOMAIN t.nodes = 1..Len(t.nodes)
  BY SeqShape DEF Graph
<1>3. k \in I \cup {0} /\ (k = 0 <=> I = {})
  <2>1. I \in SUBSET (1..Len(t.nodes))
    OBVIOUS
  <2> HIDE DEF I
  <2> QED BY <1>2, <2>1, SelectionIs
<1>4. CASE k = 0
  BY <1>1, <1>2, <1>3, <1>4
<1>5. CASE k # 0
  <2>1. k \in DOMAIN t.nodes /\ ip \in Bare(t.nodes[k])
    BY <1>2, <1>3, <1>5
  <2>2. t.nodes[k].id # NoNode /\ t.nodes[k].id \in Ids(t)
    BY <2>1 DEF Graph, Proper, Ids
  <2> HIDE DEF k
  <2> QED BY <1>1, <1>5, <2>1, <2>2
<1> QED BY <1>4, <1>5

LEMMA FirstWithMacIs ==
  ASSUME NEW t, Graph(t), NEW m
  PROVE  \/ FirstWithMac(t, m) = NoNode /\ \A i \in DOMAIN t.nodes : ~ (m \in t.nodes[i].mac)
         \/ /\ FirstWithMac(t, m) # NoNode /\ FirstWithMac(t, m) \in Ids(t)
            /\ \E i \in DOMAIN t.nodes : FirstWithMac(t, m) = t.nodes[i].id /\ m \in t.nodes[i].mac
<1> DEFINE I == {i \in 1..Len(t.nodes) : m \in t.nodes[i].mac}
           k == Selection(I)
<1>1. FirstWithMac(t, m) = IF k = 0 THEN NoNode ELSE t.nodes[k].id
  BY DEF FirstWithMac, SelectInSeq, Selection, NodeAt
<1>2. Len(t.nodes) \in Nat /\ DOMAIN t.nodes = 1..Len(t.nodes)
  BY SeqShape DEF Graph
<1>3. k \in I \cup {0} /\ (k = 0 <=> I = {})
  <2>1. I \in SUBSET (1..Len(t.nodes))
    OBVIOUS
  <2> HIDE DEF I
  <2> QED BY <1>2, <2>1, SelectionIs
<1>4. CASE k = 0
  BY <1>1, <1>2, <1>3, <1>4
<1>5. CASE k # 0
  <2>1. k \in DOMAIN t.nodes /\ m \in t.nodes[k].mac
    BY <1>2, <1>3, <1>5
  <2>2. t.nodes[k].id # NoNode /\ t.nodes[k].id \in Ids(t)
    BY <2>1 DEF Graph, Proper, Ids
  <2> HIDE DEF k
  <2> QED BY <1>1, <1>5, <2>1, <2>2
<1> QED BY <1>4, <1>5

LEMMA FirstNamedIs ==
  ASSUME NEW t, Graph(t), NEW x
  PROVE  \/ FirstNamed(t, x) = NoNode /\ \A i \in DOMAIN t.nodes : ~ (x \in t.nodes[i].names)
         \/ /\ FirstNamed(t, x) # NoNode /\ FirstNamed(t, x) \in Ids(t)
            /\ \E i \in DOMAIN t.nodes : FirstNamed(t, x) = t.nodes[i].id /\ x \in t.nodes[i].names
<1> DEFINE I == {i \in 1..Len(t.nodes) : x \in t.nodes[i].names}
           k == Selection(I)
<1>1. FirstNamed(t, x) = IF k = 0 THEN NoNode ELSE t.nodes[k].id
  BY DEF FirstNamed, SelectInSeq, Selection, NodeAt
<1>2. Len(t.nodes) \in Nat /\ DOMAIN t.nodes = 1..Len(t.nodes)
  BY SeqShape DEF Graph
<1>3. k \in I \cup {0} /\ (k = 0 <=> I = {})
  <2>1. I \in SUBSET (1..Len(t.nodes))
    OBVIOUS
  <2> HIDE DEF I
  <2> QED BY <1>2, <2>1, SelectionIs
<1>4. CASE k = 0
  BY <1>1, <1>2, <1>3, <1>4
<1>5. CASE k # 0
  <2>1. k \in DOMAIN t.nodes /\ x \in t.nodes[k].names
    BY <1>2, <1>3, <1>5
  <2>2. t.nodes[k].id # NoNode /\ t.nodes[k].id \in Ids(t)
    BY <2>1 DEF Graph, Proper, Ids
  <2> HIDE DEF k
  <2> QED BY <1>1, <1>5, <2>1, <2>2
<1> QED BY <1>4, <1>5

-----------------------------------------------------------------------------
\* The builder (topology/builder.py).
Aliased(t, x) ==
    \/ \E i \in DOMAIN t.nodes : /\ t.nodes[i].kind = "asset"
                                 /\ x \in Bare(t.nodes[i]) \cup t.nodes[i].names \cup t.nodes[i].mac
    \/ \E i \in DOMAIN t.nodes : t.nodes[i].kind = "wirescope" /\ x \in Bare(t.nodes[i])
    \/ EndpointId(x) \in Ids(t)

\* An alias is a node of the map, whenever there is one.
LEMMA AliasIs ==
  ASSUME NEW t, Graph(t), NEW x
  PROVE  IF Aliased(t, x) THEN Alias(t, x) \in Ids(t) /\ Alias(t, x) # NoNode ELSE Alias(t, x) = NoNode
<1> DEFINE A(n) == n.kind = "asset" /\ x \in Bare(n) \cup n.names \cup n.mac
           W(n) == n.kind = "wirescope" /\ x \in Bare(n)
           I == {i \in 1..Len(t.nodes) : A(t.nodes[i])}
           J == {j \in 1..Len(t.nodes) : W(t.nodes[j])}
           i == LastSelection(I)
           j == Selection(J)
<1>1. Alias(t, x) = IF i # 0 THEN NodeAt(t, i) ELSE IF j # 0 THEN NodeAt(t, j)
                    ELSE IF EndpointId(x) \in Ids(t) THEN EndpointId(x) ELSE NoNode
  BY DEF Alias, SelectInSeq, SelectLastInSeq, Selection, LastSelection
<1>2. Len(t.nodes) \in Nat /\ DOMAIN t.nodes = 1..Len(t.nodes)
  BY SeqShape DEF Graph
<1>3. i \in I \cup {0} /\ (i = 0 <=> I = {}) /\ j \in J \cup {0} /\ (j = 0 <=> J = {})
  <2>1. I \in SUBSET (1..Len(t.nodes)) /\ J \in SUBSET (1..Len(t.nodes))
    OBVIOUS
  <2> HIDE DEF I, J
  <2> QED BY <1>2, <2>1, SelectionIs
<1>4. Aliased(t, x) <=> I # {} \/ J # {} \/ EndpointId(x) \in Ids(t)
  BY <1>2 DEF Aliased
<1>5. \A k \in 1..Len(t.nodes) : NodeAt(t, k) = t.nodes[k].id /\ t.nodes[k].id \in Ids(t)
  BY <1>2 DEF NodeAt, Ids
<1>6. \A id \in Ids(t) : id # NoNode
  BY DEF Ids, Graph, Proper
<1>7. I \subseteq 1..Len(t.nodes) /\ J \subseteq 1..Len(t.nodes)
  OBVIOUS
<1> HIDE DEF I, J, i, j
<1> QED BY <1>1, <1>3, <1>4, <1>5, <1>6, <1>7

\* What has an alias keeps it while the map grows.
LEMMA AliasStays ==
  ASSUME NEW t, NEW u, Extended(t, u), NEW x, Aliased(t, x)
  PROVE  Aliased(u, x)
<1>1. ASSUME NEW i \in DOMAIN t.nodes
      PROVE  \E j \in DOMAIN u.nodes :
               /\ u.nodes[j].kind = t.nodes[i].kind /\ Bare(t.nodes[i]) \subseteq Bare(u.nodes[j])
               /\ t.nodes[i].names \subseteq u.nodes[j].names /\ t.nodes[i].mac \subseteq u.nodes[j].mac
  <2>1. PICK j \in DOMAIN u.nodes : Later(t.nodes[i], u.nodes[j])
    BY DEF Extended, Grown, Kept
  <2>2. Bare(t.nodes[i]) \subseteq Bare(u.nodes[j])
    BY <2>1 DEF Later, Bare
  <2> QED BY <2>1, <2>2 DEF Later
<1>2. Ids(t) \subseteq Ids(u)
  BY ExtendedIds
<1>3. CASE \E i \in DOMAIN t.nodes : /\ t.nodes[i].kind = "asset"
                                     /\ x \in Bare(t.nodes[i]) \cup t.nodes[i].names \cup t.nodes[i].mac
  <2>1. PICK i \in DOMAIN t.nodes : /\ t.nodes[i].kind = "asset"
                                     /\ x \in Bare(t.nodes[i]) \cup t.nodes[i].names \cup t.nodes[i].mac
    BY <1>3
  <2>2. PICK j \in DOMAIN u.nodes :
               /\ u.nodes[j].kind = t.nodes[i].kind /\ Bare(t.nodes[i]) \subseteq Bare(u.nodes[j])
               /\ t.nodes[i].names \subseteq u.nodes[j].names /\ t.nodes[i].mac \subseteq u.nodes[j].mac
    BY <1>1
  <2>3. u.nodes[j].kind = "asset" /\ x \in Bare(u.nodes[j]) \cup u.nodes[j].names \cup u.nodes[j].mac
    BY <2>1, <2>2
  <2> QED BY <2>3 DEF Aliased
<1>4. CASE \E i \in DOMAIN t.nodes : t.nodes[i].kind = "wirescope" /\ x \in Bare(t.nodes[i])
  BY <1>1, <1>4 DEF Aliased
<1> QED BY <1>2, <1>3, <1>4 DEF Aliased

\* Nodes as they are made: NodeShape, and then what EXCEPT adds.
LEMMA NodeShape ==
  ASSUME NEW id, NEW kind
  PROVE  /\ DOMAIN Node(id, kind) = NodeFields /\ Node(id, kind).id = id /\ Node(id, kind).kind = kind
         /\ Node(id, kind).addresses = {}
BY DEF Node, NodeFields

LEMMA ResolveEndpointGrows ==
  ASSUME NEW t, Graph(t), NEW x, NEW roles, NEW provenance
  PROVE  /\ Extended(t, ResolveEndpoint(t, x, roles, provenance))
         /\ Alias(ResolveEndpoint(t, x, roles, provenance), x) \in Ids(ResolveEndpoint(t, x, roles, provenance))
<1> DEFINE new == [Node(EndpointId(x), IF x \in MulticastAddr THEN "multicast-group" ELSE "endpoint")
                     EXCEPT !.addresses = IF x \in IpAddress THEN {<<x, {}>>} ELSE {},
                            !.names = {x}, !.roles = roles, !.provenance = {provenance}]
<1>1. PICK u : u = ResolveEndpoint(t, x, roles, provenance)
  OBVIOUS
<1>2. CASE Aliased(t, x)
  <2>1. Alias(t, x) # NoNode
    BY <1>2, AliasIs
  <2>2. u = MarkNode(t, Alias(t, x), roles, {})
    BY <1>1, <2>1 DEF ResolveEndpoint
  <2>3. Extended(t, u)
    BY <2>2, MarkNodeGrows
  <2>4. Aliased(u, x) /\ Graph(u)
    BY <1>2, <2>3, AliasStays, ExtendedIds
  <2> QED BY <1>1, <2>3, <2>4, AliasIs
<1>3. CASE ~ Aliased(t, x)
  <2>1. u = AddNode(t, new)
    BY <1>1, <1>3, AliasIs DEF ResolveEndpoint
  <2>2. /\ DOMAIN new = NodeFields /\ new.id = EndpointId(x)
        /\ new.kind = (IF x \in MulticastAddr THEN "multicast-group" ELSE "endpoint")
        /\ new.addresses = (IF x \in IpAddress THEN {<<x, {}>>} ELSE {})
    BY DEF Node, NodeFields
  <2> HIDE DEF new
  <2>3. /\ new.id # NoNode /\ new.id[1] \in {"endpoint", "group"} /\ new.id[2] = x
        /\ new.kind \in {"multicast-group", "endpoint"}
    BY <2>2 DEF EndpointId, NoNode
  <2>4. x \in IpAddress => x \in Bare(new)
    BY <2>2 DEF Bare
  <2>5. Proper(new)
    BY <2>2, <2>3, <2>4 DEF Proper
  <2>6. new.id \notin Ids(t)
    BY <1>3, <2>2 DEF Aliased
  <2>7. Extended(t, u) /\ new.id \in Ids(u)
    BY <2>1, <2>5, <2>6, AddNodeGrows
  <2>8. Aliased(u, x) /\ Graph(u)
    BY <2>2, <2>7, ExtendedIds DEF Aliased
  <2> QED BY <1>1, <2>7, <2>8, AliasIs
<1> QED BY <1>2, <1>3

LEMMA RelatedGrows ==
  ASSUME NEW t, Graph(t), SensorId(t.interface) \in Ids(t), NEW x, NEW role, NEW relation, NEW provenance
  PROVE  Extended(t, Related(t, x, role, relation, provenance))
<1>1. PICK u : u = ResolveEndpoint(t, x, {role}, provenance)
  OBVIOUS
<1>2. Extended(t, u) /\ Alias(u, x) \in Ids(u)
  BY <1>1, ResolveEndpointGrows
<1>3. Graph(u) /\ SensorId(t.interface) \in Ids(u)
  BY <1>2, ExtendedIds
<1>4. Extended(u, AddEdge(u, SensorId(t.interface), Alias(u, x), relation, provenance))
  BY <1>2, <1>3, AddEdgeGrows
<1> QED BY <1>1, <1>2, <1>4, ExtendedTrans DEF Related

LEMMA AddNeighborGrows ==
  ASSUME NEW t, Graph(t), SensorId(t.interface) \in Ids(t), NEW b
  PROVE  Extended(t, AddNeighbor(t, b))
<1>1. PICK id : id = IF Alias(t, b.label) # NoNode THEN Alias(t, b.label)
                     ELSE <<"neighbor", b.protocol, b.label>>
  OBVIOUS
<1> DEFINE n == [Node(id, "network-device") EXCEPT !.roles = {"network-neighbor"},
                   !.names = {b.label}, !.provenance = {b.protocol}]
           u == IF id \in Ids(t) THEN MarkNode(t, id, {"network-neighbor"}, {}) ELSE AddNode(t, n)
<1>2. AddNeighbor(t, b) = AddEdge(u, SensorId(t.interface), id, "layer2_neighbor", b.protocol)
  BY <1>1 DEF AddNeighbor
<1>3. DOMAIN n = NodeFields /\ n.id = id /\ n.kind = "network-device"
  BY DEF Node, NodeFields
<1> HIDE DEF n
<1>4. ASSUME id \notin Ids(t) PROVE Proper(n)
  <2>1. id = <<"neighbor", b.protocol, b.label>>
    BY <1>1, <1>4, AliasIs
  <2>2. id # NoNode /\ id[1] = "neighbor"
    BY <2>1 DEF NoNode
  <2> QED BY <1>3, <2>2 DEF Proper
<1>5. Extended(t, u) /\ id \in Ids(u)
  BY <1>3, <1>4, MarkNodeGrows, AddNodeGrows
<1> HIDE DEF u
<1>6. Graph(u) /\ SensorId(t.interface) \in Ids(u)
  BY <1>5, ExtendedIds
<1>7. Extended(u, AddEdge(u, SensorId(t.interface), id, "layer2_neighbor", b.protocol))
  BY <1>5, <1>6, AddEdgeGrows
<1> QED BY <1>2, <1>5, <1>7, ExtendedTrans

LEMMA AddBridgeGrows ==
  ASSUME NEW t, Graph(t), SensorId(t.interface) \in Ids(t), NEW b, NEW role
  PROVE  Extended(t, AddBridge(t, b, role))
<1>1. PICK id : id = <<"stp-bridge", b>>
  OBVIOUS
<1> DEFINE n == Marked(Node(id, "network-device"), {role}, {"stp"})
<1>2. PICK u : u = PutNode(t, n)
  OBVIOUS
<1>3. AddBridge(t, b, role)
        = IF role = "stp-bridge" THEN AddEdge(u, SensorId(t.interface), id, "stp_observed", "stp") ELSE u
  BY <1>1, <1>2 DEF AddBridge
<1>4. DOMAIN n = NodeFields /\ n.id = id /\ n.kind = "network-device"
  BY DEF Marked, Node, NodeFields
<1> HIDE DEF n
<1>5. Proper(n)
  <2>1. id # NoNode /\ id[1] = "stp-bridge"
    BY <1>1 DEF NoNode
  <2> QED BY <1>4, <2>1 DEF Proper
<1>6. Extended(t, u) /\ id \in Ids(u)
  BY <1>2, <1>4, <1>5, PutNodeGrows
<1>7. Graph(u) /\ SensorId(t.interface) \in Ids(u)
  BY <1>6, ExtendedIds
<1>8. Extended(u, AddEdge(u, SensorId(t.interface), id, "stp_observed", "stp"))
  BY <1>6, <1>7, AddEdgeGrows
<1> QED BY <1>3, <1>6, <1>8, ExtendedTrans

LEMMA CommunicatedGrows ==
  ASSUME NEW t, Graph(t), NEW pair
  PROVE  Extended(t, Communicated(t, pair))
<1>1. PICK u : u = ResolveEndpoint(t, pair[1], {}, "pcap")
  OBVIOUS
<1>2. PICK v : v = ResolveEndpoint(u, pair[2], {}, "pcap")
  OBVIOUS
<1>3. Extended(t, u) /\ Alias(u, pair[1]) \in Ids(u)
  BY <1>1, ResolveEndpointGrows
<1>4. Graph(u)
  BY <1>3, ExtendedIds
<1>5. Extended(u, v) /\ Alias(v, pair[2]) \in Ids(v)
  BY <1>2, <1>4, ResolveEndpointGrows
<1>6. Graph(v)
  BY <1>5, ExtendedIds
<1>7. Aliased(u, pair[1])
  <2>1. NoNode \notin Ids(u)
    BY <1>4 DEF Ids, Graph, Proper
  <2> QED BY <1>3, <1>4, <2>1, AliasIs
<1>8. Alias(v, pair[1]) \in Ids(v)
  BY <1>5, <1>6, <1>7, AliasStays, AliasIs
<1>9. Extended(v, AddEdge(v, Alias(v, pair[1]), Alias(v, pair[2]), "communication", "pcap"))
  BY <1>5, <1>6, <1>8, AddEdgeGrows
<1> QED BY <1>1, <1>2, <1>3, <1>5, <1>9, ExtendedTrans DEF Communicated

\* The loops of the builder.  SoFar: what is drawn so far has grown from p.
SoFar(p, q, r, k, t) == Extended(p, t)

\* A list made of another, element by element.
LEMMA SeqMapped ==
  ASSUME NEW s, IsSeq(s), NEW m, m = [i \in DOMAIN s |-> m[i]]
  PROVE  IsSeq(m) /\ DOMAIN m = DOMAIN s
<1>1. Len(s) \in Nat /\ DOMAIN s = 1..Len(s)
  BY SeqShape
<1> QED BY <1>1, SeqMade

LEMMA GatewaySourcesSeq ==
  ASSUME NEW e, IsSeq(e.hostRoute), IsSeq(e.dhcpRouters)
  PROVE  IsSeq(GatewaySources(e))
<1>1. PICK a : a = [i \in DOMAIN e.hostRoute |-> <<e.hostRoute[i].gateway, "default-route">>]
  OBVIOUS
<1>2. PICK b : b = [i \in DOMAIN e.dhcpRouters |-> <<e.dhcpRouters[i], "dhcp-router">>]
  OBVIOUS
<1>3. IsSeq(a) /\ IsSeq(b)
  <2>1. a = [i \in DOMAIN e.hostRoute |-> a[i]] /\ b = [i \in DOMAIN e.dhcpRouters |-> b[i]]
    BY <1>1, <1>2
  <2> QED BY <2>1, SeqMapped
<1>4. GatewaySources(e) = a \o b
  BY <1>1, <1>2 DEF GatewaySources
<1> QED BY <1>3, <1>4, SeqConcat

GatewayOp(p, q, r, t, x) == Related(t, x[1], "gateway", "default_gateway", x[2])
Gateways == INSTANCE FoldInduction WITH Op <- GatewayOp, Good <- SoFar
LEMMA AddGatewaysGrows ==
  ASSUME NEW t, Graph(t), SensorId(t.interface) \in Ids(t), NEW e, IsSeq(e.hostRoute), IsSeq(e.dhcpRouters)
  PROVE  Extended(t, AddGateways(t, e))
<1>1. Gateways!WellOrdered
  BY LeastOf DEF Gateways!WellOrdered
<1>2. SoFar(t, e, e, 0, t)
  BY ExtendedSelf DEF SoFar
<1>3. \A k \in 1..Len(GatewaySources(e)) : \A u : SoFar(t, e, e, k - 1, u) => SoFar(t, e, e, k, GatewayOp(t, e, e, u, GatewaySources(e)[k]))
  <2> SUFFICES ASSUME NEW k \in 1..Len(GatewaySources(e)), NEW u, Extended(t, u)
               PROVE  Extended(t, GatewayOp(t, e, e, u, GatewaySources(e)[k]))
    BY DEF SoFar
  <2>1. Graph(u) /\ u.interface = t.interface /\ Ids(t) \subseteq Ids(u)
    BY ExtendedIds
  <2>2. Extended(u, Related(u, GatewaySources(e)[k][1], "gateway", "default_gateway", GatewaySources(e)[k][2]))
    BY <2>1, RelatedGrows
  <2> QED BY <2>2, ExtendedTrans DEF GatewayOp
<1>4. Len(GatewaySources(e)) \in Nat /\ DOMAIN GatewaySources(e) = 1..Len(GatewaySources(e))
  BY GatewaySourcesSeq, SeqShape
<1>5. SoFar(t, e, e, Len(GatewaySources(e)), Gateways!Folded(t, e, e, t, GatewaySources(e)))
  BY <1>1, <1>2, <1>3, <1>4, Gateways!FoldKeeps
<1>6. Gateways!Folded(t, e, e, t, GatewaySources(e)) = AddGateways(t, e)
  BY DEF Gateways!Folded, AddGateways, FoldLeft, MapThenFoldSet, Max, GatewayOp
<1> QED BY <1>5, <1>6 DEF SoFar

DhcpOp(p, q, r, t, x) == Related(t, x, "dhcp-server", "dhcp_observed", "dhcp")
DhcpServers == INSTANCE FoldInduction WITH Op <- DhcpOp, Good <- SoFar
LEMMA AddDhcpServersGrows ==
  ASSUME NEW t, Graph(t), SensorId(t.interface) \in Ids(t), NEW e, IsSeq(e.dhcpServers)
  PROVE  Extended(t, AddDhcpServers(t, e))
<1>1. DhcpServers!WellOrdered
  BY LeastOf DEF DhcpServers!WellOrdered
<1>2. SoFar(t, e, e, 0, t)
  BY ExtendedSelf DEF SoFar
<1>3. \A k \in 1..Len(e.dhcpServers) : \A u : SoFar(t, e, e, k - 1, u) => SoFar(t, e, e, k, DhcpOp(t, e, e, u, e.dhcpServers[k]))
  <2> SUFFICES ASSUME NEW k \in 1..Len(e.dhcpServers), NEW u, Extended(t, u)
               PROVE  Extended(t, DhcpOp(t, e, e, u, e.dhcpServers[k]))
    BY DEF SoFar
  <2>1. Graph(u) /\ u.interface = t.interface /\ Ids(t) \subseteq Ids(u)
    BY ExtendedIds
  <2>2. Extended(u, Related(u, e.dhcpServers[k], "dhcp-server", "dhcp_observed", "dhcp"))
    BY <2>1, RelatedGrows
  <2> QED BY <2>2, ExtendedTrans DEF DhcpOp
<1>4. Len(e.dhcpServers) \in Nat /\ DOMAIN e.dhcpServers = 1..Len(e.dhcpServers)
  BY SeqShape
<1>5. SoFar(t, e, e, Len(e.dhcpServers), DhcpServers!Folded(t, e, e, t, e.dhcpServers))
  BY <1>1, <1>2, <1>3, <1>4, DhcpServers!FoldKeeps
<1>6. DhcpServers!Folded(t, e, e, t, e.dhcpServers) = AddDhcpServers(t, e)
  BY DEF DhcpServers!Folded, AddDhcpServers, FoldLeft, MapThenFoldSet, Max, DhcpOp
<1> QED BY <1>5, <1>6 DEF SoFar

NeighborOp(p, q, r, t, x) == AddNeighbor(t, x)
Neighbors == INSTANCE FoldInduction WITH Op <- NeighborOp, Good <- SoFar
LEMMA AddNeighborsGrows ==
  ASSUME NEW t, Graph(t), SensorId(t.interface) \in Ids(t), NEW e, IsSeq(e.neighbors)
  PROVE  Extended(t, AddNeighbors(t, e))
<1>1. Neighbors!WellOrdered
  BY LeastOf DEF Neighbors!WellOrdered
<1>2. SoFar(t, e, e, 0, t)
  BY ExtendedSelf DEF SoFar
<1>3. \A k \in 1..Len(e.neighbors) : \A u : SoFar(t, e, e, k - 1, u) => SoFar(t, e, e, k, NeighborOp(t, e, e, u, e.neighbors[k]))
  <2> SUFFICES ASSUME NEW k \in 1..Len(e.neighbors), NEW u, Extended(t, u)
               PROVE  Extended(t, NeighborOp(t, e, e, u, e.neighbors[k]))
    BY DEF SoFar
  <2>1. Graph(u) /\ u.interface = t.interface /\ Ids(t) \subseteq Ids(u)
    BY ExtendedIds
  <2>2. Extended(u, AddNeighbor(u, e.neighbors[k]))
    BY <2>1, AddNeighborGrows
  <2> QED BY <2>2, ExtendedTrans DEF NeighborOp
<1>4. Len(e.neighbors) \in Nat /\ DOMAIN e.neighbors = 1..Len(e.neighbors)
  BY SeqShape
<1>5. SoFar(t, e, e, Len(e.neighbors), Neighbors!Folded(t, e, e, t, e.neighbors))
  BY <1>1, <1>2, <1>3, <1>4, Neighbors!FoldKeeps
<1>6. Neighbors!Folded(t, e, e, t, e.neighbors) = AddNeighbors(t, e)
  BY DEF Neighbors!Folded, AddNeighbors, FoldLeft, MapThenFoldSet, Max, NeighborOp
<1> QED BY <1>5, <1>6 DEF SoFar

BridgeOp(p, q, r, t, x) == AddBridge(t, x, q)
Bridges == INSTANCE FoldInduction WITH Op <- BridgeOp, Good <- SoFar
LEMMA AddBridgesGrows ==
  ASSUME NEW t, Graph(t), SensorId(t.interface) \in Ids(t), NEW bridges, IsSeq(bridges), NEW role
  PROVE  Extended(t, AddBridges(t, bridges, role))
<1>1. Bridges!WellOrdered
  BY LeastOf DEF Bridges!WellOrdered
<1>2. SoFar(t, role, role, 0, t)
  BY ExtendedSelf DEF SoFar
<1>3. \A k \in 1..Len(bridges) : \A u : SoFar(t, role, role, k - 1, u) => SoFar(t, role, role, k, BridgeOp(t, role, role, u, bridges[k]))
  <2> SUFFICES ASSUME NEW k \in 1..Len(bridges), NEW u, Extended(t, u)
               PROVE  Extended(t, BridgeOp(t, role, role, u, bridges[k]))
    BY DEF SoFar
  <2>1. Graph(u) /\ u.interface = t.interface /\ Ids(t) \subseteq Ids(u)
    BY ExtendedIds
  <2>2. Extended(u, AddBridge(u, bridges[k], role))
    BY <2>1, AddBridgeGrows
  <2> QED BY <2>2, ExtendedTrans DEF BridgeOp
<1>4. Len(bridges) \in Nat /\ DOMAIN bridges = 1..Len(bridges)
  BY SeqShape
<1>5. SoFar(t, role, role, Len(bridges), Bridges!Folded(t, role, role, t, bridges))
  BY <1>1, <1>2, <1>3, <1>4, Bridges!FoldKeeps
<1>6. Bridges!Folded(t, role, role, t, bridges) = AddBridges(t, bridges, role)
  BY DEF Bridges!Folded, AddBridges, FoldLeft, MapThenFoldSet, Max, BridgeOp
<1> QED BY <1>5, <1>6 DEF SoFar

OverlayOp(p, q, r, t, x) == Communicated(t, x)
Overlay == INSTANCE FoldInduction WITH Op <- OverlayOp, Good <- SoFar
LEMMA AddOverlayGrows ==
  ASSUME NEW t, Graph(t), NEW e, IsSeq(e.overlay)
  PROVE  Extended(t, AddOverlay(t, e))
<1>1. Overlay!WellOrdered
  BY LeastOf DEF Overlay!WellOrdered
<1>2. SoFar(t, e, e, 0, t)
  BY ExtendedSelf DEF SoFar
<1>3. \A k \in 1..Len(e.overlay) : \A u : SoFar(t, e, e, k - 1, u) => SoFar(t, e, e, k, OverlayOp(t, e, e, u, e.overlay[k]))
  <2> SUFFICES ASSUME NEW k \in 1..Len(e.overlay), NEW u, Extended(t, u)
               PROVE  Extended(t, OverlayOp(t, e, e, u, e.overlay[k]))
    BY DEF SoFar
  <2>1. Graph(u) /\ u.interface = t.interface /\ Ids(t) \subseteq Ids(u)
    BY ExtendedIds
  <2>2. Extended(u, Communicated(u, e.overlay[k]))
    BY <2>1, CommunicatedGrows
  <2> QED BY <2>2, ExtendedTrans DEF OverlayOp
<1>4. Len(e.overlay) \in Nat /\ DOMAIN e.overlay = 1..Len(e.overlay)
  BY SeqShape
<1>5. SoFar(t, e, e, Len(e.overlay), Overlay!Folded(t, e, e, t, e.overlay))
  BY <1>1, <1>2, <1>3, <1>4, Overlay!FoldKeeps
<1>6. Overlay!Folded(t, e, e, t, e.overlay) = AddOverlay(t, e)
  BY DEF Overlay!Folded, AddOverlay, FoldLeft, MapThenFoldSet, Max, OverlayOp
<1> QED BY <1>5, <1>6 DEF SoFar

-----------------------------------------------------------------------------
\* The map as the builder leaves it: assets first, then the sensor, then the rest.
Sensed(t) == \E i \in DOMAIN t.nodes : /\ t.nodes[i].id = SensorId(t.interface)
                                       /\ t.nodes[i].kind = "wirescope"
LEMMA SensedStays ==
  ASSUME NEW b, NEW t, Kept(b, t), Sensed(b)
  PROVE  Sensed(t) /\ SensorId(t.interface) \in Ids(t)
<1>1. PICK i \in DOMAIN b.nodes : b.nodes[i].id = SensorId(b.interface) /\ b.nodes[i].kind = "wirescope"
  BY DEF Sensed
<1>2. PICK j \in DOMAIN t.nodes : Later(b.nodes[i], t.nodes[j])
  BY DEF Kept
<1>3. t.interface = b.interface
  BY DEF Kept
<1>4. t.nodes[j].id = SensorId(t.interface) /\ t.nodes[j].kind = "wirescope"
  BY <1>1, <1>2, <1>3 DEF Later
<1> QED BY <1>4 DEF Sensed, Ids

\* After k assets: their identifiers are the only ones.
AssetsSoFar(p, q, r, k, t) ==
    /\ Graph(t) /\ t.interface = p.interface /\ t.segments = <<>>
    /\ \A id \in Ids(t) : \E j \in 1..k : id = <<"asset", p.assets[j].id>>

LEMMA EmptyMapIs ==
  ASSUME NEW e
  PROVE  Graph(EmptyMap(e)) /\ EmptyMap(e).interface = e.interface /\ EmptyMap(e).segments = <<>> /\ Ids(EmptyMap(e)) = {}
<1>1. PICK t : t = EmptyMap(e)
  OBVIOUS
<1>2. DOMAIN t = MapFields /\ t.interface = e.interface /\ t.nodes = <<>> /\ t.edges = <<>> /\ t.segments = <<>>
  BY <1>1 DEF EmptyMap, MapFields
<1>3. IsSeq(<<>>) /\ DOMAIN <<>> = {}
  BY DEF IsSeq
<1>4. Graph(t) /\ Ids(t) = {}
  BY <1>2, <1>3 DEF Graph, Distinct, Ids
<1> QED BY <1>1, <1>2, <1>4

LEMMA AddAssetKeeps ==
  ASSUME NEW e, IsEvidence(e), NEW k \in 1..Len(e.assets), NEW u, AssetsSoFar(e, e, e, k - 1, u)
  PROVE  AssetsSoFar(e, e, e, k, AddAsset(u, e.assets[k]))
<1>1. PICK a : a = e.assets[k]
  OBVIOUS
<1> DEFINE n == [Node(<<"asset", a.id>>, "asset")
                   EXCEPT !.addresses = {<<x, {}>> : x \in a.addresses}, !.names = a.names,
                          !.mac = a.mac, !.provenance = {"inventory"},
                          !.roles = IF a.device THEN {"network-device"} ELSE {}]
<1>2. AddAsset(u, a) = AddNode(u, n)
  BY DEF AddAsset
<1>3. DOMAIN n = NodeFields /\ n.id = <<"asset", a.id>> /\ n.kind = "asset"
  BY DEF Node, NodeFields
<1> HIDE DEF n
<1>4. Proper(n)
  BY <1>3 DEF Proper, NoNode
<1>5. Len(e.assets) \in Nat /\ DOMAIN e.assets = 1..Len(e.assets)
  BY SeqShape DEF IsEvidence
<1>6. n.id \notin Ids(u)
  <2> SUFFICES ASSUME n.id \in Ids(u) PROVE FALSE
    OBVIOUS
  <2>1. PICK j \in 1..(k - 1) : n.id = <<"asset", e.assets[j].id>>
    BY DEF AssetsSoFar
  <2>2. e.assets[j].id = e.assets[k].id
    BY <1>1, <1>3, <2>1
  <2>3. j \in DOMAIN e.assets /\ k \in DOMAIN e.assets /\ j # k
    BY <1>5
  <2> QED BY <2>2, <2>3 DEF IsEvidence, Distinct
<1>7. PICK v : v = AddNode(u, n)
  OBVIOUS
<1>8. Extended(u, v) /\ Ids(v) = Ids(u) \cup {n.id}
  BY <1>4, <1>6, <1>7, AddNodeGrows DEF AssetsSoFar
<1>9. Graph(v) /\ v.interface = e.interface /\ v.segments = <<>>
  BY <1>8, ExtendedIds DEF AssetsSoFar, Extended
<1>10. \A id \in Ids(v) : \E j \in 1..k : id = <<"asset", e.assets[j].id>>
  <2> SUFFICES ASSUME NEW id \in Ids(v) PROVE \E j \in 1..k : id = <<"asset", e.assets[j].id>>
    OBVIOUS
  <2>1. CASE id \in Ids(u)
    <3>1. PICK j \in 1..(k - 1) : id = <<"asset", e.assets[j].id>>
      BY <2>1 DEF AssetsSoFar
    <3>2. j \in 1..k
      BY <1>5
    <3> QED BY <3>1, <3>2
  <2>2. CASE id = n.id
    <3>1. id = <<"asset", e.assets[k].id>>
      BY <1>1, <1>3, <2>2
    <3>2. k \in 1..k
      BY <1>5
    <3> QED BY <3>1, <3>2
  <2> QED BY <1>8, <2>1, <2>2
<1> QED BY <1>1, <1>2, <1>7, <1>9, <1>10 DEF AssetsSoFar

AssetOp(p, q, r, t, x) == AddAsset(t, x)
AssetList == INSTANCE FoldInduction WITH Op <- AssetOp, Good <- AssetsSoFar
LEMMA AddAssetsIs ==
  ASSUME NEW e, IsEvidence(e)
  PROVE  AssetsSoFar(e, e, e, Len(e.assets), AddAssets(EmptyMap(e), e))
<1>1. AssetList!WellOrdered
  BY LeastOf DEF AssetList!WellOrdered
<1>2. AssetsSoFar(e, e, e, 0, EmptyMap(e))
  BY EmptyMapIs DEF AssetsSoFar
<1>3. \A k \in 1..Len(e.assets) : \A u : AssetsSoFar(e, e, e, k - 1, u) => AssetsSoFar(e, e, e, k, AssetOp(e, e, e, u, e.assets[k]))
  BY AddAssetKeeps DEF AssetOp
<1>4. Len(e.assets) \in Nat /\ DOMAIN e.assets = 1..Len(e.assets)
  BY SeqShape DEF IsEvidence
<1>5. AssetsSoFar(e, e, e, Len(e.assets), AssetList!Folded(e, e, e, EmptyMap(e), e.assets))
  BY <1>1, <1>2, <1>3, <1>4, AssetList!FoldKeeps
<1>6. AssetList!Folded(e, e, e, EmptyMap(e), e.assets) = AddAssets(EmptyMap(e), e)
  BY DEF AssetList!Folded, AddAssets, FoldLeft, MapThenFoldSet, Max, AssetOp
<1> QED BY <1>5, <1>6 DEF AssetsSoFar

LEMMA AssembleTopologyIs ==
  ASSUME NEW e, IsEvidence(e)
  PROVE  /\ Graph(AssembleTopology(e)) /\ Sensed(AssembleTopology(e))
         /\ AssembleTopology(e).segments = <<>>
<1> DEFINE own == [Node(SensorId(e.interface), "wirescope")
                     EXCEPT !.roles = {"sensor"}, !.addresses = e.sensor, !.provenance = {"environment"}]
<1>1. PICK a : a = AddAssets(EmptyMap(e), e)
  OBVIOUS
<1>2. AssetsSoFar(e, e, e, Len(e.assets), a)
  BY <1>1, AddAssetsIs
<1>3. DOMAIN own = NodeFields /\ own.id = SensorId(e.interface) /\ own.kind = "wirescope" /\ own.addresses = e.sensor
  BY DEF Node, NodeFields
<1>4. PICK b : b = AddNode(a, own)
  OBVIOUS
<1>5. PICK c : c = AddGateways(b, e)
  OBVIOUS
<1>6. PICK d : d = AddDhcpServers(c, e)
  OBVIOUS
<1>7. PICK f : f = AddNeighbors(d, e)
  OBVIOUS
<1>8. PICK g : g = AddBridges(f, e.bridges, "stp-bridge")
  OBVIOUS
<1>9. PICK h : h = AddBridges(g, e.roots, "stp-root")
  OBVIOUS
<1>10. PICK o : o = AddOverlay(h, e)
  OBVIOUS
<1>11. PICK z : z = [o EXCEPT !.overlay = e.overlay # <<>>]
  OBVIOUS
<1>12. AssembleTopology(e) = z
  BY <1>1, <1>4, <1>5, <1>6, <1>7, <1>8, <1>9, <1>10, <1>11 DEF AssembleTopology
<1> HIDE DEF own
<1>13. Proper(own)
  <2>1. own.id # NoNode /\ own.id[1] = "wirescope"
    BY <1>3 DEF SensorId, NoNode
  <2> QED BY <1>3, <2>1 DEF Proper, IsEvidence
<1>14. own.id \notin Ids(a)
  BY <1>2, <1>3 DEF AssetsSoFar, SensorId
<1>15. Extended(a, b) /\ own.id \in Ids(b) /\ Graph(b)
  BY <1>2, <1>4, <1>13, <1>14, AddNodeGrows, ExtendedIds DEF AssetsSoFar
<1>16. Sensed(b)
  <2>1. IsSeq(a.nodes) /\ b.nodes = Append(a.nodes, own) /\ b.interface = e.interface
    BY <1>2, <1>4 DEF AddNode, AssetsSoFar, Graph, MapFields
  <2>2. Len(a.nodes) + 1 \in DOMAIN b.nodes /\ b.nodes[Len(a.nodes) + 1] = own
    BY <2>1, SeqAppend
  <2> QED BY <1>3, <2>1, <2>2 DEF Sensed
<1>17. b.segments = <<>>
  BY <1>2, <1>15 DEF Extended, AssetsSoFar
<1>18. SensorId(b.interface) \in Ids(b)
  BY <1>16 DEF Sensed, Ids
<1>19. Extended(b, c)
  BY <1>5, <1>15, <1>18, AddGatewaysGrows DEF IsEvidence
<1>20. Graph(c) /\ SensorId(c.interface) \in Ids(c)
  BY <1>18, <1>19, ExtendedIds
<1>21. Extended(c, d)
  BY <1>6, <1>20, AddDhcpServersGrows DEF IsEvidence
<1>22. Graph(d) /\ SensorId(d.interface) \in Ids(d)
  BY <1>20, <1>21, ExtendedIds
<1>23. Extended(d, f)
  BY <1>7, <1>22, AddNeighborsGrows DEF IsEvidence
<1>24. Graph(f) /\ SensorId(f.interface) \in Ids(f)
  BY <1>22, <1>23, ExtendedIds
<1>25. Extended(f, g)
  BY <1>8, <1>24, AddBridgesGrows DEF IsEvidence
<1>26. Graph(g) /\ SensorId(g.interface) \in Ids(g)
  BY <1>24, <1>25, ExtendedIds
<1>27. Extended(g, h)
  BY <1>9, <1>26, AddBridgesGrows DEF IsEvidence
<1>28. Graph(h)
  BY <1>27, ExtendedIds
<1>29. Extended(h, o)
  BY <1>10, <1>28, AddOverlayGrows DEF IsEvidence
<1>30. Graph(o)
  BY <1>29, ExtendedIds
<1>31. Extended(o, z)
  <2>1. /\ DOMAIN z = MapFields /\ z.interface = o.interface /\ z.audits = o.audits
        /\ z.nodes = o.nodes /\ z.segments = o.segments /\ z.edges = o.edges
    BY <1>11, <1>30 DEF Graph, MapFields
  <2> QED BY <1>30, <2>1, Alike
<1>32. Extended(b, z)
  BY <1>19, <1>21, <1>23, <1>25, <1>27, <1>29, <1>31, ExtendedTrans
<1>33. Kept(b, z) /\ Graph(z) /\ z.segments = <<>>
  BY <1>17, <1>32 DEF Extended, Grown, Kept
<1> QED BY <1>12, <1>16, <1>33, SensedStays

-----------------------------------------------------------------------------
\* A part of a list, in its order.
Picked(s, I) == [k \in DOMAIN Ascending(I) |-> s[Ascending(I)[k]]]
LEMMA PickedIs ==
  ASSUME NEW s, IsSeq(s), NEW I \in SUBSET DOMAIN s
  PROVE  /\ IsSeq(Picked(s, I))
         /\ \A k \in DOMAIN Picked(s, I) : \E i \in I : Picked(s, I)[k] = s[i]
         /\ \A i \in I : \E k \in DOMAIN Picked(s, I) : Picked(s, I)[k] = s[i]
         /\ Distinct(s) => Distinct(Picked(s, I))
<1>1. PICK o : o = Ascending(I)
  OBVIOUS
<1>2. PICK c : c = Picked(s, I)
  OBVIOUS
<1>3. c = [k \in DOMAIN o |-> s[o[k]]]
  BY <1>1, <1>2 DEF Picked
<1>4. Len(s) \in Nat /\ DOMAIN s = 1..Len(s)
  BY SeqShape
<1>5. /\ IsSeq(o) /\ \A k \in DOMAIN o : o[k] \in I
      /\ \A i \in I : \E k \in DOMAIN o : o[k] = i
      /\ \A k, l \in DOMAIN o : o[k] = o[l] => k = l
  BY <1>1, <1>4, AscendingIs
<1>6. IsSeq(c) /\ DOMAIN c = DOMAIN o
  <2>1. c = [k \in DOMAIN o |-> c[k]]
    BY <1>3
  <2> QED BY <1>5, <2>1, SeqMapped
<1>7. \A k \in DOMAIN c : \E i \in I : c[k] = s[i]
  BY <1>3, <1>5
<1>8. \A i \in I : \E k \in DOMAIN c : c[k] = s[i]
  BY <1>3, <1>5
<1>9. Distinct(s) => Distinct(c)
  <2> SUFFICES ASSUME Distinct(s), NEW k \in DOMAIN c, NEW l \in DOMAIN c, c[k].id = c[l].id
               PROVE  k = l
    BY DEF Distinct
  <2>1. s[o[k]].id = s[o[l]].id /\ o[k] \in DOMAIN s /\ o[l] \in DOMAIN s
    BY <1>3, <1>5
  <2>2. o[k] = o[l]
    BY <2>1 DEF Distinct
  <2> QED BY <1>3, <1>5, <2>2
<1> QED BY <1>2, <1>6, <1>7, <1>8, <1>9

\* Nodes may only be left out that no edge needs.
LEMMA DropInvalidKeeps ==
  ASSUME NEW t, Graph(t), Sensed(t), t.segments = <<>>, NEW e
  PROVE  /\ Graph(DropInvalidHostDefaultRoute(t, e)) /\ Sensed(DropInvalidHostDefaultRoute(t, e))
         /\ DropInvalidHostDefaultRoute(t, e).segments = <<>>
<1>1. PICK u : u = DropInvalidHostDefaultRoute(t, e)
  OBVIOUS
<1> DEFINE valid == UNION {e.routes[i].gateway : i \in RouteRows(e)}
           bad(d) == /\ d.relation = "default_gateway" /\ "default-route" \in d.provenance
                     /\ Bare(NodeNamed(t, d.target)) \cap valid = {}
           I == {i \in DOMAIN t.edges : ~ bad(t.edges[i])}
           kept == Picked(t.edges, I)
           used == UNION {{d.source, d.target} : d \in ToSet(kept)}
           idle(n) == n.kind = "endpoint" /\ n.id \notin used /\ n.provenance = {"default-route"}
           J == {i \in DOMAIN t.nodes : ~ idle(t.nodes[i])}
           left == Picked(t.nodes, J)
<1>2. u = [t EXCEPT !.edges = kept, !.nodes = left]
  BY <1>1 DEF DropInvalidHostDefaultRoute, Chosen, Picked
<1>3. I \in SUBSET DOMAIN t.edges /\ J \in SUBSET DOMAIN t.nodes
  OBVIOUS
<1>4. /\ IsSeq(kept) /\ \A k \in DOMAIN kept : \E i \in I : kept[k] = t.edges[i]
  <2> HIDE DEF I
  <2> QED BY <1>3, PickedIs DEF Graph
<1>5. /\ IsSeq(left) /\ \A k \in DOMAIN left : \E i \in J : left[k] = t.nodes[i]
      /\ \A i \in J : \E k \in DOMAIN left : left[k] = t.nodes[i]
      /\ Distinct(left)
  <2> HIDE DEF J
  <2> QED BY <1>3, PickedIs DEF Graph
<1>6. /\ DOMAIN u = MapFields /\ u.interface = t.interface
      /\ u.nodes = left /\ u.segments = <<>> /\ u.edges = kept
  BY <1>2 DEF Graph, MapFields
<1>7. ASSUME NEW k \in DOMAIN kept PROVE Joined(u, kept[k])
  <2>1. Joined(t, kept[k])
    BY <1>3, <1>4 DEF Graph
  <2>2. {kept[k].source, kept[k].target} \subseteq used
    BY DEF ToSet
  <2>3. ASSUME NEW id \in used, id \in Ids(t) PROVE id \in Ids(u)
    <3>1. PICK i \in DOMAIN t.nodes : t.nodes[i].id = id
      BY <2>3 DEF Ids
    <3>2. i \in J
      BY <3>1
    <3>3. PICK j \in DOMAIN left : left[j] = t.nodes[i]
      BY <1>5, <3>2
    <3> QED BY <1>6, <3>1, <3>3 DEF Ids
  <2> QED BY <2>1, <2>2, <2>3 DEF Joined
<1>8. \A i \in DOMAIN left : Proper(left[i])
  BY <1>3, <1>5 DEF Graph
<1>9. Graph(u)
  <2>1. IsSeq(<<>>) /\ DOMAIN <<>> = {}
    BY DEF IsSeq
  <2> HIDE DEF kept, left
  <2> QED BY <1>4, <1>5, <1>6, <1>7, <1>8, <2>1 DEF Graph, Distinct
<1>10. Sensed(u)
  <2>1. PICK i \in DOMAIN t.nodes : t.nodes[i].id = SensorId(t.interface) /\ t.nodes[i].kind = "wirescope"
    BY DEF Sensed
  <2>2. i \in J
    BY <2>1
  <2>3. PICK j \in DOMAIN left : left[j] = t.nodes[i]
    BY <1>5, <2>2
  <2> QED BY <1>6, <2>1, <2>3 DEF Sensed
<1> QED BY <1>1, <1>6, <1>9, <1>10

-----------------------------------------------------------------------------
\* The segments of the scope.
Networks(t) == {t.segments[i].network : i \in DOMAIN t.segments}

\* A node made for an address that no node holds.
LEMMA FreshEndpoint ==
  ASSUME NEW t, Graph(t), NEW g \in IpAddress, \A i \in DOMAIN t.nodes : ~ (g \in Bare(t.nodes[i]))
  PROVE  EndpointId(g) \notin Ids(t)
<1>1. EndpointId(g)[1] \in {"endpoint", "group"} /\ EndpointId(g)[2] = g
  BY DEF EndpointId
<1> SUFFICES ASSUME NEW i \in DOMAIN t.nodes, t.nodes[i].id = EndpointId(g) PROVE FALSE
  BY DEF Ids
<1> QED BY <1>1 DEF Graph, Proper

LEMMA HolderProper ==
  ASSUME NEW n, DOMAIN n = NodeFields, NEW g, n.id = EndpointId(g), n.kind = "endpoint", n.addresses = {<<g, {}>>}
  PROVE  Proper(n) /\ g \in Bare(n)
<1>1. n.id # NoNode /\ n.id[1] \in {"endpoint", "group"} /\ n.id[2] = g
  BY DEF EndpointId, NoNode
<1>2. g \in Bare(n)
  BY DEF Bare
<1> QED BY <1>1, <1>2 DEF Proper

LEMMA AddedHolds ==
  ASSUME NEW t, Graph(t), NEW n, NEW g \in Bare(n)
  PROVE  Held(AddNode(t, n), g)
<1>1. IsSeq(t.nodes) /\ AddNode(t, n).nodes = Append(t.nodes, n)
  BY DEF AddNode, Graph, MapFields
<1>2. Len(t.nodes) + 1 \in DOMAIN AddNode(t, n).nodes /\ AddNode(t, n).nodes[Len(t.nodes) + 1] = n
  BY <1>1, SeqAppend
<1> QED BY <1>2 DEF Held

LEMMA RouteOfIs ==
  ASSUME NEW e, IsEvidence(e), NEW network, NEW r \in RouteOf(e, network)
  PROVE  r.gateway \subseteq IpAddress
<1> DEFINE own    == {i \in RouteRows(e) : e.routes[i].target = network}
           within == {i \in RouteRows(e) : e.routes[i].representative \in network}
<1>1. Len(e.routes) \in Nat /\ DOMAIN e.routes = 1..Len(e.routes)
  BY SeqShape DEF IsEvidence
<1>2. own \in SUBSET (1..Len(e.routes)) /\ within \in SUBSET Nat /\ within \in SUBSET DOMAIN e.routes
  BY <1>1 DEF RouteRows
<1>3. RouteOf(e, network) = IF own # {} THEN {e.routes[Max(own)]} ELSE IF within # {} THEN {e.routes[Min(within)]} ELSE {}
  BY DEF RouteOf
<1> HIDE DEF own, within
<1>4. own # {} => Max(own) \in DOMAIN e.routes
  BY <1>1, <1>2, MaxIs
<1>5. within # {} => Min(within) \in DOMAIN e.routes
  BY <1>2, MinIs
<1> QED BY <1>3, <1>4, <1>5 DEF IsEvidence

\* Nodes that turn out to be gateways.
CallGateway(t, id, s) == Amended(t, id, LAMBDA n : [n EXCEPT !.roles = @ \cup {"gateway"}, !.segments = @ \cup {s}])
LEMMA CallGatewayGrows ==
  ASSUME NEW t, Graph(t), NEW id, NEW s
  PROVE  /\ Extended(t, CallGateway(t, id, s))
         /\ Ids(CallGateway(t, id, s)) = Ids(t)
<1> DEFINE F(n) == [n EXCEPT !.roles = @ \cup {"gateway"}, !.segments = @ \cup {s}]
<1>1. PICK u : u = CallGateway(t, id, s)
  OBVIOUS
<1>2. /\ DOMAIN u = MapFields /\ u.interface = t.interface /\ u.audits = t.audits
      /\ u.edges = t.edges /\ u.segments = t.segments
      /\ u.nodes = [i \in DOMAIN t.nodes |-> IF t.nodes[i].id = id THEN F(t.nodes[i]) ELSE t.nodes[i]]
  BY <1>1 DEF CallGateway, Amended, Graph, MapFields
<1>3. ASSUME NEW n, Proper(n) PROVE Later(n, F(n))
  <2>1. /\ DOMAIN F(n) = NodeFields /\ F(n).id = n.id /\ F(n).kind = n.kind
        /\ F(n).addresses = n.addresses /\ F(n).names = n.names /\ F(n).mac = n.mac
    BY <1>3 DEF Proper, NodeFields
  <2> QED BY <1>3, <2>1, LaterIf
<1> HIDE DEF F
<1>4. \A i \in DOMAIN t.nodes : Later(t.nodes[i], u.nodes[i])
  BY <1>2, <1>3, LaterSelf DEF Graph
<1>5. u.nodes = [i \in DOMAIN t.nodes |-> u.nodes[i]]
  BY <1>2
<1>6. Extended(t, u) /\ Ids(u) = Ids(t)
  BY <1>2, <1>4, <1>5, Renewed
<1> QED BY <1>1, <1>6

PlaceGateway(t, id, w, s) == Amended(t, id, LAMBDA n : [Marked(n, {"gateway"}, {w}) EXCEPT !.segments = @ \cup s])
LEMMA PlaceGatewayGrows ==
  ASSUME NEW t, Graph(t), NEW id, NEW w, NEW s
  PROVE  /\ Extended(t, PlaceGateway(t, id, w, s))
         /\ Ids(PlaceGateway(t, id, w, s)) = Ids(t)
<1> DEFINE F(n) == [Marked(n, {"gateway"}, {w}) EXCEPT !.segments = @ \cup s]
<1>1. PICK u : u = PlaceGateway(t, id, w, s)
  OBVIOUS
<1>2. /\ DOMAIN u = MapFields /\ u.interface = t.interface /\ u.audits = t.audits
      /\ u.edges = t.edges /\ u.segments = t.segments
      /\ u.nodes = [i \in DOMAIN t.nodes |-> IF t.nodes[i].id = id THEN F(t.nodes[i]) ELSE t.nodes[i]]
  BY <1>1 DEF PlaceGateway, Amended, Graph, MapFields
<1>3. ASSUME NEW n, Proper(n) PROVE Later(n, F(n))
  <2>1. /\ DOMAIN F(n) = NodeFields /\ F(n).id = n.id /\ F(n).kind = n.kind
        /\ F(n).addresses = n.addresses /\ F(n).names = n.names /\ F(n).mac = n.mac
    BY <1>3 DEF Proper, NodeFields, Marked
  <2> QED BY <1>3, <2>1, LaterIf
<1> HIDE DEF F
<1>4. \A i \in DOMAIN t.nodes : Later(t.nodes[i], u.nodes[i])
  BY <1>2, <1>3, LaterSelf DEF Graph
<1>5. u.nodes = [i \in DOMAIN t.nodes |-> u.nodes[i]]
  BY <1>2
<1>6. Extended(t, u) /\ Ids(u) = Ids(t)
  BY <1>2, <1>4, <1>5, Renewed
<1> QED BY <1>1, <1>6

ConnectGateway(t, id, s) == Amended(t, id, LAMBDA n : [Marked(n, {"gateway", "router"}, {"confirmed-scope-route"})
                                                EXCEPT !.connected = @ \cup {s}])
LEMMA ConnectGatewayGrows ==
  ASSUME NEW t, Graph(t), NEW id, NEW s
  PROVE  /\ Extended(t, ConnectGateway(t, id, s))
         /\ Ids(ConnectGateway(t, id, s)) = Ids(t)
<1> DEFINE F(n) == [Marked(n, {"gateway", "router"}, {"confirmed-scope-route"})
                                                EXCEPT !.connected = @ \cup {s}]
<1>1. PICK u : u = ConnectGateway(t, id, s)
  OBVIOUS
<1>2. /\ DOMAIN u = MapFields /\ u.interface = t.interface /\ u.audits = t.audits
      /\ u.edges = t.edges /\ u.segments = t.segments
      /\ u.nodes = [i \in DOMAIN t.nodes |-> IF t.nodes[i].id = id THEN F(t.nodes[i]) ELSE t.nodes[i]]
  BY <1>1 DEF ConnectGateway, Amended, Graph, MapFields
<1>3. ASSUME NEW n, Proper(n) PROVE Later(n, F(n))
  <2>1. /\ DOMAIN F(n) = NodeFields /\ F(n).id = n.id /\ F(n).kind = n.kind
        /\ F(n).addresses = n.addresses /\ F(n).names = n.names /\ F(n).mac = n.mac
    BY <1>3 DEF Proper, NodeFields, Marked
  <2> QED BY <1>3, <2>1, LaterIf
<1> HIDE DEF F
<1>4. \A i \in DOMAIN t.nodes : Later(t.nodes[i], u.nodes[i])
  BY <1>2, <1>3, LaterSelf DEF Graph
<1>5. u.nodes = [i \in DOMAIN t.nodes |-> u.nodes[i]]
  BY <1>2
<1>6. Extended(t, u) /\ Ids(u) = Ids(t)
  BY <1>2, <1>4, <1>5, Renewed
<1> QED BY <1>1, <1>6

LEMMA DecorateSegmentKeeps ==
  ASSUME NEW t, Graph(t), Sensed(t), NEW e, IsEvidence(e), NEW network, network \notin Networks(t)
  PROVE  /\ Kept(t, DecorateSegment(t, e, network))
         /\ Networks(DecorateSegment(t, e, network)) \subseteq Networks(t) \cup {network}
<1>1. PICK id : id = SegmentId(network)
  OBVIOUS
<1> DEFINE members == {n.id : n \in {m \in ToSet(t.nodes) : Bare(m) \cap network # {}}}
           joined  == [t EXCEPT !.nodes = [i \in DOMAIN t.nodes |->
                         IF t.nodes[i].id \in members THEN [t.nodes[i] EXCEPT !.segments = @ \cup {id}]
                                                      ELSE t.nodes[i]]]
           hops    == UNION {r.gateway : r \in RouteOf(e, network)}
           why     == {IF RouteOf(e, network) = {} THEN "audit-scope" ELSE "confirmed-scope-route"}
<1>2. PICK g : g = CHOOSE x \in hops : TRUE
  OBVIOUS
<1> DEFINE new  == [Node(EndpointId(g), "endpoint") EXCEPT !.roles = {"gateway"},
                      !.addresses = {<<g, {}>>}, !.names = {g}, !.segments = {id},
                      !.provenance = {"confirmed-scope-route"}]
           old  == FirstHolding(joined, g)
           node == IF old = NoNode THEN EndpointId(g) ELSE old
           u    == IF old = NoNode THEN AddNode(joined, new)
                   ELSE Amended(joined, old, LAMBDA n :
                          [n EXCEPT !.roles = @ \cup {"gateway"}, !.segments = @ \cup {id}])
           edge == [Edge(SensorId(t.interface), node, "segment_gateway", {"confirmed-scope-route"})
                      EXCEPT !.segment = id]
           plain == Segment(network, members, {}, why)
           led   == Segment(network, members, {g}, why)
<1>3. DecorateSegment(t, e, network)
        = IF hops = {} THEN AddSegment(joined, plain) ELSE AddSegment(PutEdge(u, edge), led)
  BY <1>1, <1>2 DEF DecorateSegment, AddSegment
<1>4. Extended(t, joined)
  <2>1. PICK w : w = joined
    OBVIOUS
  <2>2. /\ DOMAIN w = MapFields /\ w.interface = t.interface /\ w.audits = t.audits
        /\ w.edges = t.edges /\ w.segments = t.segments
        /\ w.nodes = [i \in DOMAIN t.nodes |-> IF t.nodes[i].id \in members
                        THEN [t.nodes[i] EXCEPT !.segments = @ \cup {id}] ELSE t.nodes[i]]
    BY <2>1 DEF Graph, MapFields
  <2>3. ASSUME NEW n, Proper(n) PROVE Later(n, [n EXCEPT !.segments = @ \cup {id}])
    BY <2>3, LaterIf DEF Proper, NodeFields
  <2> HIDE DEF members
  <2>4. \A i \in DOMAIN t.nodes : Later(t.nodes[i], w.nodes[i])
    BY <2>2, <2>3, LaterSelf DEF Graph
  <2>5. w.nodes = [i \in DOMAIN t.nodes |-> w.nodes[i]]
    BY <2>2
  <2>6. Extended(t, w)
    BY <2>2, <2>4, <2>5, Renewed
  <2> QED BY <2>1, <2>6
<1> HIDE DEF joined, members, why
<1>5. Graph(joined) /\ joined.interface = t.interface /\ joined.segments = t.segments
  BY <1>4, ExtendedIds DEF Extended
<1>6. \A i \in DOMAIN t.segments : t.segments[i].id # id
  <2>1. \A i \in DOMAIN t.segments : t.segments[i].id = <<"segment", t.segments[i].network>>
    BY DEF Graph, Row, SegmentId
  <2>2. id = <<"segment", network>>
    BY <1>1 DEF SegmentId
  <2> QED BY <2>1, <2>2 DEF Networks
<1>7. /\ Row(plain) /\ plain.id = id /\ plain.gateways = {} /\ plain.network = network
      /\ Row(led) /\ led.id = id /\ led.gateways = {g} /\ led.network = network
  <2>1. IsFiniteSet({}) /\ IsFiniteSet({g})
    BY FS_EmptySet, FS_Singleton
  <2>2. Row(plain) /\ plain.id = SegmentId(network) /\ plain.gateways = {} /\ plain.network = network
    BY <2>1, SegmentRow
  <2>3. Row(led) /\ led.id = SegmentId(network) /\ led.gateways = {g} /\ led.network = network
    BY <2>1, SegmentRow
  <2> HIDE DEF plain, led
  <2> QED BY <1>1, <2>2, <2>3
<1> HIDE DEF plain, led
<1>8. ASSUME NEW a, Extended(t, a), NEW s, Row(s), s.id = id, s.network = network, \A x \in s.gateways : Held(a, x)
      PROVE  Kept(t, AddSegment(a, s)) /\ Networks(AddSegment(a, s)) \subseteq Networks(t) \cup {network}
  <2>1. Graph(a) /\ a.segments = t.segments /\ Kept(t, a)
    BY <1>8 DEF Extended, Grown, Kept
  <2>2. /\ Kept(a, AddSegment(a, s))
        /\ \E k : /\ DOMAIN AddSegment(a, s).segments = DOMAIN a.segments \cup {k}
                  /\ AddSegment(a, s).segments[k] = s
                  /\ \A i \in DOMAIN a.segments : AddSegment(a, s).segments[i] = a.segments[i]
    BY <1>6, <1>8, <2>1, AddSegmentKeeps
  <2>3. Networks(AddSegment(a, s)) \subseteq Networks(t) \cup {network}
    BY <1>8, <2>1, <2>2 DEF Networks
  <2> QED BY <2>1, <2>2, <2>3, KeptTrans
<1>9. CASE hops = {}
  <2>1. \A x \in plain.gateways : Held(joined, x)
    BY <1>7
  <2> QED BY <1>3, <1>4, <1>7, <1>8, <1>9, <2>1
<1>10. CASE hops # {}
  <2>1. g \in IpAddress
    <3>1. g \in hops
      BY <1>2, <1>10
    <3> QED BY <3>1, RouteOfIs
  <2>2. /\ DOMAIN new = NodeFields /\ new.id = EndpointId(g) /\ new.kind = "endpoint"
        /\ new.addresses = {<<g, {}>>}
    BY DEF Node, NodeFields
  <2> HIDE DEF new
  <2>3. Proper(new) /\ g \in Bare(new)
    BY <2>2, HolderProper
  <2>4. Extended(joined, u) /\ node \in Ids(u) /\ Held(u, g)
    <3>1. CASE old = NoNode
      <4>1. EndpointId(g) \notin Ids(joined)
        BY <1>5, <2>1, <3>1, FirstHoldingIs, FreshEndpoint
      <4>2. Extended(joined, AddNode(joined, new)) /\ Ids(AddNode(joined, new)) = Ids(joined) \cup {EndpointId(g)}
        BY <1>5, <2>2, <2>3, <4>1, AddNodeGrows
      <4> QED BY <1>5, <2>3, <3>1, <4>2, AddedHolds
    <3>2. CASE old # NoNode
      <4>1. old \in Ids(joined) /\ Held(joined, g)
        BY <1>5, <3>2, FirstHoldingIs DEF Held
      <4> DEFINE a == CallGateway(joined, old, id)
      <4>2. Extended(joined, a) /\ Ids(a) = Ids(joined)
        BY <1>5, CallGatewayGrows
      <4>3. u = a /\ node = old
        BY <3>2 DEF CallGateway, Amended
      <4> HIDE DEF a, u, node, old
      <4> QED BY <4>1, <4>2, <4>3, HeldStays DEF Extended, Grown
    <3> QED BY <3>1, <3>2
  <2> HIDE DEF u, node
  <2>5. Graph(u) /\ Kept(joined, u) /\ Kept(t, joined)
    BY <1>4, <2>4, ExtendedIds DEF Extended, Grown
  <2>6. SensorId(t.interface) \in Ids(u)
    <3>1. Kept(t, u)
      BY <2>5, KeptTrans
    <3>2. u.interface = t.interface
      BY <3>1, KeptIds
    <3> QED BY <3>1, <3>2, SensedStays
  <2>7. Joined(u, edge)
    BY <2>4, <2>6 DEF Joined, Edge, EdgeFields
  <2> HIDE DEF edge
  <2>8. PICK v : v = PutEdge(u, edge)
    OBVIOUS
  <2>9. Extended(u, v)
    BY <2>5, <2>7, <2>8, PutEdgeGrows
  <2>10. Extended(t, v)
    BY <1>4, <2>4, <2>9, ExtendedTrans
  <2>11. \A x \in led.gateways : Held(v, x)
    BY <1>7, <2>4, <2>9, HeldStays DEF Extended, Grown
  <2>12. DecorateSegment(t, e, network) = AddSegment(v, led)
    BY <1>3, <1>10, <2>8
  <2> QED BY <1>7, <1>8, <2>10, <2>11, <2>12
<1> QED BY <1>9, <1>10

\* After k targets: only their networks have segments.
SegmentsSoFar(p, q, r, k, t) ==
    /\ Graph(t) /\ Sensed(t) /\ \A n \in Networks(t) : \E j \in 1..k : n = p.targets[j]
TargetList(e) == [i \in DOMAIN e.targets |-> i]

LEMMA NextTarget ==
  ASSUME NEW e, IsEvidence(e), NEW k \in 1..Len(TargetList(e)), NEW u, SegmentsSoFar(e, e, e, k - 1, u)
  PROVE  SegmentsSoFar(e, e, e, k, IF \E j \in 1..(TargetList(e)[k] - 1) : e.targets[j] = e.targets[TargetList(e)[k]]
                                   THEN u ELSE DecorateSegment(u, e, e.targets[TargetList(e)[k]]))
<1>1. Len(e.targets) \in Nat /\ DOMAIN e.targets = 1..Len(e.targets)
  BY SeqShape DEF IsEvidence
<1>2. IsSeq(TargetList(e)) /\ Len(TargetList(e)) = Len(e.targets)
  <2>1. TargetList(e) = [i \in 1..Len(e.targets) |-> TargetList(e)[i]]
    BY <1>1 DEF TargetList
  <2> QED BY <1>1, <2>1, SeqMade
<1>3. TargetList(e)[k] = k
  BY <1>1, <1>2 DEF TargetList
<1>4. \A n \in Networks(u) : \E j \in 1..(k - 1) : n = e.targets[j]
  BY DEF SegmentsSoFar
<1>5. \A n \in Networks(u) : \E j \in 1..k : n = e.targets[j]
  <2> SUFFICES ASSUME NEW n \in Networks(u) PROVE \E j \in 1..k : n = e.targets[j]
    OBVIOUS
  <2>1. PICK j \in 1..(k - 1) : n = e.targets[j]
    BY <1>4
  <2>2. j \in 1..k
    BY <1>1, <1>2
  <2> QED BY <2>1, <2>2
<1>6. CASE \E j \in 1..(k - 1) : e.targets[j] = e.targets[k]
  BY <1>3, <1>5, <1>6 DEF SegmentsSoFar
<1>7. CASE ~ \E j \in 1..(k - 1) : e.targets[j] = e.targets[k]
  <2>1. PICK v : v = DecorateSegment(u, e, e.targets[k])
    OBVIOUS
  <2>2. e.targets[k] \notin Networks(u)
    BY <1>4, <1>7
  <2>3. Kept(u, v) /\ Networks(v) \subseteq Networks(u) \cup {e.targets[k]}
    BY <2>1, <2>2, DecorateSegmentKeeps DEF SegmentsSoFar
  <2>4. Graph(v) /\ Sensed(v)
    BY <2>3, KeptIds, SensedStays DEF SegmentsSoFar
  <2>5. k \in 1..k
    BY <1>1, <1>2
  <2>6. \A n \in Networks(v) : \E j \in 1..k : n = e.targets[j]
    BY <1>5, <2>3, <2>5
  <2> QED BY <1>3, <1>7, <2>1, <2>4, <2>6 DEF SegmentsSoFar
<1> QED BY <1>6, <1>7

TargetOp(p, q, r, t, x) == 
    IF \E j \in 1..(x - 1) : p.targets[j] = p.targets[x] THEN t ELSE DecorateSegment(t, p, p.targets[x])
Targets == INSTANCE FoldInduction WITH Op <- TargetOp, Good <- SegmentsSoFar
LEMMA DecorateSegmentsKeeps ==
  ASSUME NEW e, IsEvidence(e), NEW t, Graph(t), Sensed(t), t.segments = <<>>
  PROVE  Graph(DecorateSegments(t, e)) /\ Sensed(DecorateSegments(t, e))
<1>1. Targets!WellOrdered
  BY LeastOf DEF Targets!WellOrdered
<1>2. SegmentsSoFar(e, e, e, 0, t)
  <2>1. DOMAIN <<>> = {}
    OBVIOUS
  <2> QED BY <2>1 DEF SegmentsSoFar, Networks
<1>3. \A k \in 1..Len(TargetList(e)) : \A u : SegmentsSoFar(e, e, e, k - 1, u) => SegmentsSoFar(e, e, e, k, TargetOp(e, e, e, u, TargetList(e)[k]))
  BY NextTarget DEF TargetOp
<1>4. Len(TargetList(e)) \in Nat /\ DOMAIN TargetList(e) = 1..Len(TargetList(e))
  BY SeqShape, SeqMapped DEF IsEvidence, TargetList
<1>5. SegmentsSoFar(e, e, e, Len(TargetList(e)), Targets!Folded(e, e, e, t, TargetList(e)))
  BY <1>1, <1>2, <1>3, <1>4, Targets!FoldKeeps
<1>6. Targets!Folded(e, e, e, t, TargetList(e)) = DecorateSegments(t, e)
  BY DEF Targets!Folded, DecorateSegments, TargetList, FoldLeft, MapThenFoldSet, Max, TargetOp
<1> QED BY <1>5, <1>6 DEF SegmentsSoFar

LEMMA SegmentedTopologyIs ==
  ASSUME NEW e, IsEvidence(e)
  PROVE  Graph(SegmentedTopology(e)) /\ Sensed(SegmentedTopology(e))
<1>1. PICK t : t = AssembleTopology(e)
  OBVIOUS
<1>2. PICK u : u = DropInvalidHostDefaultRoute(t, e)
  OBVIOUS
<1>3. Graph(u) /\ Sensed(u) /\ u.segments = <<>>
  BY <1>1, <1>2, AssembleTopologyIs, DropInvalidKeeps
<1> QED BY <1>1, <1>2, <1>3, DecorateSegmentsKeeps DEF SegmentedTopology

-----------------------------------------------------------------------------
\* The gateways of the interface.
LEMMA KeptSelf ==
  ASSUME NEW t, Graph(t)
  PROVE  Kept(t, t)
BY GrownSelf DEF Grown

\* KeptSoFar: what is drawn so far has every node of p.
KeptSoFar(p, q, r, k, t) == Kept(p, t)

LEMMA SetsOfMapped ==
  ASSUME NEW s, IsSeq(s), NEW m, m = [i \in DOMAIN s |-> m[i]], NEW S, \A i \in DOMAIN s : m[i][1] \in S
  PROVE  IsSeq(m) /\ \A x \in ToSet(m) : x[1] \in S
BY SeqMapped DEF ToSet

LEMMA CandidateGatewaysAre ==
  ASSUME NEW e, IsEvidence(e)
  PROVE  /\ IsSeq(CandidateGateways(e))
         /\ \A i \in DOMAIN CandidateGateways(e) : CandidateGateways(e)[i][1] \in IpAddress
<1>1. PICK routes : routes = e.defaultRoutes \o e.hostRoute
  OBVIOUS
<1>2. IsSeq(routes) /\ ToSet(routes) = ToSet(e.defaultRoutes) \cup ToSet(e.hostRoute)
  BY <1>1, SeqConcat DEF IsEvidence
<1>3. \A i \in DOMAIN routes : routes[i].gateway \in IpAddress
  <2> SUFFICES ASSUME NEW i \in DOMAIN routes PROVE routes[i].gateway \in IpAddress
    OBVIOUS
  <2>1. routes[i] \in ToSet(routes)
    BY DEF ToSet
  <2>2. routes[i] \in ToSet(e.defaultRoutes) \cup ToSet(e.hostRoute)
    BY <1>2, <2>1
  <2> QED BY <2>2 DEF IsEvidence, ToSet
<1>4. PICK a : a = [i \in DOMAIN routes |-> <<routes[i].gateway, "interface-default-route", routes[i].interface>>]
  OBVIOUS
<1>5. PICK b : b = [i \in DOMAIN e.leases |-> <<e.leases[i].router, "dhcp-lease-router", e.leases[i].interface>>]
  OBVIOUS
<1>6. IsSeq(a) /\ \A x \in ToSet(a) : x[1] \in IpAddress
  <2>1. a = [i \in DOMAIN routes |-> a[i]] /\ \A i \in DOMAIN routes : a[i][1] \in IpAddress
    BY <1>3, <1>4
  <2> QED BY <1>2, <2>1, SetsOfMapped
<1>7. IsSeq(b) /\ \A x \in ToSet(b) : x[1] \in IpAddress
  <2>1. b = [i \in DOMAIN e.leases |-> b[i]] /\ \A i \in DOMAIN e.leases : b[i][1] \in IpAddress
    BY <1>5 DEF IsEvidence
  <2> QED BY <2>1, SetsOfMapped DEF IsEvidence
<1>8. CandidateGateways(e) = a \o b
  BY <1>1, <1>4, <1>5 DEF CandidateGateways
<1>9. IsSeq(a \o b) /\ \A x \in ToSet(a \o b) : x[1] \in IpAddress
  BY <1>6, <1>7, SeqConcat
<1> QED BY <1>8, <1>9 DEF ToSet

LEMMA InterfaceGatewayKeeps ==
  ASSUME NEW t, Graph(t), SensorId(t.interface) \in Ids(t), NEW c, c[1] \in IpAddress
  PROVE  Kept(t, InterfaceGateway(t, c))
<1> DEFINE g == c[1]
           why == c[2]
           k == SelectInSeq(t.segments, LAMBDA s : g \in s.network)
           id == IF k = 0 THEN NoNode ELSE t.segments[k].id
           inside == IF k = 0 THEN {} ELSE {id}
           old == FirstHolding(t, g)
           node == IF old = NoNode THEN EndpointId(g) ELSE old
           new == [Node(node, "endpoint") EXCEPT !.roles = {"gateway"}, !.names = {g},
                     !.addresses = {<<g, {}>>}, !.provenance = {why}, !.segments = inside]
           placed == Amended(t, node, LAMBDA n : [Marked(n, {"gateway"}, {why}) EXCEPT !.segments = @ \cup inside])
           u == IF old = NoNode THEN AddNode(t, new) ELSE placed
           v == IF k = 0 THEN u ELSE [u EXCEPT !.segments[k].gateways = @ \cup {g}]
           edge == [Edge(SensorId(t.interface), node, "segment_gateway", {why}) EXCEPT !.segment = id]
           there == HasEdge(v, LAMBDA d : /\ d.source = SensorId(t.interface) /\ d.target = node /\ why \in d.provenance
                                          /\ d.relation \in {"segment_gateway", "default_gateway"})
           I == {i \in 1..Len(t.segments) : g \in t.segments[i].network}
<1>7. InterfaceGateway(t, c) = IF there THEN v ELSE PutEdge(v, edge)
  BY DEF InterfaceGateway
<1>1. g \in IpAddress
  OBVIOUS
<1>3. k = Selection(I)
  BY DEF SelectInSeq, Selection
<1>4. placed = PlaceGateway(t, node, why, inside)
  BY DEF PlaceGateway
<1> HIDE DEF there, placed, k, I, id, inside, why, g
<1>8. Len(t.segments) \in Nat /\ DOMAIN t.segments = 1..Len(t.segments)
  BY SeqShape DEF Graph
<1>9. k = 0 \/ k \in DOMAIN t.segments
  <2>1. I \in SUBSET (1..Len(t.segments))
    BY DEF I
  <2>2. k \in I \cup {0}
    BY <1>3, <1>8, <2>1, SelectionIs
  <2> QED BY <1>8, <2>1, <2>2
<1>10. Extended(t, u) /\ node \in Ids(u) /\ Held(u, g)
  <2>1. CASE old = NoNode
    <3>1. /\ DOMAIN new = NodeFields /\ new.id = EndpointId(g) /\ new.kind = "endpoint"
          /\ new.addresses = {<<g, {}>>}
      BY <2>1 DEF Node, NodeFields
    <3>2. u = AddNode(t, new) /\ node = EndpointId(g)
      BY <2>1
    <3> HIDE DEF new, u
    <3>3. Proper(new) /\ g \in Bare(new)
      BY <3>1, HolderProper
    <3>4. EndpointId(g) \notin Ids(t)
      BY <1>1, <2>1, FirstHoldingIs, FreshEndpoint
    <3>5. Extended(t, AddNode(t, new)) /\ Ids(AddNode(t, new)) = Ids(t) \cup {EndpointId(g)}
      BY <3>1, <3>3, <3>4, AddNodeGrows
    <3> QED BY <3>2, <3>3, <3>5, AddedHolds
  <2>2. CASE old # NoNode
    <3>1. node = FirstHolding(t, g) /\ u = PlaceGateway(t, node, why, inside)
      BY <1>4, <2>2
    <3>2. node \in Ids(t) /\ Held(t, g)
      BY <2>2, <3>1, FirstHoldingIs DEF Held
    <3> HIDE DEF u
    <3>3. Extended(t, u) /\ Ids(u) = Ids(t)
      BY <3>1, PlaceGatewayGrows
    <3> QED BY <3>2, <3>3, HeldStays DEF Extended, Grown
  <2> QED BY <2>1, <2>2
<1> HIDE DEF u
<1>11. Graph(u) /\ u.segments = t.segments /\ SensorId(t.interface) \in Ids(u) /\ Kept(t, u)
  BY <1>10, ExtendedIds DEF Extended, Grown
<1>12. Kept(u, v) /\ Ids(v) = Ids(u)
  <2>1. CASE k = 0
    BY <1>11, <2>1, KeptSelf
  <2>2. CASE k # 0
    <3>1. k \in DOMAIN u.segments
      BY <1>9, <1>11, <2>2
    <3>2. /\ DOMAIN v = MapFields /\ v.interface = u.interface /\ v.audits = u.audits
          /\ v.nodes = u.nodes /\ v.edges = u.edges
          /\ v.segments = [u.segments EXCEPT ![k] = [u.segments[k] EXCEPT !.gateways = u.segments[k].gateways \cup {g}]]
      BY <1>11, <2>2 DEF Graph, MapFields
    <3> HIDE DEF v
    <3>3. v.segments = [i \in DOMAIN u.segments |-> v.segments[i]]
      BY <3>2
    <3>4. ASSUME NEW i \in DOMAIN u.segments
          PROVE  /\ DOMAIN v.segments[i] = SegmentFields /\ IsFiniteSet(v.segments[i].gateways)
                 /\ v.segments[i].id = u.segments[i].id /\ v.segments[i].network = u.segments[i].network
                 /\ \A x \in v.segments[i].gateways : x \in u.segments[i].gateways \/ Held(u, x)
      <4>1. DOMAIN u.segments[i] = SegmentFields /\ IsFiniteSet(u.segments[i].gateways)
        BY <1>11 DEF Graph, Row
      <4>2. IsFiniteSet(u.segments[i].gateways \cup {g})
        BY <4>1, FS_AddElement
      <4>3. \/ v.segments[i] = u.segments[i]
            \/ v.segments[i] = [u.segments[i] EXCEPT !.gateways = u.segments[i].gateways \cup {g}]
        BY <3>2
      <4> QED BY <1>10, <4>1, <4>2, <4>3 DEF SegmentFields
    <3> QED BY <1>11, <3>2, <3>3, <3>4, Relisted
  <2> QED BY <2>1, <2>2
<1> HIDE DEF v
<1>13. Joined(v, edge)
  BY <1>10, <1>11, <1>12 DEF Joined, Edge, EdgeFields
<1> HIDE DEF edge
<1>14. Graph(v) /\ Kept(t, v)
  BY <1>11, <1>12, KeptTrans DEF Kept
<1>15. Kept(v, PutEdge(v, edge))
  BY <1>13, <1>14, PutEdgeGrows DEF Extended, Grown
<1>16. Kept(t, PutEdge(v, edge))
  BY <1>14, <1>15, KeptTrans
<1> QED BY <1>7, <1>14, <1>16

InterfaceOp(p, q, r, t, x) == IF x[3] # q.interface THEN t ELSE InterfaceGateway(t, x)
InterfaceList == INSTANCE FoldInduction WITH Op <- InterfaceOp, Good <- KeptSoFar
LEMMA DecorateInterfaceGatewayKeeps ==
  ASSUME NEW t, Graph(t), SensorId(t.interface) \in Ids(t), NEW e, IsEvidence(e)
  PROVE  Kept(t, DecorateInterfaceGateway(t, e))
<1>1. InterfaceList!WellOrdered
  BY LeastOf DEF InterfaceList!WellOrdered
<1>2. KeptSoFar(t, e, e, 0, t)
  BY KeptSelf DEF KeptSoFar
<1>3. \A k \in 1..Len(CandidateGateways(e)) : \A u : KeptSoFar(t, e, e, k - 1, u) => KeptSoFar(t, e, e, k, InterfaceOp(t, e, e, u, CandidateGateways(e)[k]))
  <2> SUFFICES ASSUME NEW k \in 1..Len(CandidateGateways(e)), NEW u, Kept(t, u)
               PROVE  Kept(t, InterfaceOp(t, e, e, u, CandidateGateways(e)[k]))
    BY DEF KeptSoFar
  <2>1. Graph(u) /\ u.interface = t.interface /\ Ids(t) \subseteq Ids(u)
    BY KeptIds
  <2>0. Len(CandidateGateways(e)) \in Nat /\ DOMAIN CandidateGateways(e) = 1..Len(CandidateGateways(e))
    BY CandidateGatewaysAre, SeqShape
  <2>2. CandidateGateways(e)[k][1] \in IpAddress
    BY <2>0, CandidateGatewaysAre
  <2>3. Kept(u, InterfaceGateway(u, CandidateGateways(e)[k]))
    BY <2>1, <2>2, InterfaceGatewayKeeps
  <2> QED BY <2>3, KeptTrans DEF InterfaceOp
<1>4. Len(CandidateGateways(e)) \in Nat /\ DOMAIN CandidateGateways(e) = 1..Len(CandidateGateways(e))
  BY CandidateGatewaysAre, SeqShape
<1>5. KeptSoFar(t, e, e, Len(CandidateGateways(e)), InterfaceList!Folded(t, e, e, t, CandidateGateways(e)))
  BY <1>1, <1>2, <1>3, <1>4, InterfaceList!FoldKeeps
<1>6. InterfaceList!Folded(t, e, e, t, CandidateGateways(e)) = DecorateInterfaceGateway(t, e)
  BY DEF InterfaceList!Folded, DecorateInterfaceGateway, FoldLeft, MapThenFoldSet, Max, InterfaceOp
<1> QED BY <1>5, <1>6 DEF KeptSoFar

-----------------------------------------------------------------------------
\* Routing: every segment is a node.
SegmentIds(t) == {t.segments[i].id : i \in DOMAIN t.segments}
Drawn(t) == SegmentIds(t) \subseteq Ids(t)

LEMMA SegmentNodeProper ==
  ASSUME NEW s, s.id = SegmentId(s.network)
  PROVE  Proper(SegmentNode(s)) /\ SegmentNode(s).id = s.id
<1>1. DOMAIN SegmentNode(s) = NodeFields /\ SegmentNode(s).id = s.id /\ SegmentNode(s).kind = "segment"
  BY DEF SegmentNode, Node, NodeFields
<1>2. s.id # NoNode /\ s.id[1] = "segment"
  BY DEF SegmentId, NoNode
<1> QED BY <1>1, <1>2 DEF Proper

DrawnSoFar(p, q, r, k, t) == Extended(p, t) /\ \A j \in 1..k : p.segments[j].id \in Ids(t)

LEMMA DrawSegment ==
  ASSUME NEW t, Graph(t), NEW k \in 1..Len(t.segments), NEW u, DrawnSoFar(t, t, t, k - 1, u)
  PROVE  DrawnSoFar(t, t, t, k, IF t.segments[k].id \in Ids(u) THEN u ELSE AddNode(u, SegmentNode(t.segments[k])))
<1>1. Len(t.segments) \in Nat /\ DOMAIN t.segments = 1..Len(t.segments)
  BY SeqShape DEF Graph
<1>2. PICK s : s = t.segments[k]
  OBVIOUS
<1>3. Proper(SegmentNode(s)) /\ SegmentNode(s).id = s.id
  BY <1>1, <1>2, SegmentNodeProper DEF Graph, Row
<1>4. Graph(u) /\ Extended(t, u) /\ \A j \in 1..(k - 1) : t.segments[j].id \in Ids(u)
  BY ExtendedIds DEF DrawnSoFar
<1>5. PICK v : v = IF s.id \in Ids(u) THEN u ELSE AddNode(u, SegmentNode(s))
  OBVIOUS
<1>6. Extended(u, v) /\ Ids(u) \subseteq Ids(v) /\ s.id \in Ids(v)
  BY <1>3, <1>4, <1>5, AddNodeGrows, ExtendedSelf
<1>7. \A j \in 1..k : j \in 1..(k - 1) \/ j = k
  BY <1>1
<1>8. \A j \in 1..k : t.segments[j].id \in Ids(v)
  BY <1>2, <1>4, <1>6, <1>7
<1>9. Extended(t, v)
  BY <1>4, <1>6, ExtendedTrans
<1> QED BY <1>2, <1>5, <1>8, <1>9 DEF DrawnSoFar

DrawOp(p, q, r, t, x) == IF x.id \in Ids(t) THEN t ELSE AddNode(t, SegmentNode(x))
SegmentList == INSTANCE FoldInduction WITH Op <- DrawOp, Good <- DrawnSoFar
LEMMA DrawSegmentsGrows ==
  ASSUME NEW t, Graph(t)
  PROVE  DrawnSoFar(t, t, t, Len(t.segments), DrawSegments(t))
<1>1. SegmentList!WellOrdered
  BY LeastOf DEF SegmentList!WellOrdered
<1>2. DrawnSoFar(t, t, t, 0, t)
  BY ExtendedSelf DEF DrawnSoFar
<1>3. \A k \in 1..Len(t.segments) : \A u : DrawnSoFar(t, t, t, k - 1, u) => DrawnSoFar(t, t, t, k, DrawOp(t, t, t, u, t.segments[k]))
  BY DrawSegment DEF DrawOp
<1>4. Len(t.segments) \in Nat /\ DOMAIN t.segments = 1..Len(t.segments)
  BY SeqShape DEF Graph
<1>5. DrawnSoFar(t, t, t, Len(t.segments), SegmentList!Folded(t, t, t, t, t.segments))
  BY <1>1, <1>2, <1>3, <1>4, SegmentList!FoldKeeps
<1>6. SegmentList!Folded(t, t, t, t, t.segments) = DrawSegments(t)
  BY DEF SegmentList!Folded, DrawSegments, FoldLeft, MapThenFoldSet, Max, DrawOp
<1> QED BY <1>5, <1>6 DEF DrawnSoFar

LEMMA RewriteGatewayEdgesKeeps ==
  ASSUME NEW t, Graph(t)
  PROVE  /\ Kept(t, RewriteGatewayEdges(t)) /\ Ids(RewriteGatewayEdges(t)) = Ids(t)
         /\ RewriteGatewayEdges(t).segments = t.segments
<1>1. PICK u : u = RewriteGatewayEdges(t)
  OBVIOUS
<1> DEFINE known  == {GatewayForSegment(t, s) : s \in ToSet(t.segments)} \ {NoNode}
           moves(d)   == d.relation = "segment_gateway" /\ d.segment \in Ids(t)
           replaced(d) == /\ d.relation = "default_gateway" /\ d.source[1] = "wirescope"
                          /\ d.target \in known /\ "default-route" \in d.provenance
           again(i)   == \E j \in 1..(i - 1) : /\ moves(t.edges[j])
                                               /\ t.edges[j].segment = t.edges[i].segment
                                               /\ t.edges[j].target = t.edges[i].target
           moved(d)   == IF moves(d) THEN [d EXCEPT !.source = d.segment] ELSE d
           I == {i \in DOMAIN t.edges : ~ replaced(t.edges[i]) /\ ~ (moves(t.edges[i]) /\ again(i))}
<1>2. PICK kept : kept = Ascending(I)
  OBVIOUS
<1>3. u = [t EXCEPT !.edges = [i \in DOMAIN kept |-> moved(t.edges[kept[i]])]]
  BY <1>1, <1>2 DEF RewriteGatewayEdges
<1>4. I \in SUBSET DOMAIN t.edges
  OBVIOUS
<1> HIDE DEF I
<1>5. Len(t.edges) \in Nat /\ DOMAIN t.edges = 1..Len(t.edges)
  BY SeqShape DEF Graph
<1>6. IsSeq(kept) /\ \A k \in DOMAIN kept : kept[k] \in DOMAIN t.edges
  BY <1>2, <1>4, <1>5, AscendingIs
<1>7. /\ DOMAIN u = MapFields /\ u.interface = t.interface /\ u.audits = t.audits
      /\ u.nodes = t.nodes /\ u.segments = t.segments
      /\ u.edges = [i \in DOMAIN kept |-> moved(t.edges[kept[i]])]
  BY <1>3 DEF Graph, MapFields
<1>8. Ids(u) = Ids(t)
  BY <1>7 DEF Ids
<1>9. ASSUME NEW d, Joined(t, d) PROVE Joined(u, moved(d))
  BY <1>8, <1>9 DEF Joined, EdgeFields
<1> HIDE DEF moved
<1>10. IsSeq(u.edges) /\ DOMAIN u.edges = DOMAIN kept
  <2>1. u.edges = [i \in DOMAIN kept |-> u.edges[i]]
    BY <1>7
  <2> QED BY <1>6, <2>1, SeqMapped
<1>11. \A i \in DOMAIN u.edges : Joined(u, u.edges[i])
  BY <1>6, <1>7, <1>9, <1>10 DEF Graph
<1>12. Graph(u)
  BY <1>7, <1>10, <1>11 DEF Graph, Held
<1>13. Kept(t, u)
  BY <1>7, <1>12, LaterSelf DEF Kept, Graph
<1> QED BY <1>1, <1>7, <1>8, <1>13

LEMMA GatewayForSegmentIs ==
  ASSUME NEW t, Graph(t), NEW s
  PROVE  GatewayForSegment(t, s) = NoNode \/ GatewayForSegment(t, s) \in Ids(t)
<1> DEFINE I == {i \in 1..Len(t.nodes) : Bare(t.nodes[i]) \cap s.gateways # {}}
<1>1. PICK k : k = Selection(I)
  OBVIOUS
<1>2. GatewayForSegment(t, s) = IF k = 0 THEN NoNode ELSE t.nodes[k].id
  BY <1>1 DEF GatewayForSegment, SelectInSeq, Selection, NodeAt
<1>3. Len(t.nodes) \in Nat /\ DOMAIN t.nodes = 1..Len(t.nodes)
  BY SeqShape DEF Graph
<1>4. I \in SUBSET (1..Len(t.nodes))
  OBVIOUS
<1> HIDE DEF I
<1>5. k \in I \cup {0}
  BY <1>1, <1>3, <1>4, SelectionIs
<1> QED BY <1>2, <1>3, <1>4, <1>5 DEF Ids

LEMMA AttachGatewayGrows ==
  ASSUME NEW t, Graph(t), NEW s, s.id \in Ids(t)
  PROVE  Extended(t, AttachGateway(t, s))
<1>1. PICK g : g = GatewayForSegment(t, s)
  OBVIOUS
<1>2. PICK u : u = ConnectGateway(t, g, s.id)
  OBVIOUS
<1> DEFINE e == [Edge(s.id, g, "segment_gateway", {"confirmed-scope-route"}) EXCEPT !.segment = s.id]
<1>3. \/ AttachGateway(t, s) = t
      \/ AttachGateway(t, s) = u
      \/ g # NoNode /\ AttachGateway(t, s) = PutEdge(u, e)
  BY <1>1, <1>2 DEF AttachGateway, ConnectGateway, Amended
<1>4. Extended(t, u) /\ Ids(u) = Ids(t)
  BY <1>2, ConnectGatewayGrows
<1>5. ASSUME g # NoNode PROVE Joined(u, e)
  <2>1. g \in Ids(t)
    BY <1>1, <1>5, GatewayForSegmentIs
  <2> QED BY <1>4, <2>1 DEF Joined, Edge, EdgeFields
<1> HIDE DEF e
<1>6. ASSUME g # NoNode PROVE Extended(t, PutEdge(u, e))
  <2>1. Extended(u, PutEdge(u, e))
    BY <1>4, <1>5, <1>6, ExtendedIds, PutEdgeGrows
  <2> QED BY <1>4, <2>1, ExtendedTrans
<1> QED BY <1>3, <1>4, <1>6, ExtendedSelf

AttachOp(p, q, r, t, x) == AttachGateway(t, x)
Attached == INSTANCE FoldInduction WITH Op <- AttachOp, Good <- SoFar
LEMMA AttachGatewaysGrows ==
  ASSUME NEW t, Graph(t), Drawn(t)
  PROVE  Extended(t, AttachGateways(t))
<1>1. Attached!WellOrdered
  BY LeastOf DEF Attached!WellOrdered
<1>2. SoFar(t, t, t, 0, t)
  BY ExtendedSelf DEF SoFar
<1>3. \A k \in 1..Len(t.segments) : \A u : SoFar(t, t, t, k - 1, u) => SoFar(t, t, t, k, AttachOp(t, t, t, u, t.segments[k]))
  <2> SUFFICES ASSUME NEW k \in 1..Len(t.segments), NEW u, Extended(t, u)
               PROVE  Extended(t, AttachOp(t, t, t, u, t.segments[k]))
    BY DEF SoFar
  <2>1. Graph(u) /\ u.interface = t.interface /\ Ids(t) \subseteq Ids(u)
    BY ExtendedIds
  <2>0. Len(t.segments) \in Nat /\ DOMAIN t.segments = 1..Len(t.segments)
    BY SeqShape DEF Graph
  <2>2. t.segments[k].id \in Ids(u)
    BY <2>0, <2>1 DEF Drawn, SegmentIds
  <2>3. Extended(u, AttachGateway(u, t.segments[k]))
    BY <2>1, <2>2, AttachGatewayGrows
  <2> QED BY <2>3, ExtendedTrans DEF AttachOp
<1>4. Len(t.segments) \in Nat /\ DOMAIN t.segments = 1..Len(t.segments)
  BY SeqShape DEF Graph
<1>5. SoFar(t, t, t, Len(t.segments), Attached!Folded(t, t, t, t, t.segments))
  BY <1>1, <1>2, <1>3, <1>4, Attached!FoldKeeps
<1>6. Attached!Folded(t, t, t, t, t.segments) = AttachGateways(t)
  BY DEF Attached!Folded, AttachGateways, FoldLeft, MapThenFoldSet, Max, AttachOp
<1> QED BY <1>5, <1>6 DEF SoFar

LEMMA DecorateRoutedTopologyKeeps ==
  ASSUME NEW t, Graph(t)
  PROVE  Kept(t, DecorateRoutedTopology(t)) /\ Drawn(DecorateRoutedTopology(t))
<1>1. PICK u : u = DrawSegments(t)
  OBVIOUS
<1>2. PICK v : v = RewriteGatewayEdges(u)
  OBVIOUS
<1>3. PICK w : w = AttachGateways(v)
  OBVIOUS
<1>4. PICK x : x = [w EXCEPT !.nodes = [i \in DOMAIN w.nodes |-> MultiHomed(w.nodes[i])]]
  OBVIOUS
<1> DEFINE withRole(r) == {n.id : n \in {m \in ToSet(x.nodes) : r \in m.roles}}
<1>5. PICK y : y = [x EXCEPT !.routers = withRole("router"),
                             !.candidates = withRole("router-candidate") \ withRole("router")]
  OBVIOUS
<1>6. DecorateRoutedTopology(t) = y
  BY <1>1, <1>2, <1>3, <1>4, <1>5 DEF DecorateRoutedTopology
<1>7. DrawnSoFar(t, t, t, Len(t.segments), u)
  BY <1>1, DrawSegmentsGrows
<1>8. Graph(u) /\ Kept(t, u) /\ u.segments = t.segments
  BY <1>7, ExtendedIds DEF DrawnSoFar, Extended, Grown
<1>9. Drawn(u)
  <2>1. DOMAIN t.segments = 1..Len(t.segments)
    BY SeqShape DEF Graph
  <2> QED BY <1>7, <1>8, <2>1 DEF Drawn, SegmentIds, DrawnSoFar
<1>10. Kept(u, v) /\ Graph(v) /\ Drawn(v)
  BY <1>2, <1>8, <1>9, RewriteGatewayEdgesKeeps DEF Drawn, SegmentIds, Kept
<1>11. Extended(v, w)
  BY <1>3, <1>10, AttachGatewaysGrows
<1>12. Graph(w) /\ Drawn(w)
  BY <1>10, <1>11, ExtendedIds DEF Extended, Drawn, SegmentIds
<1>13. Extended(w, x)
  <2>1. /\ DOMAIN x = MapFields /\ x.interface = w.interface /\ x.audits = w.audits
        /\ x.edges = w.edges /\ x.segments = w.segments
        /\ x.nodes = [i \in DOMAIN w.nodes |-> MultiHomed(w.nodes[i])]
    BY <1>4, <1>12 DEF Graph, MapFields
  <2>2. ASSUME NEW n, Proper(n) PROVE Later(n, MultiHomed(n))
    <3>1. /\ DOMAIN MultiHomed(n) = NodeFields /\ MultiHomed(n).id = n.id /\ MultiHomed(n).kind = n.kind
          /\ MultiHomed(n).addresses = n.addresses /\ MultiHomed(n).names = n.names /\ MultiHomed(n).mac = n.mac
      BY <2>2 DEF Proper, NodeFields, MultiHomed, Marked
    <3> QED BY <2>2, <3>1, LaterIf
  <2>3. \A i \in DOMAIN w.nodes : Later(w.nodes[i], x.nodes[i])
    BY <1>12, <2>1, <2>2 DEF Graph
  <2>4. x.nodes = [i \in DOMAIN w.nodes |-> x.nodes[i]]
    BY <2>1
  <2> QED BY <1>12, <2>1, <2>3, <2>4, Renewed
<1>14. Graph(x)
  BY <1>13, ExtendedIds
<1>15. Extended(x, y)
  <2> HIDE DEF withRole
  <2>1. /\ DOMAIN y = MapFields /\ y.interface = x.interface /\ y.audits = x.audits
        /\ y.nodes = x.nodes /\ y.segments = x.segments /\ y.edges = x.edges
    BY <1>5, <1>14 DEF Graph, MapFields
  <2> QED BY <1>14, <2>1, Alike
<1>16. Extended(w, y)
  BY <1>13, <1>15, ExtendedTrans
<1>17. Drawn(y)
  BY <1>12, <1>16, ExtendedIds DEF Extended, Drawn, SegmentIds
<1>18. Kept(t, y)
  <2>1. Kept(v, w) /\ Kept(w, y)
    BY <1>11, <1>16 DEF Extended, Grown
  <2> QED BY <1>8, <1>10, <2>1, KeptTrans
<1> QED BY <1>6, <1>17, <1>18

-----------------------------------------------------------------------------
\* Traced routes.  Segments are looked up by scope and by address.
LEMMA DrawnStays ==
  ASSUME NEW b, NEW t, Drawn(b), Kept(b, t), SegmentIds(t) \subseteq SegmentIds(b)
  PROVE  Drawn(t)
BY KeptIds DEF Drawn

LEMMA ExtendedDrawn ==
  ASSUME NEW b, NEW t, Extended(b, t), Drawn(b)
  PROVE  Kept(b, t) /\ Drawn(t) /\ Graph(t)
BY ExtendedIds DEF Drawn, Extended, SegmentIds, Grown

LEMMA SegmentAtIs ==
  ASSUME NEW t, Graph(t), NEW I \in SUBSET (1..Len(t.segments))
  PROVE  SegmentAt(t, Selection(I)) = NoNode \/ SegmentAt(t, Selection(I)) \in SegmentIds(t)
<1>1. Len(t.segments) \in Nat /\ DOMAIN t.segments = 1..Len(t.segments)
  BY SeqShape DEF Graph
<1>2. Selection(I) \in I \cup {0}
  BY <1>1, SelectionIs
<1> QED BY <1>1, <1>2 DEF SegmentAt, SegmentIds

LEMMA SegmentForScopeIs ==
  ASSUME NEW t, Graph(t), NEW c
  PROVE  SegmentForScope(t, c) = NoNode \/ SegmentForScope(t, c) \in SegmentIds(t)
<1> DEFINE I == {i \in 1..Len(t.segments) : t.segments[i].network = c.scope \/ c.target \in t.segments[i].network}
<1>1. SegmentForScope(t, c) = SegmentAt(t, Selection(I))
  BY DEF SegmentForScope, SelectInSeq, Selection
<1>2. I \in SUBSET (1..Len(t.segments))
  OBVIOUS
<1> HIDE DEF I
<1> QED BY <1>1, <1>2, SegmentAtIs

LEMMA SegmentForAddressIs ==
  ASSUME NEW t, Graph(t), NEW ip
  PROVE  SegmentForAddress(t, ip) = NoNode \/ SegmentForAddress(t, ip) \in SegmentIds(t)
<1>1. PICK list : list = [i \in DOMAIN t.segments |-> i]
  OBVIOUS
<1> DEFINE holds(i) == ip \in t.segments[i].network
           size(i)  == Cardinality(t.segments[i].network)
           I == {i \in 1..Len(list) : holds(list[i]) /\ \A j \in DOMAIN t.segments : holds(j) => size(list[i]) <= size(j)}
<1>2. SegmentForAddress(t, ip) = SegmentAt(t, Selection(I))
  BY <1>1 DEF SegmentForAddress, SelectInSeq, Selection
<1>3. Len(t.segments) \in Nat /\ DOMAIN t.segments = 1..Len(t.segments)
  BY SeqShape DEF Graph
<1>4. Len(list) = Len(t.segments)
  <2>1. list = [i \in 1..Len(t.segments) |-> list[i]]
    BY <1>1, <1>3
  <2> QED BY <1>3, <2>1, SeqMade
<1>5. I \in SUBSET (1..Len(t.segments))
  BY <1>4
<1> HIDE DEF I
<1> QED BY <1>2, <1>5, SegmentAtIs

\* A source segment is new when it is added: it holds the address that none held.
LEMMA EnsureSourceSegmentGrows ==
  ASSUME NEW t, Graph(t), Drawn(t), NEW ip
  PROVE  Grown(t, EnsureSourceSegment(t, ip)) /\ Drawn(EnsureSourceSegment(t, ip))
<1>1. CASE (\E s \in ToSet(t.segments) : ip \in s.network) \/ SourceNetwork(t, ip) = {}
  BY <1>1, GrownSelf DEF EnsureSourceSegment
<1>2. CASE ~ ((\E s \in ToSet(t.segments) : ip \in s.network) \/ SourceNetwork(t, ip) = {})
  <2>1. PICK network : network = CHOOSE n \in SourceNetwork(t, ip) : TRUE
    OBVIOUS
  <2>2. network \in SourceNetwork(t, ip)
    BY <1>2, <2>1
  <2>3. PICK a : /\ a \in UNION {n.addresses : n \in {m \in ToSet(t.nodes) : m.kind = "wirescope"}}
                 /\ a[1] = ip /\ a[2] # {} /\ network = a[2]
    BY <2>2 DEF SourceNetwork
  <2>4. PICK i \in DOMAIN t.nodes : t.nodes[i].kind = "wirescope" /\ a \in t.nodes[i].addresses
    BY <2>3 DEF ToSet
  <2>5. Placed(a)
    BY <2>4 DEF Graph, Proper
  <2>6. ip \in network
    BY <2>3, <2>5 DEF Placed
  <2> DEFINE s == Segment(network, {SensorId(t.interface)}, {}, {"environment-interface-address"})
  <2>7. Row(s) /\ s.id = SegmentId(network) /\ s.gateways = {} /\ s.network = network
    BY SegmentRow, FS_EmptySet
  <2>8. PICK u : u = AddSegment(t, s)
    OBVIOUS
  <2>9. EnsureSourceSegment(t, ip) = IF s.id \in Ids(u) THEN u ELSE AddNode(u, SegmentNode(s))
    BY <1>2, <2>1, <2>8 DEF EnsureSourceSegment, AddSegment
  <2> HIDE DEF s
  <2>10. \A j \in DOMAIN t.segments : t.segments[j].id # s.id
    <3> SUFFICES ASSUME NEW j \in DOMAIN t.segments, t.segments[j].id = s.id PROVE FALSE
      OBVIOUS
    <3>1. t.segments[j].id[2] = t.segments[j].network /\ s.id[2] = network
      BY <2>7 DEF Graph, Row, SegmentId
    <3>2. t.segments[j].network = network
      BY <3>1
    <3> QED BY <1>2, <2>6, <3>2 DEF ToSet
  <2>11. /\ Grown(t, u) /\ Ids(u) = Ids(t)
         /\ \E k : /\ DOMAIN u.segments = DOMAIN t.segments \cup {k} /\ u.segments[k] = s
                   /\ \A j \in DOMAIN t.segments : u.segments[j] = t.segments[j]
    BY <2>7, <2>8, <2>10, AddSegmentKeeps
  <2>12. SegmentIds(u) \subseteq SegmentIds(t) \cup {s.id}
    BY <2>11 DEF SegmentIds
  <2>13. Graph(u)
    BY <2>11, GrownIds
  <2>14. CASE s.id \in Ids(u)
    BY <2>9, <2>11, <2>12, <2>14 DEF Drawn
  <2>15. CASE s.id \notin Ids(u)
    <3>1. PICK v : v = AddNode(u, SegmentNode(s))
      OBVIOUS
    <3>2. Proper(SegmentNode(s)) /\ SegmentNode(s).id = s.id
      BY <2>7, SegmentNodeProper
    <3>3. Extended(u, v) /\ Ids(v) = Ids(u) \cup {s.id}
      BY <2>13, <2>15, <3>1, <3>2, AddNodeGrows
    <3>4. Grown(t, v) /\ SegmentIds(v) = SegmentIds(u)
      BY <2>11, <3>3, GrownTrans DEF Extended, SegmentIds
    <3> QED BY <2>9, <2>11, <2>12, <2>15, <3>1, <3>3, <3>4 DEF Drawn
  <2> QED BY <2>14, <2>15
<1> QED BY <1>1, <1>2

\* Fewer edges.
LEMMA Thinned ==
  ASSUME NEW t, Graph(t), NEW I \in SUBSET DOMAIN t.edges
  PROVE  LET u == [t EXCEPT !.edges = Picked(t.edges, I)]
         IN  Kept(t, u) /\ Ids(u) = Ids(t) /\ u.segments = t.segments
<1>1. PICK kept : kept = Picked(t.edges, I)
  OBVIOUS
<1>2. IsSeq(kept) /\ \A k \in DOMAIN kept : \E i \in I : kept[k] = t.edges[i]
  BY <1>1, PickedIs DEF Graph
<1>3. PICK u : u = [t EXCEPT !.edges = kept]
  OBVIOUS
<1>4. /\ DOMAIN u = MapFields /\ u.interface = t.interface /\ u.audits = t.audits
      /\ u.nodes = t.nodes /\ u.segments = t.segments /\ u.edges = kept
  BY <1>3 DEF Graph, MapFields
<1>5. Ids(u) = Ids(t)
  BY <1>4 DEF Ids
<1>6. \A k \in DOMAIN kept : Joined(u, kept[k])
  BY <1>2, <1>5 DEF Graph, Joined
<1>7. Graph(u)
  BY <1>2, <1>4, <1>6 DEF Graph, Held
<1>8. Kept(t, u)
  BY <1>4, <1>7, LaterSelf DEF Kept, Graph
<1> QED BY <1>1, <1>3, <1>4, <1>5, <1>8

\* Segments that gain or lose a gateway.
DropGateway(t, id, g) == WithSegment(t, id, LAMBDA s : [s EXCEPT !.gateways = @ \ {g},
                                                                    !.provenance = @ \cup {"confirmed-scope-route"}])
LEMMA DropGatewayKeeps ==
  ASSUME NEW t, Graph(t), NEW id, NEW g
  PROVE  /\ Kept(t, DropGateway(t, id, g)) /\ Ids(DropGateway(t, id, g)) = Ids(t)
         /\ SegmentIds(DropGateway(t, id, g)) = SegmentIds(t)
<1> DEFINE F(s) == [s EXCEPT !.gateways = @ \ {g},
                                                                    !.provenance = @ \cup {"confirmed-scope-route"}]
<1>1. PICK u : u = DropGateway(t, id, g)
  OBVIOUS
<1>2. /\ DOMAIN u = MapFields /\ u.interface = t.interface /\ u.audits = t.audits
      /\ u.nodes = t.nodes /\ u.edges = t.edges
      /\ u.segments = [i \in DOMAIN t.segments |-> IF t.segments[i].id = id THEN F(t.segments[i]) ELSE t.segments[i]]
  BY <1>1 DEF DropGateway, WithSegment, Graph, MapFields
<1>3. ASSUME NEW i \in DOMAIN t.segments
      PROVE  /\ DOMAIN F(t.segments[i]) = SegmentFields /\ IsFiniteSet(F(t.segments[i]).gateways)
             /\ F(t.segments[i]).id = t.segments[i].id /\ F(t.segments[i]).network = t.segments[i].network
             /\ \A x \in F(t.segments[i]).gateways : x \in t.segments[i].gateways \/ Held(t, x)
  <2>1. DOMAIN t.segments[i] = SegmentFields /\ IsFiniteSet(t.segments[i].gateways)
    BY DEF Graph, Row
  <2>2. IsFiniteSet(t.segments[i].gateways \ {g})
    BY <2>1, FS_Subset
  <2> QED BY <2>1, <2>2 DEF SegmentFields
<1> HIDE DEF F
<1>4. ASSUME NEW i \in DOMAIN t.segments
      PROVE  /\ DOMAIN u.segments[i] = SegmentFields /\ IsFiniteSet(u.segments[i].gateways)
             /\ u.segments[i].id = t.segments[i].id /\ u.segments[i].network = t.segments[i].network
             /\ \A x \in u.segments[i].gateways : x \in t.segments[i].gateways \/ Held(t, x)
  <2>1. DOMAIN t.segments[i] = SegmentFields /\ IsFiniteSet(t.segments[i].gateways)
    BY DEF Graph, Row
  <2> QED BY <1>2, <1>3, <2>1
<1>5. u.segments = [i \in DOMAIN t.segments |-> u.segments[i]]
  BY <1>2
<1>6. Kept(t, u) /\ Ids(u) = Ids(t) /\ DOMAIN u.segments = DOMAIN t.segments
  BY <1>2, <1>4, <1>5, Relisted
<1>8. SegmentIds(u) = SegmentIds(t)
  BY <1>4, <1>6 DEF SegmentIds
<1> QED BY <1>1, <1>6, <1>8

ListGateway(t, id, g) == WithSegment(t, id, LAMBDA s : [s EXCEPT !.gateways = @ \cup {g}])
LEMMA ListGatewayKeeps ==
  ASSUME NEW t, Graph(t), NEW id, NEW g, Held(t, g)
  PROVE  /\ Kept(t, ListGateway(t, id, g)) /\ Ids(ListGateway(t, id, g)) = Ids(t)
         /\ SegmentIds(ListGateway(t, id, g)) = SegmentIds(t)
<1> DEFINE F(s) == [s EXCEPT !.gateways = @ \cup {g}]
<1>1. PICK u : u = ListGateway(t, id, g)
  OBVIOUS
<1>2. /\ DOMAIN u = MapFields /\ u.interface = t.interface /\ u.audits = t.audits
      /\ u.nodes = t.nodes /\ u.edges = t.edges
      /\ u.segments = [i \in DOMAIN t.segments |-> IF t.segments[i].id = id THEN F(t.segments[i]) ELSE t.segments[i]]
  BY <1>1 DEF ListGateway, WithSegment, Graph, MapFields
<1>3. ASSUME NEW i \in DOMAIN t.segments
      PROVE  /\ DOMAIN F(t.segments[i]) = SegmentFields /\ IsFiniteSet(F(t.segments[i]).gateways)
             /\ F(t.segments[i]).id = t.segments[i].id /\ F(t.segments[i]).network = t.segments[i].network
             /\ \A x \in F(t.segments[i]).gateways : x \in t.segments[i].gateways \/ Held(t, x)
  <2>1. DOMAIN t.segments[i] = SegmentFields /\ IsFiniteSet(t.segments[i].gateways)
    BY DEF Graph, Row
  <2>2. IsFiniteSet(t.segments[i].gateways \cup {g})
    BY <2>1, FS_AddElement
  <2> QED BY <2>1, <2>2 DEF SegmentFields
<1> HIDE DEF F
<1>4. ASSUME NEW i \in DOMAIN t.segments
      PROVE  /\ DOMAIN u.segments[i] = SegmentFields /\ IsFiniteSet(u.segments[i].gateways)
             /\ u.segments[i].id = t.segments[i].id /\ u.segments[i].network = t.segments[i].network
             /\ \A x \in u.segments[i].gateways : x \in t.segments[i].gateways \/ Held(t, x)
  <2>1. DOMAIN t.segments[i] = SegmentFields /\ IsFiniteSet(t.segments[i].gateways)
    BY DEF Graph, Row
  <2> QED BY <1>2, <1>3, <2>1
<1>5. u.segments = [i \in DOMAIN t.segments |-> u.segments[i]]
  BY <1>2
<1>6. Kept(t, u) /\ Ids(u) = Ids(t) /\ DOMAIN u.segments = DOMAIN t.segments
  BY <1>2, <1>4, <1>5, Relisted
<1>8. SegmentIds(u) = SegmentIds(t)
  BY <1>4, <1>6 DEF SegmentIds
<1> QED BY <1>1, <1>6, <1>8

RouteGateway(t, id, target, from) == Amended(t, id, LAMBDA n : [Marked(n, {"gateway", "router"}, {"confirmed-scope-route"})
                                                         EXCEPT !.connected = (@ \ {target}) \cup from])
LEMMA RouteGatewayGrows ==
  ASSUME NEW t, Graph(t), NEW id, NEW target, NEW from
  PROVE  /\ Extended(t, RouteGateway(t, id, target, from))
         /\ Ids(RouteGateway(t, id, target, from)) = Ids(t)
<1> DEFINE F(n) == [Marked(n, {"gateway", "router"}, {"confirmed-scope-route"})
                                                         EXCEPT !.connected = (@ \ {target}) \cup from]
<1>1. PICK u : u = RouteGateway(t, id, target, from)
  OBVIOUS
<1>2. /\ DOMAIN u = MapFields /\ u.interface = t.interface /\ u.audits = t.audits
      /\ u.edges = t.edges /\ u.segments = t.segments
      /\ u.nodes = [i \in DOMAIN t.nodes |-> IF t.nodes[i].id = id THEN F(t.nodes[i]) ELSE t.nodes[i]]
  BY <1>1 DEF RouteGateway, Amended, Graph, MapFields
<1>3. ASSUME NEW n, Proper(n) PROVE Later(n, F(n))
  <2>1. /\ DOMAIN F(n) = NodeFields /\ F(n).id = n.id /\ F(n).kind = n.kind
        /\ F(n).addresses = n.addresses /\ F(n).names = n.names /\ F(n).mac = n.mac
    BY <1>3 DEF Proper, NodeFields, Marked
  <2> QED BY <1>3, <2>1, LaterIf
<1> HIDE DEF F
<1>4. \A i \in DOMAIN t.nodes : Later(t.nodes[i], u.nodes[i])
  BY <1>2, <1>3, LaterSelf DEF Graph
<1>5. u.nodes = [i \in DOMAIN t.nodes |-> u.nodes[i]]
  BY <1>2
<1>6. Extended(t, u) /\ Ids(u) = Ids(t)
  BY <1>2, <1>4, <1>5, Renewed
<1> QED BY <1>1, <1>6

\* A node made for the hop g of a route.
LEMMA HopProper ==
  ASSUME NEW n, DOMAIN n = NodeFields, NEW g, n.id = <<"route-hop", g>>, n.kind = "network-device", g \in Bare(n)
  PROVE  Proper(n)
<1>1. n.id # NoNode /\ n.id[1] = "route-hop" /\ n.id[2] = g
  BY DEF NoNode
<1> QED BY <1>1 DEF Proper

LEMMA FreshHop ==
  ASSUME NEW t, Graph(t), NEW g, \A i \in DOMAIN t.nodes : ~ (g \in Bare(t.nodes[i]))
  PROVE  <<"route-hop", g>> \notin Ids(t)
<1> SUFFICES ASSUME NEW i \in DOMAIN t.nodes, t.nodes[i].id = <<"route-hop", g>> PROVE FALSE
  BY DEF Ids
<1>1. t.nodes[i].id[1] = "route-hop" /\ t.nodes[i].id[2] = g
  OBVIOUS
<1> QED BY <1>1 DEF Graph, Proper

LEMMA CorrectRoutedGatewayKeeps ==
  ASSUME NEW t, Graph(t), Drawn(t), NEW c
  PROVE  Kept(t, CorrectRoutedGateway(t, c)) /\ Drawn(CorrectRoutedGateway(t, c))
<1> DEFINE target == SegmentForScope(t, c)
           u      == EnsureSourceSegment(t, c.source)
           source == SegmentForAddress(u, c.source)
           from   == IF source = NoNode THEN {} ELSE {source}
           g      == CHOOSE x \in c.gateway : TRUE
           old    == LastHolding(u, g)
           node   == IF old = NoNode THEN <<"route-hop", g>> ELSE old
           new    == [Node(node, "network-device") EXCEPT !.roles = {"gateway", "router"},
                        !.addresses = {<<g, {}>>}, !.names = {g}, !.connected = from,
                        !.provenance = {"confirmed-scope-route"}]
           met    == Amended(u, node, LAMBDA n : [Marked(n, {"gateway", "router"}, {"confirmed-scope-route"})
                                                    EXCEPT !.connected = (@ \ {target}) \cup from])
           v      == IF old = NoNode THEN AddNode(u, new) ELSE met
           thin   == [v EXCEPT !.edges = Chosen(@, LAMBDA d :
                           ~ (/\ d.relation = "segment_gateway" /\ d.source = target /\ d.target = node
                              /\ "confirmed-scope-route" \in d.provenance))]
           w      == WithSegment(thin, target, LAMBDA s : [s EXCEPT !.gateways = @ \ {g},
                                                    !.provenance = @ \cup {"confirmed-scope-route"}])
           x      == WithSegment(w, source, LAMBDA s : [s EXCEPT !.gateways = @ \cup {g}])
           there  == HasEdge(x, LAMBDA d : d.relation = "segment_gateway" /\ d.source = source /\ d.target = node)
           edge   == [Edge(source, node, "segment_gateway", {"confirmed-scope-route"})
                         EXCEPT !.segment = source, !.key = <<"source-gateway", source, node>>]
           I      == {i \in DOMAIN v.edges : ~ (/\ v.edges[i].relation = "segment_gateway" /\ v.edges[i].source = target
                                                /\ v.edges[i].target = node
                                                /\ "confirmed-scope-route" \in v.edges[i].provenance)}
<1>1. CorrectRoutedGateway(t, c) = IF target = NoNode \/ c.gateway = {} THEN t
                                   ELSE IF source = NoNode THEN w
                                   ELSE IF there THEN x ELSE PutEdge(x, edge)
  BY DEF CorrectRoutedGateway
<1>2. met = RouteGateway(u, node, target, from)
  BY DEF RouteGateway
<1>3. thin = [v EXCEPT !.edges = Picked(v.edges, I)]
  BY DEF Chosen, Picked
<1>4. w = DropGateway(thin, target, g)
  BY DEF DropGateway
<1>5. x = ListGateway(w, source, g)
  BY DEF ListGateway
<1>6. /\ DOMAIN new = NodeFields /\ new.id = node /\ new.kind = "network-device" /\ new.addresses = {<<g, {}>>}
  BY DEF Node, NodeFields
<1>7. I \in SUBSET DOMAIN v.edges
  OBVIOUS
<1> HIDE DEF x, w, thin, I, met, new, there, from, g, target
<1>8. Grown(t, u) /\ Drawn(u) /\ Graph(u) /\ Kept(t, u)
  BY EnsureSourceSegmentGrows, GrownIds DEF Grown
<1>9. source = NoNode \/ source \in SegmentIds(u)
  BY <1>8, SegmentForAddressIs
<1> HIDE DEF u, source
<1>10. Extended(u, v) /\ node \in Ids(v) /\ Held(v, g)
  <2>1. CASE old = NoNode
    <3>1. v = AddNode(u, new) /\ node = <<"route-hop", g>>
      BY <2>1
    <3>2. g \in Bare(new)
      BY <1>6 DEF Bare
    <3>3. node \notin Ids(u)
      BY <1>8, <2>1, <3>1, LastHoldingIs, FreshHop
    <3> HIDE DEF v, node
    <3>4. Proper(new)
      BY <1>6, <3>1, <3>2, HopProper
    <3>5. Extended(u, v) /\ Ids(v) = Ids(u) \cup {node}
      BY <1>6, <1>8, <3>1, <3>3, <3>4, AddNodeGrows
    <3> QED BY <1>8, <3>1, <3>2, <3>5, AddedHolds
  <2>2. CASE old # NoNode
    <3>1. v = RouteGateway(u, node, target, from) /\ node = LastHolding(u, g)
      BY <1>2, <2>2
    <3>2. node \in Ids(u) /\ Held(u, g)
      BY <1>8, <2>2, <3>1, LastHoldingIs DEF Held
    <3> HIDE DEF v, node
    <3>3. Extended(u, v) /\ Ids(v) = Ids(u)
      BY <1>8, <3>1, RouteGatewayGrows
    <3> QED BY <3>2, <3>3, HeldStays DEF Extended, Grown
  <2> QED BY <2>1, <2>2
<1> HIDE DEF v, node
<1>11. Kept(u, v) /\ Graph(v) /\ v.segments = u.segments
  BY <1>10, ExtendedIds DEF Extended, Grown
<1>12. Kept(v, thin) /\ Ids(thin) = Ids(v) /\ thin.segments = u.segments /\ Graph(thin)
  BY <1>3, <1>7, <1>11, Thinned, KeptIds
<1>20. SegmentIds(thin) = SegmentIds(u)
  BY <1>12 DEF SegmentIds
<1>13. Kept(thin, w) /\ Ids(w) = Ids(thin) /\ SegmentIds(w) = SegmentIds(u) /\ Graph(w)
  BY <1>4, <1>12, <1>20, DropGatewayKeeps, KeptIds
<1>14. Held(w, g) /\ Kept(t, w)
  <2>1. Kept(v, w)
    BY <1>12, <1>13, KeptTrans
  <2>2. Kept(t, v)
    BY <1>8, <1>11, KeptTrans
  <2> QED BY <1>10, <2>1, <2>2, HeldStays, KeptTrans
<1>15. Kept(w, x) /\ Ids(x) = Ids(w) /\ SegmentIds(x) = SegmentIds(u) /\ Graph(x)
  BY <1>5, <1>13, <1>14, ListGatewayKeeps, KeptIds
<1>16. Ids(u) \subseteq Ids(w) /\ Drawn(w) /\ Drawn(x)
  <2>1. Ids(u) \subseteq Ids(w)
    BY <1>11, <1>12, <1>13, KeptIds
  <2> QED BY <1>8, <1>13, <1>15, <2>1 DEF Drawn
<1>17. ASSUME source # NoNode PROVE Joined(x, edge)
  <2>1. source \in Ids(x) /\ node \in Ids(x)
    BY <1>9, <1>10, <1>12, <1>13, <1>15, <1>16, <1>17 DEF Drawn
  <2> QED BY <2>1 DEF Joined, Edge, EdgeFields
<1> HIDE DEF edge
<1>18. Kept(t, x)
  BY <1>14, <1>15, KeptTrans
<1>19. ASSUME source # NoNode PROVE Kept(t, PutEdge(x, edge)) /\ Drawn(PutEdge(x, edge))
  <2>1. Extended(x, PutEdge(x, edge))
    BY <1>15, <1>17, <1>19, PutEdgeGrows
  <2> QED BY <1>16, <1>18, <2>1, ExtendedDrawn, KeptTrans
<1> QED BY <1>1, <1>14, <1>16, <1>18, <1>19, KeptSelf

\* KeptDrawn: what is drawn so far has every node of p, and a node per segment.
KeptDrawn(p, q, r, k, t) == Kept(p, t) /\ Drawn(t)

CorrectOp(p, q, r, t, x) == CorrectRoutedGateway(t, x)
Corrected == INSTANCE FoldInduction WITH Op <- CorrectOp, Good <- KeptDrawn
LEMMA CorrectGatewaysKeeps ==
  ASSUME NEW t, Graph(t), Drawn(t), NEW d, IsTrace(d)
  PROVE  Kept(t, CorrectGateways(t, d)) /\ Drawn(CorrectGateways(t, d))
<1>1. Corrected!WellOrdered
  BY LeastOf DEF Corrected!WellOrdered
<1>2. KeptDrawn(t, t, t, 0, t)
  BY KeptSelf DEF KeptDrawn
<1>3. \A k \in 1..Len((d.targets \o d.traces)) : \A u : KeptDrawn(t, t, t, k - 1, u) => KeptDrawn(t, t, t, k, CorrectOp(t, t, t, u, (d.targets \o d.traces)[k]))
  <2> SUFFICES ASSUME NEW k \in 1..Len(d.targets \o d.traces), NEW u, Kept(t, u), Drawn(u)
               PROVE  /\ Kept(t, CorrectRoutedGateway(u, (d.targets \o d.traces)[k]))
                      /\ Drawn(CorrectRoutedGateway(u, (d.targets \o d.traces)[k]))
    BY DEF KeptDrawn, CorrectOp
  <2> QED BY KeptIds, CorrectRoutedGatewayKeeps, KeptTrans
<1>4. Len((d.targets \o d.traces)) \in Nat /\ DOMAIN (d.targets \o d.traces) = 1..Len((d.targets \o d.traces))
  BY SeqConcat, SeqShape DEF IsTrace
<1>5. KeptDrawn(t, t, t, Len((d.targets \o d.traces)), Corrected!Folded(t, t, t, t, (d.targets \o d.traces)))
  BY <1>1, <1>2, <1>3, <1>4, Corrected!FoldKeeps
<1>6. Corrected!Folded(t, t, t, t, (d.targets \o d.traces)) = CorrectGateways(t, d)
  BY DEF Corrected!Folded, CorrectGateways, FoldLeft, MapThenFoldSet, Max, CorrectOp
<1> QED BY <1>5, <1>6 DEF KeptDrawn

\* The hops of a trace: what is drawn has grown from p, the node before the next
\* hop is on the map, and so is the last one once a hop has answered.
HopsSoFar(p, q, r, k, w) ==
    /\ Extended(p, w.map) /\ (w.previous = NoNode \/ w.previous \in Ids(w.map))
    /\ w.responded => w.last \in Ids(w.map)

LEMMA AddHopKeeps ==
  ASSUME NEW p, NEW q, NEW r, NEW k, NEW l, NEW w, HopsSoFar(p, q, r, k, w), NEW hop, NEW at, NEW gateway
  PROVE  HopsSoFar(p, q, r, l, AddHop(w, hop, at, gateway))
<1> DEFINE t     == w.map
           ttl   == hop[1]
           known == IF hop[2] = {} THEN NoNode ELSE LastHolding(t, CHOOSE x \in hop[2] : TRUE)
           node  == IF hop[2] = {} THEN <<"route-gap", at, ttl>>
                    ELSE IF known # NoNode THEN known ELSE <<"route-hop", CHOOSE x \in hop[2] : TRUE>>
           new   == [Node(node, IF hop[2] = {} THEN "route-gap" ELSE "network-device")
                       EXCEPT !.addresses = {<<x, {}>> : x \in hop[2]}, !.names = hop[2],
                              !.roles = {IF hop[2] = {} THEN "unknown-hop" ELSE "route-hop"},
                              !.provenance = {"route-trace"}]
           u     == PutNode(t, new)
           drawn == /\ gateway # NoNode /\ node = gateway
                    /\ HasEdge(u, LAMBDA d : d.relation = "segment_gateway" /\ d.source = w.previous /\ d.target = gateway)
           e     == [Edge(w.previous, node, "route_hop", {"route-trace"})
                       EXCEPT !.key = <<"route-trace", at, ttl>>]
           v     == IF w.previous = NoNode \/ w.previous = node \/ drawn THEN u ELSE PutKeyed(u, e)
<1>1. AddHop(w, hop, at, gateway)
        = [map |-> v, previous |-> node, last |-> node, responded |-> w.responded \/ hop[2] # {}]
  BY DEF AddHop
<1>2. /\ DOMAIN new = NodeFields /\ new.id = node /\ new.addresses = {<<x, {}>> : x \in hop[2]}
      /\ new.kind = IF hop[2] = {} THEN "route-gap" ELSE "network-device"
  BY DEF Node, NodeFields
<1> HIDE DEF new
<1>3. Graph(t) /\ Extended(p, t)
  BY ExtendedIds DEF HopsSoFar
<1>4. ASSUME new.id \notin Ids(t) PROVE Proper(new)
  <2>1. CASE hop[2] = {}
    <3>1. new.id # NoNode /\ new.id[1] = "route-gap" /\ new.kind = "route-gap"
      BY <1>2, <2>1 DEF NoNode
    <3> QED BY <1>2, <3>1 DEF Proper
  <2>2. CASE hop[2] # {}
    <3>1. PICK g : g = CHOOSE x \in hop[2] : TRUE
      OBVIOUS
    <3>2. g \in hop[2]
      BY <2>2, <3>1
    <3>3. node = <<"route-hop", g>>
      <4>1. LastHolding(t, g) = NoNode \/ LastHolding(t, g) \in Ids(t)
        BY <1>3, LastHoldingIs
      <4> QED BY <1>2, <1>4, <2>2, <3>1, <4>1
    <3> HIDE DEF node
    <3>4. g \in Bare(new)
      <4>1. <<g, {}>> \in new.addresses /\ <<g, {}>>[1] = g
        BY <1>2, <3>2
      <4> QED BY <4>1 DEF Bare
    <3> QED BY <1>2, <2>2, <3>3, <3>4, HopProper
  <2> QED BY <2>1, <2>2
<1>5. Extended(t, u) /\ node \in Ids(u)
  BY <1>2, <1>3, <1>4, PutNodeGrows
<1> HIDE DEF u, node, drawn
<1>6. Graph(u) /\ (w.previous = NoNode \/ w.previous \in Ids(u))
  BY <1>5, ExtendedIds DEF HopsSoFar
<1>7. w.previous # NoNode => Joined(u, e)
  BY <1>5, <1>6 DEF Joined, Edge, EdgeFields
<1> HIDE DEF e
<1>8. Extended(u, v) /\ node \in Ids(v)
  BY <1>5, <1>6, <1>7, PutKeyedGrows, ExtendedSelf, ExtendedIds
<1> HIDE DEF v
<1>9. Extended(p, v)
  BY <1>3, <1>5, <1>8, ExtendedTrans
<1> QED BY <1>1, <1>8, <1>9 DEF HopsSoFar

HopOp(p, q, r, t, x) == AddHop(t, x, q, r)
Hops == INSTANCE FoldInduction WITH Op <- HopOp, Good <- HopsSoFar
LEMMA AddHopsKeeps ==
  ASSUME NEW p, NEW w, NEW hops, IsSeq(hops), NEW at, NEW gateway, HopsSoFar(p, at, gateway, 0, w)
  PROVE  HopsSoFar(p, at, gateway, Len(hops), AddHops(w, hops, at, gateway))
<1>1. Hops!WellOrdered
  BY LeastOf DEF Hops!WellOrdered
<1>2. HopsSoFar(p, at, gateway, 0, w)
  OBVIOUS
<1>3. \A k \in 1..Len(hops) : \A u : HopsSoFar(p, at, gateway, k - 1, u) => HopsSoFar(p, at, gateway, k, HopOp(p, at, gateway, u, hops[k]))
  BY AddHopKeeps DEF HopOp
<1>4. Len(hops) \in Nat /\ DOMAIN hops = 1..Len(hops)
  BY SeqShape
<1>5. HopsSoFar(p, at, gateway, Len(hops), Hops!Folded(p, at, gateway, w, hops))
  BY <1>1, <1>2, <1>3, <1>4, Hops!FoldKeeps
<1>6. Hops!Folded(p, at, gateway, w, hops) = AddHops(w, hops, at, gateway)
  BY DEF Hops!Folded, AddHops, FoldLeft, MapThenFoldSet, Max, HopOp
<1> QED BY <1>5, <1>6 DEF HopsSoFar

LEMMA DecorateTraceKeeps ==
  ASSUME NEW t, Graph(t), Drawn(t), NEW trace, IsSeq(trace.hops), NEW at
  PROVE  Kept(t, DecorateTrace(t, trace, at)) /\ Drawn(DecorateTrace(t, trace, at))
<1> DEFINE target  == SegmentForScope(t, trace)
           u       == EnsureSourceSegment(t, trace.source)
           source  == SegmentForAddress(u, trace.source)
           gateway == IF trace.gateway = {} THEN NoNode ELSE LastHolding(u, CHOOSE x \in trace.gateway : TRUE)
           start   == [map |-> u, previous |-> IF source # NoNode THEN source ELSE gateway,
                       last |-> NoNode, responded |-> FALSE]
           end     == AddHops(start, trace.hops, at, gateway)
           arrived == HasEdge(end.map, LAMBDA d : d.relation = "route_target" /\ d.source = end.last /\ d.target = target)
           edge    == [Edge(end.last, target, "route_target", {"route-trace"}) EXCEPT !.key = <<"route-target", at>>]
<1>1. DecorateTrace(t, trace, at)
        = IF target = NoNode THEN t
          ELSE IF ~ end.responded \/ ~ trace.reached \/ end.last = target \/ arrived THEN end.map
          ELSE PutEdge(end.map, edge)
  BY DEF DecorateTrace
<1>2. Grown(t, u) /\ Drawn(u) /\ Graph(u) /\ Kept(t, u)
  BY EnsureSourceSegmentGrows, GrownIds DEF Grown
<1>3. source = NoNode \/ source \in Ids(u)
  BY <1>2, SegmentForAddressIs DEF Drawn
<1>4. gateway = NoNode \/ gateway \in Ids(u)
  BY <1>2, LastHoldingIs
<1> HIDE DEF u, source, gateway, arrived
<1>5. HopsSoFar(u, at, gateway, 0, start)
  BY <1>2, <1>3, <1>4, ExtendedSelf DEF HopsSoFar
<1> HIDE DEF start
<1>6. HopsSoFar(u, at, gateway, Len(trace.hops), end)
  BY <1>5, AddHopsKeeps
<1> HIDE DEF end
<1>7. Kept(t, end.map) /\ Drawn(end.map) /\ Graph(end.map)
  BY <1>2, <1>6, ExtendedDrawn, KeptTrans DEF HopsSoFar
<1>8. ASSUME target # NoNode, end.responded PROVE Joined(end.map, edge)
  <2>1. target \in Ids(end.map)
    BY <1>7, <1>8, SegmentForScopeIs, KeptIds DEF Drawn
  <2>2. end.last \in Ids(end.map)
    BY <1>6, <1>8 DEF HopsSoFar
  <2> QED BY <2>1, <2>2 DEF Joined, Edge, EdgeFields
<1> HIDE DEF target, edge
<1>9. ASSUME target # NoNode, end.responded PROVE Kept(t, PutEdge(end.map, edge)) /\ Drawn(PutEdge(end.map, edge))
  BY <1>7, <1>8, <1>9, PutEdgeGrows, ExtendedDrawn, KeptTrans
<1> QED BY <1>1, <1>7, <1>9, KeptSelf

TraceList(d) == [i \in DOMAIN d.traces |-> i]
LEMMA TraceListIs ==
  ASSUME NEW d, IsTrace(d)
  PROVE  /\ IsSeq(TraceList(d)) /\ \A k \in DOMAIN TraceList(d) : TraceList(d)[k] \in DOMAIN d.traces
         /\ Len(TraceList(d)) \in Nat /\ DOMAIN TraceList(d) = 1..Len(TraceList(d))
<1>1. TraceList(d) = [i \in DOMAIN d.traces |-> TraceList(d)[i]] /\ \A i \in DOMAIN d.traces : TraceList(d)[i] = i
  BY DEF TraceList
<1>2. IsSeq(TraceList(d)) /\ DOMAIN TraceList(d) = DOMAIN d.traces
  BY <1>1, SeqMapped DEF IsTrace
<1> QED BY <1>1, <1>2, SeqShape

TraceOp(p, q, r, t, x) == 
    IF q.traces[x].completed THEN DecorateTrace(t, q.traces[x], <<q.id, x>>) ELSE t
Traced == INSTANCE FoldInduction WITH Op <- TraceOp, Good <- KeptDrawn
LEMMA DecorateTracesKeeps ==
  ASSUME NEW t, Graph(t), Drawn(t), NEW d, IsTrace(d)
  PROVE  Kept(t, DecorateTraces(t, d)) /\ Drawn(DecorateTraces(t, d))
<1>1. Traced!WellOrdered
  BY LeastOf DEF Traced!WellOrdered
<1>2. KeptDrawn(t, d, d, 0, t)
  BY KeptSelf DEF KeptDrawn
<1>3. \A k \in 1..Len(TraceList(d)) : \A u : KeptDrawn(t, d, d, k - 1, u) => KeptDrawn(t, d, d, k, TraceOp(t, d, d, u, TraceList(d)[k]))
  <2> SUFFICES ASSUME NEW k \in 1..Len(TraceList(d)), NEW u, Kept(t, u), Drawn(u)
               PROVE  KeptDrawn(t, d, d, k, TraceOp(t, d, d, u, TraceList(d)[k]))
    BY DEF KeptDrawn
  <2>1. PICK i \in DOMAIN d.traces : i = TraceList(d)[k]
    BY TraceListIs
  <2>2. /\ Kept(u, DecorateTrace(u, d.traces[i], <<d.id, i>>))
        /\ Drawn(DecorateTrace(u, d.traces[i], <<d.id, i>>))
    BY KeptIds, DecorateTraceKeeps DEF IsTrace
  <2> QED BY <2>1, <2>2, KeptTrans DEF KeptDrawn, TraceOp
<1>4. Len(TraceList(d)) \in Nat /\ DOMAIN TraceList(d) = 1..Len(TraceList(d))
  BY TraceListIs
<1>5. KeptDrawn(t, d, d, Len(TraceList(d)), Traced!Folded(t, d, d, t, TraceList(d)))
  BY <1>1, <1>2, <1>3, <1>4, Traced!FoldKeeps
<1>6. Traced!Folded(t, d, d, t, TraceList(d)) = DecorateTraces(t, d)
  BY DEF Traced!Folded, DecorateTraces, TraceList, FoldLeft, MapThenFoldSet, Max, TraceOp
<1> QED BY <1>5, <1>6 DEF KeptDrawn

LEMMA DecorateRouteTraceKeeps ==
  ASSUME NEW t, Graph(t), Drawn(t), NEW d, IsTrace(d)
  PROVE  Kept(t, DecorateRouteTrace(t, d)) /\ Drawn(DecorateRouteTrace(t, d))
<1>1. PICK u : u = CorrectGateways(t, d)
  OBVIOUS
<1>2. Kept(t, u) /\ Drawn(u) /\ Graph(u)
  BY <1>1, CorrectGatewaysKeeps, KeptIds
<1>3. Kept(u, DecorateTraces(u, d)) /\ Drawn(DecorateTraces(u, d))
  BY <1>2, DecorateTracesKeeps
<1> QED BY <1>1, <1>2, <1>3, KeptTrans DEF DecorateRouteTrace

-----------------------------------------------------------------------------
\* The tables of a device.  They add to the map and take nothing away.
LEMMA ManagedDeviceIs ==
  ASSUME NEW t, Graph(t), NEW d, NEW prefix
  PROVE  \/ ManagedDevice(t, d, prefix) \in Ids(t)
         \/ ManagedDevice(t, d, prefix) = <<prefix, d.target>>
BY FirstHoldingIs DEF ManagedDevice

\* An identifier that says nothing about the node: no kind, no address.
Plain(id) == id # NoNode /\ id[1] \notin {"segment", "wirescope", "endpoint", "group", "route-hop", "ssh-route-gateway"}
LEMMA PlainProper ==
  ASSUME NEW n, DOMAIN n = NodeFields, Plain(n.id), n.kind \in {"endpoint", "network-device", "network-interface"}
  PROVE  Proper(n)
BY DEF Plain, Proper

\* Nodes that gain names, a MAC, VLANs, addresses or segments.
NameNode(t, id, x) == Amended(t, id, LAMBDA n : [n EXCEPT !.names = @ \cup x])
LEMMA NameNodeGrows ==
  ASSUME NEW t, Graph(t), NEW id, NEW x
  PROVE  /\ Extended(t, NameNode(t, id, x))
         /\ Ids(NameNode(t, id, x)) = Ids(t)
<1> DEFINE F(n) == [n EXCEPT !.names = @ \cup x]
<1>1. PICK u : u = NameNode(t, id, x)
  OBVIOUS
<1>2. /\ DOMAIN u = MapFields /\ u.interface = t.interface /\ u.audits = t.audits
      /\ u.edges = t.edges /\ u.segments = t.segments
      /\ u.nodes = [i \in DOMAIN t.nodes |-> IF t.nodes[i].id = id THEN F(t.nodes[i]) ELSE t.nodes[i]]
  BY <1>1 DEF NameNode, Amended, Graph, MapFields
<1>3. ASSUME NEW n, Proper(n) PROVE Later(n, F(n))
  <2>1. /\ DOMAIN F(n) = NodeFields /\ F(n).id = n.id /\ F(n).kind = n.kind
        /\ F(n).addresses = n.addresses /\ F(n).names = n.names \cup x /\ F(n).mac = n.mac
    BY <1>3 DEF Proper, NodeFields
  <2> HIDE DEF F
  <2> QED BY <2>1 DEF Later
<1> HIDE DEF F
<1>4. \A i \in DOMAIN t.nodes : Later(t.nodes[i], u.nodes[i])
  BY <1>2, <1>3, LaterSelf DEF Graph
<1>5. u.nodes = [i \in DOMAIN t.nodes |-> u.nodes[i]]
  BY <1>2
<1>6. Extended(t, u) /\ Ids(u) = Ids(t)
  BY <1>2, <1>4, <1>5, Renewed
<1> QED BY <1>1, <1>6

GiveMac(t, id, x) == Amended(t, id, LAMBDA n : [n EXCEPT !.mac = IF @ = {} THEN x ELSE @])
LEMMA GiveMacGrows ==
  ASSUME NEW t, Graph(t), NEW id, NEW x
  PROVE  /\ Extended(t, GiveMac(t, id, x))
         /\ Ids(GiveMac(t, id, x)) = Ids(t)
<1> DEFINE F(n) == [n EXCEPT !.mac = IF @ = {} THEN x ELSE @]
<1>1. PICK u : u = GiveMac(t, id, x)
  OBVIOUS
<1>2. /\ DOMAIN u = MapFields /\ u.interface = t.interface /\ u.audits = t.audits
      /\ u.edges = t.edges /\ u.segments = t.segments
      /\ u.nodes = [i \in DOMAIN t.nodes |-> IF t.nodes[i].id = id THEN F(t.nodes[i]) ELSE t.nodes[i]]
  BY <1>1 DEF GiveMac, Amended, Graph, MapFields
<1>3. ASSUME NEW n, Proper(n) PROVE Later(n, F(n))
  <2>1. /\ DOMAIN F(n) = NodeFields /\ F(n).id = n.id /\ F(n).kind = n.kind
        /\ F(n).addresses = n.addresses /\ F(n).names = n.names /\ F(n).mac = IF n.mac = {} THEN x ELSE n.mac
    BY <1>3 DEF Proper, NodeFields
  <2> HIDE DEF F
  <2> QED BY <2>1 DEF Later
<1> HIDE DEF F
<1>4. \A i \in DOMAIN t.nodes : Later(t.nodes[i], u.nodes[i])
  BY <1>2, <1>3, LaterSelf DEF Graph
<1>5. u.nodes = [i \in DOMAIN t.nodes |-> u.nodes[i]]
  BY <1>2
<1>6. Extended(t, u) /\ Ids(u) = Ids(t)
  BY <1>2, <1>4, <1>5, Renewed
<1> QED BY <1>1, <1>6

TagNode(t, id, w, x) == Amended(t, id, LAMBDA n : [Marked(n, {}, {w}) EXCEPT !.vlans = @ \cup x])
LEMMA TagNodeGrows ==
  ASSUME NEW t, Graph(t), NEW id, NEW w, NEW x
  PROVE  /\ Extended(t, TagNode(t, id, w, x))
         /\ Ids(TagNode(t, id, w, x)) = Ids(t)
<1> DEFINE F(n) == [Marked(n, {}, {w}) EXCEPT !.vlans = @ \cup x]
<1>1. PICK u : u = TagNode(t, id, w, x)
  OBVIOUS
<1>2. /\ DOMAIN u = MapFields /\ u.interface = t.interface /\ u.audits = t.audits
      /\ u.edges = t.edges /\ u.segments = t.segments
      /\ u.nodes = [i \in DOMAIN t.nodes |-> IF t.nodes[i].id = id THEN F(t.nodes[i]) ELSE t.nodes[i]]
  BY <1>1 DEF TagNode, Amended, Graph, MapFields
<1>3. ASSUME NEW n, Proper(n) PROVE Later(n, F(n))
  <2>1. /\ DOMAIN F(n) = NodeFields /\ F(n).id = n.id /\ F(n).kind = n.kind
        /\ F(n).addresses = n.addresses /\ F(n).names = n.names /\ F(n).mac = n.mac
    BY <1>3 DEF Proper, NodeFields, Marked
  <2> QED BY <1>3, <2>1, LaterIf
<1> HIDE DEF F
<1>4. \A i \in DOMAIN t.nodes : Later(t.nodes[i], u.nodes[i])
  BY <1>2, <1>3, LaterSelf DEF Graph
<1>5. u.nodes = [i \in DOMAIN t.nodes |-> u.nodes[i]]
  BY <1>2
<1>6. Extended(t, u) /\ Ids(u) = Ids(t)
  BY <1>2, <1>4, <1>5, Renewed
<1> QED BY <1>1, <1>6

OwnAddress(t, id, a) == Amended(t, id, LAMBDA n : [n EXCEPT !.addresses = @ \cup {a}])
LEMMA OwnAddressGrows ==
  ASSUME NEW t, Graph(t), NEW id, NEW a, Placed(a)
  PROVE  /\ Extended(t, OwnAddress(t, id, a))
         /\ Ids(OwnAddress(t, id, a)) = Ids(t)
<1> DEFINE F(n) == [n EXCEPT !.addresses = @ \cup {a}]
<1>1. PICK u : u = OwnAddress(t, id, a)
  OBVIOUS
<1>2. /\ DOMAIN u = MapFields /\ u.interface = t.interface /\ u.audits = t.audits
      /\ u.edges = t.edges /\ u.segments = t.segments
      /\ u.nodes = [i \in DOMAIN t.nodes |-> IF t.nodes[i].id = id THEN F(t.nodes[i]) ELSE t.nodes[i]]
  BY <1>1 DEF OwnAddress, Amended, Graph, MapFields
<1>3. ASSUME NEW n, Proper(n) PROVE Later(n, F(n))
  <2>1. /\ DOMAIN F(n) = NodeFields /\ F(n).id = n.id /\ F(n).kind = n.kind
        /\ F(n).addresses = n.addresses \cup {a} /\ F(n).names = n.names /\ F(n).mac = n.mac
    BY <1>3 DEF Proper, NodeFields
  <2> HIDE DEF F
  <2> QED BY <2>1 DEF Later
<1> HIDE DEF F
<1>4. \A i \in DOMAIN t.nodes : Later(t.nodes[i], u.nodes[i])
  BY <1>2, <1>3, LaterSelf DEF Graph
<1>5. u.nodes = [i \in DOMAIN t.nodes |-> u.nodes[i]]
  BY <1>2
<1>6. Extended(t, u) /\ Ids(u) = Ids(t)
  BY <1>2, <1>4, <1>5, Renewed
<1> QED BY <1>1, <1>6

PlaceNode(t, id, s, x) == Amended(t, id, LAMBDA n : [n EXCEPT !.segments = @ \cup s, !.vlans = @ \cup x])
LEMMA PlaceNodeGrows ==
  ASSUME NEW t, Graph(t), NEW id, NEW s, NEW x
  PROVE  /\ Extended(t, PlaceNode(t, id, s, x))
         /\ Ids(PlaceNode(t, id, s, x)) = Ids(t)
<1> DEFINE F(n) == [n EXCEPT !.segments = @ \cup s, !.vlans = @ \cup x]
<1>1. PICK u : u = PlaceNode(t, id, s, x)
  OBVIOUS
<1>2. /\ DOMAIN u = MapFields /\ u.interface = t.interface /\ u.audits = t.audits
      /\ u.edges = t.edges /\ u.segments = t.segments
      /\ u.nodes = [i \in DOMAIN t.nodes |-> IF t.nodes[i].id = id THEN F(t.nodes[i]) ELSE t.nodes[i]]
  BY <1>1 DEF PlaceNode, Amended, Graph, MapFields
<1>3. ASSUME NEW n, Proper(n) PROVE Later(n, F(n))
  <2>1. /\ DOMAIN F(n) = NodeFields /\ F(n).id = n.id /\ F(n).kind = n.kind
        /\ F(n).addresses = n.addresses /\ F(n).names = n.names /\ F(n).mac = n.mac
    BY <1>3 DEF Proper, NodeFields
  <2> QED BY <1>3, <2>1, LaterIf
<1> HIDE DEF F
<1>4. \A i \in DOMAIN t.nodes : Later(t.nodes[i], u.nodes[i])
  BY <1>2, <1>3, LaterSelf DEF Graph
<1>5. u.nodes = [i \in DOMAIN t.nodes |-> u.nodes[i]]
  BY <1>2
<1>6. Extended(t, u) /\ Ids(u) = Ids(t)
  BY <1>2, <1>4, <1>5, Renewed
<1> QED BY <1>1, <1>6

ManageNode(t, id, S) == Amended(t, id, LAMBDA n : [Marked(n, {}, {"snmp-lldp-management-address"})
                                      EXCEPT !.addresses = @ \cup {<<ip, {}>> : ip \in S}])
LEMMA ManageNodeGrows ==
  ASSUME NEW t, Graph(t), NEW id, NEW S
  PROVE  /\ Extended(t, ManageNode(t, id, S))
         /\ Ids(ManageNode(t, id, S)) = Ids(t)
<1> DEFINE F(n) == [Marked(n, {}, {"snmp-lldp-management-address"})
                                      EXCEPT !.addresses = @ \cup {<<ip, {}>> : ip \in S}]
<1>1. PICK u : u = ManageNode(t, id, S)
  OBVIOUS
<1>2. /\ DOMAIN u = MapFields /\ u.interface = t.interface /\ u.audits = t.audits
      /\ u.edges = t.edges /\ u.segments = t.segments
      /\ u.nodes = [i \in DOMAIN t.nodes |-> IF t.nodes[i].id = id THEN F(t.nodes[i]) ELSE t.nodes[i]]
  BY <1>1 DEF ManageNode, Amended, Graph, MapFields
<1>3. ASSUME NEW n, Proper(n) PROVE Later(n, F(n))
  <2>1. /\ DOMAIN F(n) = NodeFields /\ F(n).id = n.id /\ F(n).kind = n.kind
        /\ F(n).addresses = n.addresses \cup {<<ip, {}>> : ip \in S} /\ F(n).names = n.names /\ F(n).mac = n.mac
    BY <1>3 DEF Proper, NodeFields, Marked
  <2> HIDE DEF F
  <2> QED BY <2>1 DEF Later, Placed
<1> HIDE DEF F
<1>4. \A i \in DOMAIN t.nodes : Later(t.nodes[i], u.nodes[i])
  BY <1>2, <1>3, LaterSelf DEF Graph
<1>5. u.nodes = [i \in DOMAIN t.nodes |-> u.nodes[i]]
  BY <1>2
<1>6. Extended(t, u) /\ Ids(u) = Ids(t)
  BY <1>2, <1>4, <1>5, Renewed
<1> QED BY <1>1, <1>6

AddMember(t, id, m) == WithSegment(t, id, LAMBDA s : [s EXCEPT !.members = @ \cup {m}])
LEMMA AddMemberGrows ==
  ASSUME NEW t, Graph(t), NEW id, NEW m
  PROVE  /\ Grown(t, AddMember(t, id, m)) /\ Ids(AddMember(t, id, m)) = Ids(t)
         /\ SegmentIds(AddMember(t, id, m)) = SegmentIds(t)
<1> DEFINE F(s) == [s EXCEPT !.members = @ \cup {m}]
<1>1. PICK u : u = AddMember(t, id, m)
  OBVIOUS
<1>2. /\ DOMAIN u = MapFields /\ u.interface = t.interface /\ u.audits = t.audits
      /\ u.nodes = t.nodes /\ u.edges = t.edges
      /\ u.segments = [i \in DOMAIN t.segments |-> IF t.segments[i].id = id THEN F(t.segments[i]) ELSE t.segments[i]]
  BY <1>1 DEF AddMember, WithSegment, Graph, MapFields
<1>3. ASSUME NEW i \in DOMAIN t.segments
      PROVE  /\ DOMAIN F(t.segments[i]) = SegmentFields /\ IsFiniteSet(F(t.segments[i]).gateways)
             /\ F(t.segments[i]).id = t.segments[i].id /\ F(t.segments[i]).network = t.segments[i].network
             /\ F(t.segments[i]).gateways = t.segments[i].gateways
  <2>1. DOMAIN t.segments[i] = SegmentFields /\ IsFiniteSet(t.segments[i].gateways)
    BY DEF Graph, Row
  <2> QED BY <2>1 DEF SegmentFields
<1> HIDE DEF F
<1>4. ASSUME NEW i \in DOMAIN t.segments
      PROVE  /\ DOMAIN u.segments[i] = SegmentFields /\ IsFiniteSet(u.segments[i].gateways)
             /\ u.segments[i].id = t.segments[i].id /\ u.segments[i].network = t.segments[i].network
             /\ \A x \in u.segments[i].gateways : x \in t.segments[i].gateways \/ Held(t, x)
  <2>1. DOMAIN t.segments[i] = SegmentFields /\ IsFiniteSet(t.segments[i].gateways)
    BY DEF Graph, Row
  <2> QED BY <1>2, <1>3, <2>1
<1>5. u.segments = [i \in DOMAIN t.segments |-> u.segments[i]]
  BY <1>2
<1>7. \A i \in DOMAIN t.segments : u.segments[i].gateways = t.segments[i].gateways
  BY <1>2, <1>3
<1>6. Grown(t, u) /\ Ids(u) = Ids(t) /\ DOMAIN u.segments = DOMAIN t.segments
  <2>1. /\ Kept(t, u) /\ Ids(u) = Ids(t) /\ DOMAIN u.segments = DOMAIN t.segments
        /\ (\A i \in DOMAIN t.segments : u.segments[i].gateways = t.segments[i].gateways) => Grown(t, u)
    BY <1>2, <1>4, <1>5, Relisted
  <2> QED BY <1>7, <2>1
<1>8. SegmentIds(u) = SegmentIds(t)
  BY <1>4, <1>6 DEF SegmentIds
<1> QED BY <1>1, <1>6, <1>8

LEMMA ManagedGrows ==
  ASSUME NEW t, Graph(t), NEW d, NEW prefix \in {"snmp-device", "ssh-device"}, NEW role, NEW provenance
  PROVE  /\ Extended(t, Managed(t, d, prefix, role, provenance))
         /\ ManagedDevice(t, d, prefix) \in Ids(Managed(t, d, prefix, role, provenance))
<1> DEFINE id == ManagedDevice(t, d, prefix)
           new == [Node(id, "network-device") EXCEPT !.addresses = {<<d.target, {}>>},
                     !.roles = {"network-device", role}, !.provenance = {provenance}]
           u == PutNode(t, new)
           v == Amended(u, id, LAMBDA n : [n EXCEPT !.names = @ \cup d.name])
<1>1. Managed(t, d, prefix, role, provenance) = v
  BY DEF Managed
<1>2. v = NameNode(u, id, d.name)
  BY DEF NameNode
<1>3. DOMAIN new = NodeFields /\ new.id = id /\ new.kind = "network-device"
  BY DEF Node, NodeFields
<1> HIDE DEF v, new
<1>4. new.id \notin Ids(t) => Proper(new)
  <2> SUFFICES ASSUME id \notin Ids(t) PROVE Proper(new)
    BY <1>3
  <2>1. id = <<prefix, d.target>>
    BY ManagedDeviceIs
  <2>2. Plain(id)
    BY <2>1 DEF Plain, NoNode
  <2> QED BY <1>3, <2>2, PlainProper
<1> HIDE DEF id
<1>5. Extended(t, u) /\ id \in Ids(u) /\ Graph(u)
  BY <1>3, <1>4, PutNodeGrows, ExtendedIds
<1> HIDE DEF u
<1>6. Extended(u, v) /\ Ids(v) = Ids(u)
  BY <1>2, <1>5, NameNodeGrows
<1>7. Extended(t, v) /\ id \in Ids(v)
  BY <1>5, <1>6, ExtendedTrans
<1> QED BY <1>1, <1>7 DEF id

LEMMA BoundGrows ==
  ASSUME NEW t, Graph(t), NEW row, NEW id, Plain(id), NEW role, NEW provenance
  PROVE  /\ Extended(t, Bound(t, row, id, role, provenance).map)
         /\ Bound(t, row, id, role, provenance).node \in Ids(Bound(t, row, id, role, provenance).map)
<1> DEFINE byIp  == FirstHolding(t, row.ip)
           byMac == FirstWithMac(t, row.mac)
           node  == IF byIp # NoNode THEN byIp ELSE IF byMac # NoNode THEN byMac ELSE id
           new   == [Node(node, "endpoint") EXCEPT !.addresses = {<<row.ip, {}>>}, !.names = {row.ip},
                       !.mac = {row.mac}, !.provenance = {provenance}]
           u     == PutNode(t, new)
           v     == IF node \in Ids(t) THEN u ELSE MarkNode(u, node, {role}, {})
           w     == Amended(v, node, LAMBDA n : [n EXCEPT !.mac = IF @ = {} THEN {row.mac} ELSE @])
<1>1. Bound(t, row, id, role, provenance) = [map |-> w, node |-> node]
  BY DEF Bound
<1>2. w = GiveMac(v, node, {row.mac})
  BY DEF GiveMac
<1>3. DOMAIN new = NodeFields /\ new.id = node /\ new.kind = "endpoint"
  BY DEF Node, NodeFields
<1>4. node \in Ids(t) \/ node = id
  BY FirstHoldingIs, FirstWithMacIs
<1> HIDE DEF w, new, node
<1>5. new.id \notin Ids(t) => Proper(new)
  BY <1>3, <1>4, PlainProper
<1>6. Extended(t, u) /\ node \in Ids(u) /\ Graph(u)
  BY <1>3, <1>5, PutNodeGrows, ExtendedIds
<1> HIDE DEF u
<1>7. Extended(u, v) /\ node \in Ids(v) /\ Graph(v)
  BY <1>6, MarkNodeGrows, ExtendedSelf, ExtendedIds
<1> HIDE DEF v
<1>8. Extended(v, w) /\ Ids(w) = Ids(v)
  BY <1>2, <1>7, GiveMacGrows
<1>9. Extended(t, w) /\ node \in Ids(w)
  BY <1>6, <1>7, <1>8, ExtendedTrans
<1> QED BY <1>1, <1>9

ArpOp(p, q, r, t, x) == Bound(t, x, <<"snmp-arp", x.ip>>, "snmp-arp", "snmp-arp").map
ArpRows == INSTANCE FoldInduction WITH Op <- ArpOp, Good <- SoFar
LEMMA BindArpGrows ==
  ASSUME NEW t, Graph(t), NEW d, IsSeq(d.arp)
  PROVE  Extended(t, BindArp(t, d))
<1>1. ArpRows!WellOrdered
  BY LeastOf DEF ArpRows!WellOrdered
<1>2. SoFar(t, d, d, 0, t)
  BY ExtendedSelf DEF SoFar
<1>3. \A k \in 1..Len(d.arp) : \A u : SoFar(t, d, d, k - 1, u) => SoFar(t, d, d, k, ArpOp(t, d, d, u, d.arp[k]))
  <2> SUFFICES ASSUME NEW k \in 1..Len(d.arp), NEW u, Extended(t, u)
               PROVE  Extended(t, ArpOp(t, d, d, u, d.arp[k]))
    BY DEF SoFar
  <2>1. Graph(u) /\ u.interface = t.interface /\ Ids(t) \subseteq Ids(u)
    BY ExtendedIds
  <2>2. Plain(<<"snmp-arp", d.arp[k].ip>>)
    BY DEF Plain, NoNode
  <2>3. Extended(u, Bound(u, d.arp[k], <<"snmp-arp", d.arp[k].ip>>, "snmp-arp", "snmp-arp").map)
    BY <2>1, <2>2, BoundGrows
  <2> QED BY <2>3, ExtendedTrans DEF ArpOp
<1>4. Len(d.arp) \in Nat /\ DOMAIN d.arp = 1..Len(d.arp)
  BY SeqShape
<1>5. SoFar(t, d, d, Len(d.arp), ArpRows!Folded(t, d, d, t, d.arp))
  BY <1>1, <1>2, <1>3, <1>4, ArpRows!FoldKeeps
<1>6. ArpRows!Folded(t, d, d, t, d.arp) = BindArp(t, d)
  BY DEF ArpRows!Folded, BindArp, FoldLeft, MapThenFoldSet, Max, ArpOp
<1> QED BY <1>5, <1>6 DEF SoFar

LEMMA AddForwardingGrows ==
  ASSUME NEW t, Graph(t), NEW row, NEW d, NEW switch \in Ids(t)
  PROVE  Extended(t, AddForwarding(t, row, d, switch))
<1> DEFINE node == FirstWithMac(t, row.mac)
           e    == [Edge(switch, node, "layer2_neighbor", {"snmp-fdb"}) EXCEPT !.mapping = "switch_port",
                      !.key = <<"snmp-fdb", d.target, row.mac, row.port, row.vlans>>,
                      !.vlans = row.vlans, !.port = row.ifindex]
           u    == PutKeyed(t, e)
           v    == Amended(u, node, LAMBDA n : [Marked(n, {}, {"snmp-qbridge-fdb"}) EXCEPT !.vlans = @ \cup row.vlans])
<1>1. AddForwarding(t, row, d, switch)
        = IF node \in {NoNode, switch} THEN t ELSE IF Cardinality(row.vlans) # 1 THEN u ELSE v
  BY DEF AddForwarding
<1>2. v = TagNode(u, node, "snmp-qbridge-fdb", row.vlans)
  BY DEF TagNode
<1>3. node = NoNode \/ node \in Ids(t)
  BY FirstWithMacIs
<1> HIDE DEF v, node
<1>4. node # NoNode => Joined(t, e)
  BY <1>3 DEF Joined, Edge, EdgeFields
<1> HIDE DEF e
<1>5. node # NoNode => Extended(t, u) /\ Graph(u)
  BY <1>4, PutKeyedGrows, ExtendedIds
<1> HIDE DEF u
<1>6. node # NoNode => Extended(t, v)
  BY <1>2, <1>5, TagNodeGrows, ExtendedTrans
<1> QED BY <1>1, <1>5, <1>6, ExtendedSelf

FdbOp(p, q, r, t, x) == AddForwarding(t, x, q, r)
FdbRows == INSTANCE FoldInduction WITH Op <- FdbOp, Good <- SoFar
LEMMA AddForwardingsGrows ==
  ASSUME NEW t, Graph(t), NEW d, IsSeq(d.fdb), NEW switch \in Ids(t)
  PROVE  Extended(t, AddForwardings(t, d, switch))
<1>1. FdbRows!WellOrdered
  BY LeastOf DEF FdbRows!WellOrdered
<1>2. SoFar(t, d, switch, 0, t)
  BY ExtendedSelf DEF SoFar
<1>3. \A k \in 1..Len(d.fdb) : \A u : SoFar(t, d, switch, k - 1, u) => SoFar(t, d, switch, k, FdbOp(t, d, switch, u, d.fdb[k]))
  <2> SUFFICES ASSUME NEW k \in 1..Len(d.fdb), NEW u, Extended(t, u)
               PROVE  Extended(t, FdbOp(t, d, switch, u, d.fdb[k]))
    BY DEF SoFar
  <2>1. Graph(u) /\ u.interface = t.interface /\ Ids(t) \subseteq Ids(u)
    BY ExtendedIds
  <2>2. Extended(u, AddForwarding(u, d.fdb[k], d, switch))
    BY <2>1, AddForwardingGrows
  <2> QED BY <2>2, ExtendedTrans DEF FdbOp
<1>4. Len(d.fdb) \in Nat /\ DOMAIN d.fdb = 1..Len(d.fdb)
  BY SeqShape
<1>5. SoFar(t, d, switch, Len(d.fdb), FdbRows!Folded(t, d, switch, t, d.fdb))
  BY <1>1, <1>2, <1>3, <1>4, FdbRows!FoldKeeps
<1>6. FdbRows!Folded(t, d, switch, t, d.fdb) = AddForwardings(t, d, switch)
  BY DEF FdbRows!Folded, AddForwardings, FoldLeft, MapThenFoldSet, Max, FdbOp
<1> QED BY <1>5, <1>6 DEF SoFar

LEMMA LldpRemoteIs ==
  ASSUME NEW t, Graph(t), NEW row
  PROVE  LldpRemote(t, row) = NoNode \/ LldpRemote(t, row) \in Ids(t)
BY FirstWithMacIs, FirstNamedIs DEF LldpRemote

LEMMA AddLldpGrows ==
  ASSUME NEW b, Graph(b), NEW t, Graph(t), Ids(b) \subseteq Ids(t), NEW row, NEW d, NEW switch \in Ids(t)
  PROVE  Extended(t, AddLldp(t, b, row, d, switch))
<1> DEFINE known  == LldpRemote(b, row)
           remote == IF known # NoNode THEN known ELSE <<"snmp-lldp", d.target, IF row.chassis # {} THEN row.chassis ELSE row.name>>
           new    == [Node(remote, "network-device") EXCEPT !.roles = {"network-device", "network-neighbor"},
                        !.names = row.name, !.mac = row.chassis, !.provenance = {"snmp-lldp"}]
           u      == IF remote \in Ids(t) THEN t ELSE AddNode(t, new)
           v      == MarkNode(u, remote, {"network-neighbor"}, {"snmp-lldp"})
           e      == [Edge(switch, remote, "layer2_neighbor", {"snmp-lldp"})
                        EXCEPT !.mapping = "snmp_lldp_neighbor", !.key = <<"snmp-lldp", d.target, row.port, remote>>]
<1>1. AddLldp(t, b, row, d, switch) = IF remote = switch THEN t ELSE PutKeyed(v, e)
  BY DEF AddLldp
<1>2. DOMAIN new = NodeFields /\ new.id = remote /\ new.kind = "network-device"
  BY DEF Node, NodeFields
<1> HIDE DEF new
<1>3. remote \in Ids(t) \/ Plain(remote)
  <2>1. CASE known # NoNode
    BY <2>1, LldpRemoteIs
  <2>2. CASE known = NoNode
    BY <2>2 DEF Plain, NoNode
  <2> QED BY <2>1, <2>2
<1> HIDE DEF remote
<1>4. Extended(t, u) /\ remote \in Ids(u) /\ Graph(u)
  BY <1>2, <1>3, PlainProper, AddNodeGrows, ExtendedSelf, ExtendedIds
<1> HIDE DEF u
<1>5. Extended(u, v) /\ Ids(v) = Ids(u) /\ Graph(v)
  BY <1>4, MarkNodeGrows, ExtendedIds
<1> HIDE DEF v
<1>6. Joined(v, e)
  BY <1>4, <1>5, ExtendedIds DEF Joined, Edge, EdgeFields
<1> HIDE DEF e
<1>7. Extended(v, PutKeyed(v, e))
  BY <1>5, <1>6, PutKeyedGrows
<1> QED BY <1>1, <1>4, <1>5, <1>7, ExtendedSelf, ExtendedTrans

LldpOp(p, q, r, t, x) == AddLldp(t, p, x, q, r)
LldpRows == INSTANCE FoldInduction WITH Op <- LldpOp, Good <- SoFar
LEMMA AddLldpsGrows ==
  ASSUME NEW t, Graph(t), NEW d, IsSeq(d.lldp), NEW switch \in Ids(t)
  PROVE  Extended(t, AddLldps(t, d, switch))
<1>1. LldpRows!WellOrdered
  BY LeastOf DEF LldpRows!WellOrdered
<1>2. SoFar(t, d, switch, 0, t)
  BY ExtendedSelf DEF SoFar
<1>3. \A k \in 1..Len(d.lldp) : \A u : SoFar(t, d, switch, k - 1, u) => SoFar(t, d, switch, k, LldpOp(t, d, switch, u, d.lldp[k]))
  <2> SUFFICES ASSUME NEW k \in 1..Len(d.lldp), NEW u, Extended(t, u)
               PROVE  Extended(t, LldpOp(t, d, switch, u, d.lldp[k]))
    BY DEF SoFar
  <2>1. Graph(u) /\ u.interface = t.interface /\ Ids(t) \subseteq Ids(u)
    BY ExtendedIds
  <2>2. Extended(u, AddLldp(u, t, d.lldp[k], d, switch))
    BY <2>1, AddLldpGrows
  <2> QED BY <2>2, ExtendedTrans DEF LldpOp
<1>4. Len(d.lldp) \in Nat /\ DOMAIN d.lldp = 1..Len(d.lldp)
  BY SeqShape
<1>5. SoFar(t, d, switch, Len(d.lldp), LldpRows!Folded(t, d, switch, t, d.lldp))
  BY <1>1, <1>2, <1>3, <1>4, LldpRows!FoldKeeps
<1>6. LldpRows!Folded(t, d, switch, t, d.lldp) = AddLldps(t, d, switch)
  BY DEF LldpRows!Folded, AddLldps, FoldLeft, MapThenFoldSet, Max, LldpOp
<1> QED BY <1>5, <1>6 DEF SoFar

LEMMA DecorateSnmpGrows ==
  ASSUME NEW t, Graph(t), NEW d, IsSnmp(d)
  PROVE  Extended(t, DecorateSnmp(t, d))
<1>1. PICK switch : switch = ManagedDevice(t, d, "snmp-device")
  OBVIOUS
<1>2. PICK u : u = Managed(t, d, "snmp-device", "snmp-managed", "credentialed-snmp")
  OBVIOUS
<1>3. PICK v : v = BindArp(u, d)
  OBVIOUS
<1>4. PICK w : w = AddForwardings(v, d, switch)
  OBVIOUS
<1>5. PICK x : x = AddLldps(w, d, switch)
  OBVIOUS
<1>6. DecorateSnmp(t, d) = x
  BY <1>1, <1>2, <1>3, <1>4, <1>5 DEF DecorateSnmp
<1>7. Extended(t, u) /\ switch \in Ids(u) /\ Graph(u)
  BY <1>1, <1>2, ManagedGrows, ExtendedIds
<1>8. Extended(u, v) /\ switch \in Ids(v) /\ Graph(v)
  BY <1>3, <1>7, BindArpGrows, ExtendedIds DEF IsSnmp
<1>9. Extended(v, w) /\ switch \in Ids(w) /\ Graph(w)
  BY <1>4, <1>8, AddForwardingsGrows, ExtendedIds DEF IsSnmp
<1>10. Extended(w, x)
  BY <1>5, <1>9, AddLldpsGrows DEF IsSnmp
<1> QED BY <1>6, <1>7, <1>8, <1>9, <1>10, ExtendedTrans

-----------------------------------------------------------------------------
\* Interfaces, neighbour caches and management addresses of an SNMP device.
LEMMA ExtendedGrown ==
  ASSUME NEW b, NEW t, Extended(b, t)
  PROVE  Grown(b, t)
BY DEF Extended

GrownSoFar(p, q, r, k, t) == Grown(p, t)

LEMMA AddInterfaceAddressGrows ==
  ASSUME NEW t, Graph(t), NEW row, Placed(<<row.ip, row.network>>), NEW d, NEW owner, owner.node \in Ids(t)
  PROVE  /\ Grown(t, AddInterfaceAddress(t, row, d, owner))
         /\ InterfaceNode(d, row) \in Ids(AddInterfaceAddress(t, row, d, owner))
<1> DEFINE device == owner.node
           id     == InterfaceNode(d, row)
           subnet == Cardinality(row.network) > 1
           inside == IF subnet THEN {SegmentId(row.network)} ELSE {}
           owned  == Amended(t, device, LAMBDA n : [n EXCEPT !.addresses = @ \cup {<<row.ip, row.network>>}])
           node   == [Node(id, "network-interface") EXCEPT !.roles = {"router-interface"}, !.parent = device,
                        !.addresses = {<<row.ip, row.network>>}, !.segments = inside,
                        !.vlans = Port(d, row.ifindex).tagged \cup Port(d, row.ifindex).untagged,
                        !.provenance = {"credentialed-snmp-ip-interface"}]
           u == IF id \in Ids(owned) THEN owned ELSE AddNode(owned, node)
           e == [Edge(device, id, "routed_interface", {"credentialed-snmp-ip-interface"})
                   EXCEPT !.mapping = "snmp_ip_interface", !.key = <<"snmp-interface", id>>]
           v == PutKeyed(u, e)
           w == EnsureSegment(v, row.network, {"credentialed-snmp-ip-interface"})
           x == WithSegment(w, SegmentId(row.network), LAMBDA s : [s EXCEPT !.members = @ \cup {id}])
<1>1. AddInterfaceAddress(t, row, d, owner) = IF ~ (owner.segments /\ subnet) THEN v ELSE x
  BY DEF AddInterfaceAddress
<1>2. owned = OwnAddress(t, device, <<row.ip, row.network>>) /\ x = AddMember(w, SegmentId(row.network), id)
  BY DEF OwnAddress, AddMember
<1>3. DOMAIN node = NodeFields /\ node.id = id /\ node.kind = "network-interface"
  BY DEF Node, NodeFields
<1>4. Plain(id)
  BY DEF InterfaceNode, Plain, NoNode
<1> HIDE DEF x, node, subnet
<1>5. Extended(t, owned) /\ Ids(owned) = Ids(t) /\ Graph(owned)
  BY <1>2, OwnAddressGrows, ExtendedIds
<1> HIDE DEF owned, id
<1>6. Proper(node)
  BY <1>3, <1>4, PlainProper
<1>7. Extended(owned, u) /\ id \in Ids(u) /\ device \in Ids(u) /\ Graph(u)
  BY <1>3, <1>5, <1>6, AddNodeGrows, ExtendedSelf, ExtendedIds
<1> HIDE DEF u
<1>8. Joined(u, e)
  BY <1>7 DEF Joined, Edge, EdgeFields
<1> HIDE DEF e
<1>9. Extended(u, v) /\ id \in Ids(v) /\ Graph(v)
  BY <1>7, <1>8, PutKeyedGrows, ExtendedIds
<1> HIDE DEF v
<1>10. Grown(t, v)
  BY <1>5, <1>7, <1>9, ExtendedTrans, ExtendedGrown
<1>11. Grown(v, w) /\ id \in Ids(w) /\ Graph(w)
  BY <1>9, EnsureSegmentGrows, GrownIds
<1> HIDE DEF w
<1>12. Grown(w, x) /\ id \in Ids(x)
  BY <1>2, <1>11, AddMemberGrows
<1>13. Grown(t, x)
  BY <1>10, <1>11, <1>12, GrownTrans
<1>14. id \in Ids(v) /\ id \in Ids(x) /\ Grown(t, v) /\ Grown(t, x)
  BY <1>9, <1>10, <1>12, <1>13
<1> HIDE DEF device, inside
<1> QED BY <1>1, <1>14 DEF id

InterfacesSoFar(p, q, r, k, t) ==
    /\ Grown(p, t)
    /\ \A j \in 1..k : InterfaceNode(q, q.addresses[j]) \in Ids(t)

AddressOp(p, q, r, t, x) == AddInterfaceAddress(t, x, q, r)
InterfaceRows == INSTANCE FoldInduction WITH Op <- AddressOp, Good <- InterfacesSoFar
LEMMA AddInterfaceAddressesGrows ==
  ASSUME NEW t, Graph(t), NEW d, IsSnmp(d), NEW owner, owner.node \in Ids(t)
  PROVE  InterfacesSoFar(t, d, owner, Len(d.addresses), AddInterfaceAddresses(t, d, owner))
<1>1. InterfaceRows!WellOrdered
  BY LeastOf DEF InterfaceRows!WellOrdered
<1>2. InterfacesSoFar(t, d, owner, 0, t)
  BY GrownSelf DEF InterfacesSoFar
<1>3. \A k \in 1..Len(d.addresses) : \A u : InterfacesSoFar(t, d, owner, k - 1, u) => InterfacesSoFar(t, d, owner, k, AddressOp(t, d, owner, u, d.addresses[k]))
  <2> SUFFICES ASSUME NEW k \in 1..Len(d.addresses), NEW u, InterfacesSoFar(t, d, owner, k - 1, u)
               PROVE  InterfacesSoFar(t, d, owner, k, AddInterfaceAddress(u, d.addresses[k], d, owner))
    BY DEF AddressOp
  <2>1. Grown(t, u) /\ Graph(u) /\ Ids(t) \subseteq Ids(u)
    BY GrownIds DEF InterfacesSoFar
  <2>2. Len(d.addresses) \in Nat /\ DOMAIN d.addresses = 1..Len(d.addresses)
    BY SeqShape DEF IsSnmp
  <2>3. Placed(<<d.addresses[k].ip, d.addresses[k].network>>)
    BY <2>2 DEF IsSnmp
  <2>4. PICK v : v = AddInterfaceAddress(u, d.addresses[k], d, owner)
    OBVIOUS
  <2>5. Grown(u, v) /\ InterfaceNode(d, d.addresses[k]) \in Ids(v)
    BY <2>1, <2>3, <2>4, AddInterfaceAddressGrows
  <2>6. Grown(t, v) /\ Ids(u) \subseteq Ids(v)
    BY <2>1, <2>5, GrownTrans, GrownIds
  <2>7. \A j \in 1..k : j = k \/ j \in 1..(k - 1)
    BY <2>2
  <2>8. \A j \in 1..k : InterfaceNode(d, d.addresses[j]) \in Ids(v)
    BY <2>5, <2>6, <2>7 DEF InterfacesSoFar
  <2> QED BY <2>4, <2>6, <2>8 DEF InterfacesSoFar
<1>4. Len(d.addresses) \in Nat /\ DOMAIN d.addresses = 1..Len(d.addresses)
  BY SeqShape DEF IsSnmp
<1>5. InterfacesSoFar(t, d, owner, Len(d.addresses), InterfaceRows!Folded(t, d, owner, t, d.addresses))
  BY <1>1, <1>2, <1>3, <1>4, InterfaceRows!FoldKeeps
<1>6. InterfaceRows!Folded(t, d, owner, t, d.addresses) = AddInterfaceAddresses(t, d, owner)
  BY DEF InterfaceRows!Folded, AddInterfaceAddresses, FoldLeft, MapThenFoldSet, Max, AddressOp
<1> QED BY <1>5, <1>6

LEMMA PlaceBehindPortsGrows ==
  ASSUME NEW t, Graph(t), NEW d, NEW device
  PROVE  Extended(t, PlaceBehindPorts(t, d, device))
<1> DEFINE mine(e) == /\ e.mapping = "switch_port" /\ e.key[1] = "snmp-fdb" /\ e.key[2] = d.target
                      /\ e.port \in DOMAIN d.ports
           vlansOf(e) == IF e.vlans = {} THEN AccessVlan(d.ports[e.port]) ELSE e.vlans
           behind(e) == IF e.source = device THEN e.target ELSE e.source
           wired(e) == IF mine(e) THEN [e EXCEPT !.vlans = vlansOf(e)] ELSE e
           edges  == [i \in DOMAIN t.edges |-> IF mine(t.edges[i])
                        THEN [t.edges[i] EXCEPT !.vlans = vlansOf(t.edges[i])] ELSE t.edges[i]]
           placed(n) == UNION {e.vlans : e \in {f \in ToSet(edges) :
                                 mine(f) /\ Cardinality(f.vlans) = 1 /\ behind(f) = n.id /\ n.id # device}}
           moved(n) == [n EXCEPT !.vlans = @ \cup placed(n)]
<1>1. PICK u : u = PlaceBehindPorts(t, d, device)
  OBVIOUS
<1>2. u = [t EXCEPT !.edges = edges, !.nodes = [i \in DOMAIN t.nodes |-> moved(t.nodes[i])]]
  BY <1>1 DEF PlaceBehindPorts
<1>3. edges = [i \in DOMAIN t.edges |-> wired(t.edges[i])]
  OBVIOUS
<1>4. ASSUME NEW n, Proper(n) PROVE Later(n, moved(n))
  <2> HIDE DEF placed
  <2>1. /\ DOMAIN moved(n) = NodeFields /\ moved(n).id = n.id /\ moved(n).kind = n.kind
        /\ moved(n).addresses = n.addresses /\ moved(n).names = n.names /\ moved(n).mac = n.mac
    BY <1>4 DEF Proper, NodeFields
  <2> QED BY <1>4, <2>1, LaterIf
<1>5. ASSUME NEW e, DOMAIN e = EdgeFields PROVE DOMAIN wired(e) = EdgeFields /\ SameEdge(e, wired(e))
  <2> HIDE DEF mine, vlansOf
  <2> QED BY <1>5 DEF EdgeFields, SameEdge
<1> HIDE DEF moved, wired, edges
<1>6. PICK v : v = [t EXCEPT !.edges = edges]
  OBVIOUS
<1>7. Extended(t, v) /\ Graph(v)
  <2>1. /\ DOMAIN v = MapFields /\ v.interface = t.interface /\ v.audits = t.audits
        /\ v.nodes = t.nodes /\ v.segments = t.segments /\ v.edges = edges
    BY <1>6 DEF Graph, MapFields
  <2>2. v.edges = [i \in DOMAIN t.edges |-> v.edges[i]]
    BY <1>3, <2>1
  <2>3. \A i \in DOMAIN t.edges : DOMAIN v.edges[i] = EdgeFields /\ SameEdge(t.edges[i], v.edges[i])
    BY <1>3, <1>5, <2>1 DEF Graph, Joined
  <2> QED BY <2>1, <2>2, <2>3, Rewired, ExtendedIds
<1>8. Extended(v, u)
  <2>1. /\ DOMAIN u = MapFields /\ u.interface = v.interface /\ u.audits = v.audits
        /\ u.edges = v.edges /\ u.segments = v.segments /\ v.nodes = t.nodes
        /\ u.nodes = [i \in DOMAIN t.nodes |-> moved(t.nodes[i])]
    BY <1>2, <1>6 DEF Graph, MapFields
  <2>2. \A i \in DOMAIN v.nodes : Later(v.nodes[i], u.nodes[i])
    BY <1>4, <1>7, <2>1 DEF Graph
  <2>3. u.nodes = [i \in DOMAIN v.nodes |-> u.nodes[i]]
    BY <2>1
  <2> QED BY <1>7, <2>1, <2>2, <2>3, Renewed
<1> QED BY <1>1, <1>7, <1>8, ExtendedTrans

LEMMA InterfaceForIs ==
  ASSUME NEW d, IsSnmp(d), NEW row
  PROVE  InterfaceFor(row, d).index = 0 \/ InterfaceFor(row, d).index \in 1..Len(d.addresses)
<1> DEFINE holds(a) == a.ifindex = row.ifindex /\ row.ip \in a.network
           F == {i \in 1..Len(d.addresses) : d.addresses[i].ifindex = row.ifindex}
           B == {i \in 1..Len(d.addresses) : holds(d.addresses[i]) /\ \A b \in ToSet(d.addresses) :
                   holds(b) => Cardinality(d.addresses[i].network) <= Cardinality(b.network)}
<1>1. InterfaceFor(row, d).index = IF Selection(B) # 0 THEN Selection(B) ELSE Selection(F)
  BY DEF InterfaceFor, SelectInSeq, Selection
<1>2. B \in SUBSET (1..Len(d.addresses)) /\ F \in SUBSET (1..Len(d.addresses))
  OBVIOUS
<1>3. Len(d.addresses) \in Nat
  BY SeqShape DEF IsSnmp
<1> HIDE DEF B, F
<1>4. Selection(B) \in B \cup {0} /\ Selection(F) \in F \cup {0}
  BY <1>2, <1>3, SelectionIs
<1> QED BY <1>1, <1>2, <1>4

LEMMA AddCachedNeighborGrows ==
  ASSUME NEW t, Graph(t), NEW row, NEW d, IsSnmp(d),
         \A j \in 1..Len(d.addresses) : InterfaceNode(d, d.addresses[j]) \in Ids(t)
  PROVE  Extended(t, AddCachedNeighbor(t, row, d))
<1> DEFINE b      == Bound(t, row, <<"snmp-neighbor", d.target, row.ip>>, "snmp-neighbor", "snmp-neighbor-cache")
           at     == InterfaceFor(row, d)
           port   == Port(d, row.ifindex)
           all    == port.tagged \cup port.untagged
           vlan   == IF port.mode = "access" /\ Cardinality(port.untagged) = 1 THEN port.untagged
                     ELSE IF Cardinality(all) = 1 /\ port.pvid \in {{}, all} THEN all ELSE {}
           inside == IF at.network = {} THEN {} ELSE {SegmentId(at.network)}
           placed == Amended(b.map, b.node, LAMBDA n :
                       [n EXCEPT !.segments = @ \cup inside, !.vlans = @ \cup vlan])
           e      == [Edge(InterfaceNode(d, d.addresses[at.index]), b.node, "neighbor_cache", {"credentialed-snmp"})
                        EXCEPT !.key = <<"snmp-neighbor", d.target, row.ifindex, row.ip, row.mac>>]
<1>1. AddCachedNeighbor(t, row, d) = IF ~ row.valid THEN t ELSE IF at.index = 0 THEN placed ELSE PutKeyed(placed, e)
  BY DEF AddCachedNeighbor
<1>2. placed = PlaceNode(b.map, b.node, inside, vlan)
  BY DEF PlaceNode
<1> HIDE DEF inside, vlan, placed
<1>3. Plain(<<"snmp-neighbor", d.target, row.ip>>)
  BY DEF Plain, NoNode
<1>4. Extended(t, b.map) /\ b.node \in Ids(b.map) /\ Graph(b.map)
  BY <1>3, BoundGrows, ExtendedIds
<1> HIDE DEF b
<1>5. Extended(b.map, placed) /\ b.node \in Ids(placed) /\ Graph(placed)
  BY <1>2, <1>4, PlaceNodeGrows, ExtendedIds
<1>6. Extended(t, placed) /\ Ids(t) \subseteq Ids(placed)
  BY <1>4, <1>5, ExtendedTrans, ExtendedIds
<1>7. at.index # 0 => Extended(placed, PutKeyed(placed, e))
  <2> SUFFICES ASSUME at.index # 0 PROVE Extended(placed, PutKeyed(placed, e))
    OBVIOUS
  <2>1. InterfaceNode(d, d.addresses[at.index]) \in Ids(placed)
    BY <1>6, InterfaceForIs
  <2> HIDE DEF at
  <2>2. Joined(placed, e)
    BY <1>5, <2>1 DEF Joined, Edge, EdgeFields
  <2> HIDE DEF e
  <2> QED BY <1>5, <2>2, PutKeyedGrows
<1> HIDE DEF e, at
<1> QED BY <1>1, <1>6, <1>7, ExtendedSelf, ExtendedTrans

CacheOp(p, q, r, t, x) == AddCachedNeighbor(t, x, q)
CacheRows == INSTANCE FoldInduction WITH Op <- CacheOp, Good <- SoFar
LEMMA AddCachedNeighborsGrows ==
  ASSUME NEW t, Graph(t), NEW d, IsSnmp(d),
         \A j \in 1..Len(d.addresses) : InterfaceNode(d, d.addresses[j]) \in Ids(t)
  PROVE  Extended(t, AddCachedNeighbors(t, d))
<1>1. CacheRows!WellOrdered
  BY LeastOf DEF CacheRows!WellOrdered
<1>2. SoFar(t, d, d, 0, t)
  BY ExtendedSelf DEF SoFar
<1>3. \A k \in 1..Len(d.neighbors) : \A u : SoFar(t, d, d, k - 1, u) => SoFar(t, d, d, k, CacheOp(t, d, d, u, d.neighbors[k]))
  <2> SUFFICES ASSUME NEW k \in 1..Len(d.neighbors), NEW u, Extended(t, u)
               PROVE  Extended(t, CacheOp(t, d, d, u, d.neighbors[k]))
    BY DEF SoFar
  <2>1. Graph(u) /\ u.interface = t.interface /\ Ids(t) \subseteq Ids(u)
    BY ExtendedIds
  <2>2. Extended(u, AddCachedNeighbor(u, d.neighbors[k], d))
    BY <2>1, AddCachedNeighborGrows
  <2> QED BY <2>2, ExtendedTrans DEF CacheOp
<1>4. Len(d.neighbors) \in Nat /\ DOMAIN d.neighbors = 1..Len(d.neighbors)
  BY SeqShape DEF IsSnmp
<1>5. SoFar(t, d, d, Len(d.neighbors), CacheRows!Folded(t, d, d, t, d.neighbors))
  BY <1>1, <1>2, <1>3, <1>4, CacheRows!FoldKeeps
<1>6. CacheRows!Folded(t, d, d, t, d.neighbors) = AddCachedNeighbors(t, d)
  BY DEF CacheRows!Folded, AddCachedNeighbors, FoldLeft, MapThenFoldSet, Max, CacheOp
<1> QED BY <1>5, <1>6 DEF SoFar

LEMMA AddManagementAddressesGrows ==
  ASSUME NEW t, Graph(t), NEW aliases, NEW row
  PROVE  Extended(t, AddManagementAddresses(t, aliases, row))
<1> DEFINE held   == SelectInSeq(row.management, LAMBDA ip : FirstHolding(aliases, ip) # NoNode)
           remote == IF LldpRemote(aliases, row) # NoNode THEN LldpRemote(aliases, row)
                     ELSE IF held = 0 THEN NoNode ELSE FirstHolding(aliases, row.management[held])
           u == Amended(t, remote, LAMBDA n : [Marked(n, {}, {"snmp-lldp-management-address"})
                  EXCEPT !.addresses = @ \cup {<<ip, {}>> : ip \in ToSet(row.management)}])
<1>1. AddManagementAddresses(t, aliases, row) = IF remote = NoNode \/ row.management = <<>> THEN t ELSE u
  BY DEF AddManagementAddresses
<1>2. u = ManageNode(t, remote, ToSet(row.management))
  BY DEF ManageNode
<1> HIDE DEF u, remote
<1> QED BY <1>1, <1>2, ManageNodeGrows, ExtendedSelf

ManagementOp(p, q, r, t, x) == AddManagementAddresses(t, p, x)
ManagementRows == INSTANCE FoldInduction WITH Op <- ManagementOp, Good <- SoFar
LEMMA AddLldpAddressesGrows ==
  ASSUME NEW t, Graph(t), NEW d, IsSnmp(d)
  PROVE  Extended(t, AddLldpAddresses(t, d))
<1>1. ManagementRows!WellOrdered
  BY LeastOf DEF ManagementRows!WellOrdered
<1>2. SoFar(t, d, d, 0, t)
  BY ExtendedSelf DEF SoFar
<1>3. \A k \in 1..Len(d.lldp) : \A u : SoFar(t, d, d, k - 1, u) => SoFar(t, d, d, k, ManagementOp(t, d, d, u, d.lldp[k]))
  <2> SUFFICES ASSUME NEW k \in 1..Len(d.lldp), NEW u, Extended(t, u)
               PROVE  Extended(t, ManagementOp(t, d, d, u, d.lldp[k]))
    BY DEF SoFar
  <2>1. Graph(u) /\ u.interface = t.interface /\ Ids(t) \subseteq Ids(u)
    BY ExtendedIds
  <2>2. Extended(u, AddManagementAddresses(u, t, d.lldp[k]))
    BY <2>1, AddManagementAddressesGrows
  <2> QED BY <2>2, ExtendedTrans DEF ManagementOp
<1>4. Len(d.lldp) \in Nat /\ DOMAIN d.lldp = 1..Len(d.lldp)
  BY SeqShape DEF IsSnmp
<1>5. SoFar(t, d, d, Len(d.lldp), ManagementRows!Folded(t, d, d, t, d.lldp))
  BY <1>1, <1>2, <1>3, <1>4, ManagementRows!FoldKeeps
<1>6. ManagementRows!Folded(t, d, d, t, d.lldp) = AddLldpAddresses(t, d)
  BY DEF ManagementRows!Folded, AddLldpAddresses, FoldLeft, MapThenFoldSet, Max, ManagementOp
<1> QED BY <1>5, <1>6 DEF SoFar

LEMMA DecorateSnmpExtendedGrows ==
  ASSUME NEW t, Graph(t), NEW d, IsSnmp(d), NEW addSegments
  PROVE  Grown(t, DecorateSnmpExtended(t, d, addSegments))
<1> DEFINE device == ManagedDevice(t, d, "snmp-device")
           new == [Node(device, "network-device") EXCEPT !.addresses = {<<d.target, {}>>},
                     !.roles = {"network-device", "snmp-managed"}, !.names = d.name,
                     !.provenance = {"credentialed-snmp"}]
           u == IF device \in Ids(t) THEN t ELSE AddNode(t, new)
           v == MarkNode(u, device, {"router"}, {"credentialed-snmp-ip-mib"})
           owner == [node |-> device, segments |-> addSegments]
           w == AddInterfaceAddresses(v, d, owner)
           x == PlaceBehindPorts(w, d, device)
           y == AddCachedNeighbors(x, d)
           z == AddLldpAddresses(y, d)
<1>1. DecorateSnmpExtended(t, d, addSegments) = z
  BY DEF DecorateSnmpExtended
<1>2. DOMAIN new = NodeFields /\ new.id = device /\ new.kind = "network-device"
  BY DEF Node, NodeFields
<1> HIDE DEF new
<1>3. device \in Ids(t) \/ Proper(new)
  <2> SUFFICES ASSUME device \notin Ids(t) PROVE Proper(new)
    OBVIOUS
  <2>1. device = <<"snmp-device", d.target>>
    BY ManagedDeviceIs
  <2>2. Plain(device)
    BY <2>1 DEF Plain, NoNode
  <2> QED BY <1>2, <2>2, PlainProper
<1> HIDE DEF device
<1>4. Extended(t, u) /\ device \in Ids(u) /\ Graph(u)
  BY <1>2, <1>3, AddNodeGrows, ExtendedSelf, ExtendedIds
<1> HIDE DEF u
<1>5. Extended(u, v) /\ device \in Ids(v) /\ Graph(v)
  BY <1>4, MarkNodeGrows, ExtendedIds
<1>6. owner.node \in Ids(v)
  BY <1>5
<1> HIDE DEF v, owner
<1>7. InterfacesSoFar(v, d, owner, Len(d.addresses), w)
  BY <1>5, <1>6, AddInterfaceAddressesGrows
<1> HIDE DEF w
<1>8. Grown(v, w) /\ Graph(w) /\ \A j \in 1..Len(d.addresses) : InterfaceNode(d, d.addresses[j]) \in Ids(w)
  BY <1>7, GrownIds DEF InterfacesSoFar
<1>9. Extended(w, x) /\ Graph(x) /\ \A j \in 1..Len(d.addresses) : InterfaceNode(d, d.addresses[j]) \in Ids(x)
  BY <1>8, PlaceBehindPortsGrows, ExtendedIds
<1> HIDE DEF x
<1>10. Extended(x, y) /\ Graph(y)
  BY <1>9, AddCachedNeighborsGrows, ExtendedIds
<1> HIDE DEF y
<1>11. Extended(y, z)
  BY <1>10, AddLldpAddressesGrows
<1> HIDE DEF z
<1>12. Grown(t, v)
  BY <1>4, <1>5, ExtendedTrans, ExtendedGrown
<1>13. Grown(w, z)
  BY <1>9, <1>10, <1>11, ExtendedTrans, ExtendedGrown
<1> QED BY <1>1, <1>8, <1>12, <1>13, GrownTrans

-----------------------------------------------------------------------------
\* What a device gave up over SSH.
JoinNode(t, id, s) == Amended(t, id, LAMBDA n : [n EXCEPT !.segments = @ \cup {s}])
LEMMA JoinNodeGrows ==
  ASSUME NEW t, Graph(t), NEW id, NEW s
  PROVE  /\ Extended(t, JoinNode(t, id, s))
         /\ Ids(JoinNode(t, id, s)) = Ids(t)
<1> DEFINE F(n) == [n EXCEPT !.segments = @ \cup {s}]
<1>1. PICK u : u = JoinNode(t, id, s)
  OBVIOUS
<1>2. /\ DOMAIN u = MapFields /\ u.interface = t.interface /\ u.audits = t.audits
      /\ u.edges = t.edges /\ u.segments = t.segments
      /\ u.nodes = [i \in DOMAIN t.nodes |-> IF t.nodes[i].id = id THEN F(t.nodes[i]) ELSE t.nodes[i]]
  BY <1>1 DEF JoinNode, Amended, Graph, MapFields
<1>3. ASSUME NEW n, Proper(n) PROVE Later(n, F(n))
  <2>1. /\ DOMAIN F(n) = NodeFields /\ F(n).id = n.id /\ F(n).kind = n.kind
        /\ F(n).addresses = n.addresses /\ F(n).names = n.names /\ F(n).mac = n.mac
    BY <1>3 DEF Proper, NodeFields
  <2> QED BY <1>3, <2>1, LaterIf
<1> HIDE DEF F
<1>4. \A i \in DOMAIN t.nodes : Later(t.nodes[i], u.nodes[i])
  BY <1>2, <1>3, LaterSelf DEF Graph
<1>5. u.nodes = [i \in DOMAIN t.nodes |-> u.nodes[i]]
  BY <1>2
<1>6. Extended(t, u) /\ Ids(u) = Ids(t)
  BY <1>2, <1>4, <1>5, Renewed
<1> QED BY <1>1, <1>6

ConnectNode(t, id, s) == Amended(t, id, LAMBDA n : [n EXCEPT !.connected = @ \cup {s}])
LEMMA ConnectNodeGrows ==
  ASSUME NEW t, Graph(t), NEW id, NEW s
  PROVE  /\ Extended(t, ConnectNode(t, id, s))
         /\ Ids(ConnectNode(t, id, s)) = Ids(t)
<1> DEFINE F(n) == [n EXCEPT !.connected = @ \cup {s}]
<1>1. PICK u : u = ConnectNode(t, id, s)
  OBVIOUS
<1>2. /\ DOMAIN u = MapFields /\ u.interface = t.interface /\ u.audits = t.audits
      /\ u.edges = t.edges /\ u.segments = t.segments
      /\ u.nodes = [i \in DOMAIN t.nodes |-> IF t.nodes[i].id = id THEN F(t.nodes[i]) ELSE t.nodes[i]]
  BY <1>1 DEF ConnectNode, Amended, Graph, MapFields
<1>3. ASSUME NEW n, Proper(n) PROVE Later(n, F(n))
  <2>1. /\ DOMAIN F(n) = NodeFields /\ F(n).id = n.id /\ F(n).kind = n.kind
        /\ F(n).addresses = n.addresses /\ F(n).names = n.names /\ F(n).mac = n.mac
    BY <1>3 DEF Proper, NodeFields
  <2> QED BY <1>3, <2>1, LaterIf
<1> HIDE DEF F
<1>4. \A i \in DOMAIN t.nodes : Later(t.nodes[i], u.nodes[i])
  BY <1>2, <1>3, LaterSelf DEF Graph
<1>5. u.nodes = [i \in DOMAIN t.nodes |-> u.nodes[i]]
  BY <1>2
<1>6. Extended(t, u) /\ Ids(u) = Ids(t)
  BY <1>2, <1>4, <1>5, Renewed
<1> QED BY <1>1, <1>6

MeetNode(t, id, x) == Amended(t, id, LAMBDA n : [Marked(n, {}, {"ssh-ip-neigh"}) EXCEPT !.mac = IF @ = {} THEN x ELSE @])
LEMMA MeetNodeGrows ==
  ASSUME NEW t, Graph(t), NEW id, NEW x
  PROVE  /\ Extended(t, MeetNode(t, id, x))
         /\ Ids(MeetNode(t, id, x)) = Ids(t)
<1> DEFINE F(n) == [Marked(n, {}, {"ssh-ip-neigh"}) EXCEPT !.mac = IF @ = {} THEN x ELSE @]
<1>1. PICK u : u = MeetNode(t, id, x)
  OBVIOUS
<1>2. /\ DOMAIN u = MapFields /\ u.interface = t.interface /\ u.audits = t.audits
      /\ u.edges = t.edges /\ u.segments = t.segments
      /\ u.nodes = [i \in DOMAIN t.nodes |-> IF t.nodes[i].id = id THEN F(t.nodes[i]) ELSE t.nodes[i]]
  BY <1>1 DEF MeetNode, Amended, Graph, MapFields
<1>3. ASSUME NEW n, Proper(n) PROVE Later(n, F(n))
  <2>1. /\ DOMAIN F(n) = NodeFields /\ F(n).id = n.id /\ F(n).kind = n.kind
        /\ F(n).addresses = n.addresses /\ F(n).names = n.names /\ F(n).mac = IF n.mac = {} THEN x ELSE n.mac
    BY <1>3 DEF Proper, NodeFields, Marked
  <2> HIDE DEF F
  <2> QED BY <2>1 DEF Later
<1> HIDE DEF F
<1>4. \A i \in DOMAIN t.nodes : Later(t.nodes[i], u.nodes[i])
  BY <1>2, <1>3, LaterSelf DEF Graph
<1>5. u.nodes = [i \in DOMAIN t.nodes |-> u.nodes[i]]
  BY <1>2
<1>6. Extended(t, u) /\ Ids(u) = Ids(t)
  BY <1>2, <1>4, <1>5, Renewed
<1> QED BY <1>1, <1>6

LEMMA JoinNetworkGrows ==
  ASSUME NEW t, Graph(t), NEW network, NEW id \in Ids(t), NEW device \in Ids(t)
  PROVE  Grown(t, JoinNetwork(t, network, id, device))
<1> DEFINE s == SegmentId(network)
           w == EnsureSegment(t, network, {"ssh-ip-addr"})
           x == WithSegment(w, s, LAMBDA g : [g EXCEPT !.members = @ \cup {device}])
           y == Amended(x, id, LAMBDA n : [n EXCEPT !.segments = @ \cup {s}])
           z == Amended(y, device, LAMBDA n : [n EXCEPT !.connected = @ \cup {s}])
           e == [Edge(device, id, "routed_interface", {"ssh-ip-addr"})
                   EXCEPT !.segment = s, !.key = <<"ssh-interface", id, network>>]
<1>1. JoinNetwork(t, network, id, device) = PutKeyed(z, e)
  BY DEF JoinNetwork
<1>2. x = AddMember(w, s, device) /\ y = JoinNode(x, id, s) /\ z = ConnectNode(y, device, s)
  BY DEF AddMember, JoinNode, ConnectNode
<1> HIDE DEF x, y, z, s
<1>3. Grown(t, w) /\ id \in Ids(w) /\ device \in Ids(w) /\ Graph(w)
  BY EnsureSegmentGrows, GrownIds
<1> HIDE DEF w
<1>4. Grown(w, x) /\ Ids(x) = Ids(w) /\ Graph(x)
  BY <1>2, <1>3, AddMemberGrows, GrownIds
<1>5. Extended(x, y) /\ Ids(y) = Ids(x) /\ Graph(y)
  BY <1>2, <1>4, JoinNodeGrows, ExtendedIds
<1>6. Extended(y, z) /\ Ids(z) = Ids(y) /\ Graph(z)
  BY <1>2, <1>5, ConnectNodeGrows, ExtendedIds
<1>7. Joined(z, e)
  BY <1>3, <1>4, <1>5, <1>6 DEF Joined, Edge, EdgeFields
<1> HIDE DEF e
<1>8. Extended(z, PutKeyed(z, e))
  BY <1>6, <1>7, PutKeyedGrows
<1>9. Grown(x, PutKeyed(z, e))
  BY <1>5, <1>6, <1>8, ExtendedTrans, ExtendedGrown
<1> QED BY <1>1, <1>3, <1>4, <1>9, GrownTrans

NetworkOp(p, q, r, t, x) == JoinNetwork(t, x, q, r)
NetworkRows == INSTANCE FoldInduction WITH Op <- NetworkOp, Good <- GrownSoFar
LEMMA JoinNetworksGrows ==
  ASSUME NEW t, Graph(t), NEW list, IsSeq(list), NEW id \in Ids(t), NEW device \in Ids(t)
  PROVE  Grown(t, JoinNetworks(t, list, id, device))
<1>1. NetworkRows!WellOrdered
  BY LeastOf DEF NetworkRows!WellOrdered
<1>2. GrownSoFar(t, id, device, 0, t)
  BY GrownSelf DEF GrownSoFar
<1>3. \A k \in 1..Len(list) : \A u : GrownSoFar(t, id, device, k - 1, u) => GrownSoFar(t, id, device, k, NetworkOp(t, id, device, u, list[k]))
  <2> SUFFICES ASSUME NEW k \in 1..Len(list), NEW u, Grown(t, u)
               PROVE  Grown(t, NetworkOp(t, id, device, u, list[k]))
    BY DEF GrownSoFar
  <2>1. Graph(u) /\ u.interface = t.interface /\ Ids(t) \subseteq Ids(u)
    BY GrownIds
  <2>2. Grown(u, JoinNetwork(u, list[k], id, device))
    BY <2>1, JoinNetworkGrows
  <2> QED BY <2>2, GrownTrans DEF NetworkOp
<1>4. Len(list) \in Nat /\ DOMAIN list = 1..Len(list)
  BY SeqShape
<1>5. GrownSoFar(t, id, device, Len(list), NetworkRows!Folded(t, id, device, t, list))
  BY <1>1, <1>2, <1>3, <1>4, NetworkRows!FoldKeeps
<1>6. NetworkRows!Folded(t, id, device, t, list) = JoinNetworks(t, list, id, device)
  BY DEF NetworkRows!Folded, JoinNetworks, FoldLeft, MapThenFoldSet, Max, NetworkOp
<1> QED BY <1>5, <1>6 DEF GrownSoFar

\* A finite set, listed.
LEMMA SetListed ==
  ASSUME NEW S, IsFiniteSet(S)
  PROVE  IsSeq(SetToSeq(S)) /\ ToSet(SetToSeq(S)) = S
<1> DEFINE n == Cardinality(S)
<1>1. n \in Nat /\ ExistsBijection(1..n, S)
  BY FS_CardinalityType
<1>2. PICK f : f \in Bijection(1..n, S)
  BY <1>1 DEF ExistsBijection
<1>3. f \in [1..n -> S] /\ IsInjective(f)
  BY <1>2 DEF Bijection, Injection, IsInjective
<1>4. PICK s : s = SetToSeq(S)
  OBVIOUS
<1>5. s \in [1..n -> S] /\ IsInjective(s)
  BY <1>3, <1>4 DEF SetToSeq
<1>6. s \in Surjection(1..n, S)
  <2>1. s \in Injection(1..n, S)
    BY <1>5 DEF Injection, IsInjective
  <2>2. IsFiniteSet(1..n) /\ Cardinality(1..n) = n
    BY <1>1, FS_Interval
  <2> QED BY <2>1, <2>2, FS_Injection
<1>7. s = [i \in 1..n |-> s[i]]
  BY <1>5
<1>8. IsSeq(s)
  BY <1>1, <1>7, SeqMade
<1>9. ToSet(s) = S
  BY <1>5, <1>6 DEF ToSet, Surjection
<1> QED BY <1>4, <1>8, <1>9

LEMMA AddSshInterfaceGrows ==
  ASSUME NEW t, Graph(t), NEW row, IsFiniteSet(row.addresses), NEW d, NEW device \in Ids(t)
  PROVE  Grown(t, AddSshInterface(t, row, d, device))
<1> DEFINE id   == SshInterface(d, row)
           nets == {a[2] : a \in {b \in row.addresses : Cardinality(b[2]) > 1}}
           node == [Node(id, "network-interface") EXCEPT !.roles = {"router-interface"}, !.parent = device,
                      !.addresses = row.addresses, !.names = {row.name}, !.mac = row.mac,
                      !.provenance = {"ssh-ip-addr", "credentialed-ssh-readonly"}]
           u    == IF id \in Ids(t) THEN t ELSE AddNode(t, node)
<1>1. AddSshInterface(t, row, d, device) = JoinNetworks(u, SetToSeq(nets), id, device)
  BY DEF AddSshInterface
<1>2. DOMAIN node = NodeFields /\ node.id = id /\ node.kind = "network-interface"
  BY DEF Node, NodeFields
<1>3. Plain(id)
  BY DEF SshInterface, Plain, NoNode
<1>4. IsFiniteSet(nets)
  <2> DEFINE B == {b \in row.addresses : Cardinality(b[2]) > 1}
             f == [a \in B |-> a[2]]
  <2>1. IsFiniteSet(B)
    BY FS_Subset
  <2>2. f \in Surjection(B, nets)
    BY DEF Surjection
  <2> HIDE DEF f, nets
  <2> QED BY <2>1, <2>2, FS_Surjection
<1> HIDE DEF node, nets, id
<1>5. Proper(node)
  BY <1>2, <1>3, PlainProper
<1>6. Extended(t, u) /\ id \in Ids(u) /\ device \in Ids(u) /\ Graph(u)
  BY <1>2, <1>5, AddNodeGrows, ExtendedSelf, ExtendedIds
<1> HIDE DEF u
<1>7. IsSeq(SetToSeq(nets))
  BY <1>4, SetListed
<1>8. Grown(u, JoinNetworks(u, SetToSeq(nets), id, device))
  BY <1>6, <1>7, JoinNetworksGrows
<1>9. Grown(t, u)
  BY <1>6, ExtendedGrown
<1> QED BY <1>1, <1>8, <1>9, GrownTrans

SshInterfaceOp(p, q, r, t, x) == AddSshInterface(t, x, q, r)
SshInterfaceRows == INSTANCE FoldInduction WITH Op <- SshInterfaceOp, Good <- GrownSoFar
LEMMA AddSshInterfacesGrows ==
  ASSUME NEW t, Graph(t), NEW d, IsSsh(d), NEW device \in Ids(t)
  PROVE  Grown(t, AddSshInterfaces(t, d, device))
<1>1. SshInterfaceRows!WellOrdered
  BY LeastOf DEF SshInterfaceRows!WellOrdered
<1>2. GrownSoFar(t, d, device, 0, t)
  BY GrownSelf DEF GrownSoFar
<1>3. \A k \in 1..Len(d.interfaces) : \A u : GrownSoFar(t, d, device, k - 1, u) => GrownSoFar(t, d, device, k, SshInterfaceOp(t, d, device, u, d.interfaces[k]))
  <2> SUFFICES ASSUME NEW k \in 1..Len(d.interfaces), NEW u, Grown(t, u)
               PROVE  Grown(t, SshInterfaceOp(t, d, device, u, d.interfaces[k]))
    BY DEF GrownSoFar
  <2>1. Graph(u) /\ u.interface = t.interface /\ Ids(t) \subseteq Ids(u)
    BY GrownIds
  <2>0. Len(d.interfaces) \in Nat /\ DOMAIN d.interfaces = 1..Len(d.interfaces)
    BY SeqShape DEF IsSsh
  <2>2. IsFiniteSet(d.interfaces[k].addresses)
    BY <2>0 DEF IsSsh
  <2>3. Grown(u, AddSshInterface(u, d.interfaces[k], d, device))
    BY <2>1, <2>2, AddSshInterfaceGrows
  <2> QED BY <2>3, GrownTrans DEF SshInterfaceOp
<1>4. Len(d.interfaces) \in Nat /\ DOMAIN d.interfaces = 1..Len(d.interfaces)
  BY SeqShape DEF IsSsh
<1>5. GrownSoFar(t, d, device, Len(d.interfaces), SshInterfaceRows!Folded(t, d, device, t, d.interfaces))
  BY <1>1, <1>2, <1>3, <1>4, SshInterfaceRows!FoldKeeps
<1>6. SshInterfaceRows!Folded(t, d, device, t, d.interfaces) = AddSshInterfaces(t, d, device)
  BY DEF SshInterfaceRows!Folded, AddSshInterfaces, FoldLeft, MapThenFoldSet, Max, SshInterfaceOp
<1> QED BY <1>5, <1>6 DEF GrownSoFar

LEMMA AddSshNeighborGrows ==
  ASSUME NEW t, Graph(t), NEW row
  PROVE  Extended(t, AddSshNeighbor(t, row))
<1> DEFINE byIp  == {FirstHolding(t, x) : x \in row.ip} \ {NoNode}
           byMac == {FirstWithMac(t, x) : x \in row.mac} \ {NoNode}
           own   == <<"ssh-neighbor", IF row.ip # {} THEN row.ip ELSE row.mac>>
           among == IF byIp # {} THEN byIp ELSE IF byMac # {} THEN byMac ELSE {own}
           node  == CHOOSE id \in among : TRUE
           new   == [Node(node, "endpoint") EXCEPT !.roles = {"management-neighbor"}, !.mac = row.mac,
                       !.addresses = {<<x, {}>> : x \in row.ip}, !.names = row.ip]
           u     == IF node \in Ids(t) THEN t ELSE AddNode(t, new)
           v     == Amended(u, node, LAMBDA n : [Marked(n, {}, {"ssh-ip-neigh"}) EXCEPT !.mac = IF @ = {} THEN row.mac ELSE @])
<1>1. AddSshNeighbor(t, row) = v
  BY DEF AddSshNeighbor
<1>2. v = MeetNode(u, node, row.mac)
  BY DEF MeetNode
<1>3. DOMAIN new = NodeFields /\ new.id = node /\ new.kind = "endpoint"
  BY DEF Node, NodeFields
<1>4. byIp \subseteq Ids(t) /\ byMac \subseteq Ids(t)
  BY FirstHoldingIs, FirstWithMacIs
<1>5. Plain(own)
  BY DEF Plain, NoNode
<1> HIDE DEF v, new, byIp, byMac, own
<1>6. node \in Ids(t) \/ node = own
  <2>1. among # {} /\ among \subseteq Ids(t) \cup {own}
    BY <1>4
  <2> HIDE DEF among
  <2> QED BY <2>1
<1> HIDE DEF node
<1>7. Extended(t, u) /\ Graph(u)
  BY <1>3, <1>5, <1>6, PlainProper, AddNodeGrows, ExtendedSelf, ExtendedIds
<1> HIDE DEF u
<1> QED BY <1>1, <1>2, <1>7, MeetNodeGrows, ExtendedTrans

SshNeighborOp(p, q, r, t, x) == AddSshNeighbor(t, x)
SshNeighborRows == INSTANCE FoldInduction WITH Op <- SshNeighborOp, Good <- SoFar
LEMMA AddSshNeighborsGrows ==
  ASSUME NEW t, Graph(t), NEW d, IsSsh(d)
  PROVE  Extended(t, AddSshNeighbors(t, d))
<1>1. SshNeighborRows!WellOrdered
  BY LeastOf DEF SshNeighborRows!WellOrdered
<1>2. SoFar(t, d, d, 0, t)
  BY ExtendedSelf DEF SoFar
<1>3. \A k \in 1..Len(d.neighbors) : \A u : SoFar(t, d, d, k - 1, u) => SoFar(t, d, d, k, SshNeighborOp(t, d, d, u, d.neighbors[k]))
  <2> SUFFICES ASSUME NEW k \in 1..Len(d.neighbors), NEW u, Extended(t, u)
               PROVE  Extended(t, SshNeighborOp(t, d, d, u, d.neighbors[k]))
    BY DEF SoFar
  <2>1. Graph(u) /\ u.interface = t.interface /\ Ids(t) \subseteq Ids(u)
    BY ExtendedIds
  <2>2. Extended(u, AddSshNeighbor(u, d.neighbors[k]))
    BY <2>1, AddSshNeighborGrows
  <2> QED BY <2>2, ExtendedTrans DEF SshNeighborOp
<1>4. Len(d.neighbors) \in Nat /\ DOMAIN d.neighbors = 1..Len(d.neighbors)
  BY SeqShape DEF IsSsh
<1>5. SoFar(t, d, d, Len(d.neighbors), SshNeighborRows!Folded(t, d, d, t, d.neighbors))
  BY <1>1, <1>2, <1>3, <1>4, SshNeighborRows!FoldKeeps
<1>6. SshNeighborRows!Folded(t, d, d, t, d.neighbors) = AddSshNeighbors(t, d)
  BY DEF SshNeighborRows!Folded, AddSshNeighbors, FoldLeft, MapThenFoldSet, Max, SshNeighborOp
<1> QED BY <1>5, <1>6 DEF SoFar

LEMMA AddBridgeEntryGrows ==
  ASSUME NEW t, Graph(t), NEW row, NEW d, NEW device \in Ids(t)
  PROVE  Extended(t, AddBridgeEntry(t, row, d, device))
<1> DEFINE node == FirstWithMac(t, row.mac)
           port == Port(d, row.port)
           only == port.untagged \cup port.pvid
           vlan == IF row.vlan # {} THEN row.vlan
                   ELSE IF PortMode(port) = "access" /\ Cardinality(only) = 1 THEN only ELSE {}
           why  == IF row.vlan # {} THEN "ssh-bridge-fdb" ELSE "ssh-bridge-vlan"
           e    == [Edge(device, node, "layer2_neighbor", {"ssh-bridge-fdb"})
                      EXCEPT !.mapping = "switch_port", !.vlans = vlan,
                             !.key = <<"ssh-fdb", d.target, row.mac, row.port, vlan>>]
           u    == PutKeyed(t, e)
           v    == Amended(u, node, LAMBDA n : [Marked(n, {}, {why}) EXCEPT !.vlans = @ \cup vlan])
<1>1. AddBridgeEntry(t, row, d, device) = IF node \in {NoNode, device} THEN t ELSE IF vlan = {} THEN u ELSE v
  BY DEF AddBridgeEntry
<1>2. v = TagNode(u, node, why, vlan)
  BY DEF TagNode
<1>3. node = NoNode \/ node \in Ids(t)
  BY FirstWithMacIs
<1> HIDE DEF v, node, vlan, why
<1>4. node # NoNode => Joined(t, e)
  BY <1>3 DEF Joined, Edge, EdgeFields
<1> HIDE DEF e
<1>5. node # NoNode => Extended(t, u) /\ Graph(u)
  BY <1>4, PutKeyedGrows, ExtendedIds
<1> HIDE DEF u
<1>6. node # NoNode => Extended(t, v)
  BY <1>2, <1>5, TagNodeGrows, ExtendedTrans
<1> QED BY <1>1, <1>5, <1>6, ExtendedSelf

BridgeEntryOp(p, q, r, t, x) == AddBridgeEntry(t, x, q, r)
BridgeEntries == INSTANCE FoldInduction WITH Op <- BridgeEntryOp, Good <- SoFar
LEMMA AddBridgeEntriesGrows ==
  ASSUME NEW t, Graph(t), NEW d, IsSsh(d), NEW device \in Ids(t)
  PROVE  Extended(t, AddBridgeEntries(t, d, device))
<1>1. BridgeEntries!WellOrdered
  BY LeastOf DEF BridgeEntries!WellOrdered
<1>2. SoFar(t, d, device, 0, t)
  BY ExtendedSelf DEF SoFar
<1>3. \A k \in 1..Len(d.fdb) : \A u : SoFar(t, d, device, k - 1, u) => SoFar(t, d, device, k, BridgeEntryOp(t, d, device, u, d.fdb[k]))
  <2> SUFFICES ASSUME NEW k \in 1..Len(d.fdb), NEW u, Extended(t, u)
               PROVE  Extended(t, BridgeEntryOp(t, d, device, u, d.fdb[k]))
    BY DEF SoFar
  <2>1. Graph(u) /\ u.interface = t.interface /\ Ids(t) \subseteq Ids(u)
    BY ExtendedIds
  <2>2. Extended(u, AddBridgeEntry(u, d.fdb[k], d, device))
    BY <2>1, AddBridgeEntryGrows
  <2> QED BY <2>2, ExtendedTrans DEF BridgeEntryOp
<1>4. Len(d.fdb) \in Nat /\ DOMAIN d.fdb = 1..Len(d.fdb)
  BY SeqShape DEF IsSsh
<1>5. SoFar(t, d, device, Len(d.fdb), BridgeEntries!Folded(t, d, device, t, d.fdb))
  BY <1>1, <1>2, <1>3, <1>4, BridgeEntries!FoldKeeps
<1>6. BridgeEntries!Folded(t, d, device, t, d.fdb) = AddBridgeEntries(t, d, device)
  BY DEF BridgeEntries!Folded, AddBridgeEntries, FoldLeft, MapThenFoldSet, Max, BridgeEntryOp
<1> QED BY <1>5, <1>6 DEF SoFar

LEMMA AddAssociationGrows ==
  ASSUME NEW t, Graph(t), NEW mac, NEW d, NEW device \in Ids(t)
  PROVE  Extended(t, AddAssociation(t, mac, d, device))
<1> DEFINE known  == FirstWithMac(t, mac)
           client == IF known # NoNode THEN known ELSE <<"ssh-wifi", mac>>
           new == [Node(client, "endpoint") EXCEPT !.roles = {"wifi-client"}, !.mac = {mac},
                     !.provenance = {"ssh-wifi-association"}]
           u == PutNode(t, new)
           e == [Edge(device, client, "layer2_neighbor", {"ssh-wifi-association"})
                   EXCEPT !.mapping = "wifi_association", !.key = <<"ssh-wifi", d.target, mac>>]
<1>1. AddAssociation(t, mac, d, device) = PutKeyed(u, e)
  BY DEF AddAssociation
<1>2. DOMAIN new = NodeFields /\ new.id = client /\ new.kind = "endpoint"
  BY DEF Node, NodeFields
<1>3. client \in Ids(t) \/ Plain(client)
  <2>1. CASE known # NoNode
    BY <2>1, FirstWithMacIs
  <2>2. CASE known = NoNode
    BY <2>2 DEF Plain, NoNode
  <2> QED BY <2>1, <2>2
<1> HIDE DEF new, client
<1>4. Extended(t, u) /\ client \in Ids(u) /\ device \in Ids(u) /\ Graph(u)
  BY <1>2, <1>3, PlainProper, PutNodeGrows, ExtendedIds
<1> HIDE DEF u
<1>5. Joined(u, e)
  BY <1>4 DEF Joined, Edge, EdgeFields
<1> HIDE DEF e
<1> QED BY <1>1, <1>4, <1>5, PutKeyedGrows, ExtendedTrans

WifiOp(p, q, r, t, x) == AddAssociation(t, x, q, r)
WifiRows == INSTANCE FoldInduction WITH Op <- WifiOp, Good <- SoFar
LEMMA AddAssociationsGrows ==
  ASSUME NEW t, Graph(t), NEW d, IsSsh(d), NEW device \in Ids(t)
  PROVE  Extended(t, AddAssociations(t, d, device))
<1>1. WifiRows!WellOrdered
  BY LeastOf DEF WifiRows!WellOrdered
<1>2. SoFar(t, d, device, 0, t)
  BY ExtendedSelf DEF SoFar
<1>3. \A k \in 1..Len(d.wifi) : \A u : SoFar(t, d, device, k - 1, u) => SoFar(t, d, device, k, WifiOp(t, d, device, u, d.wifi[k]))
  <2> SUFFICES ASSUME NEW k \in 1..Len(d.wifi), NEW u, Extended(t, u)
               PROVE  Extended(t, WifiOp(t, d, device, u, d.wifi[k]))
    BY DEF SoFar
  <2>1. Graph(u) /\ u.interface = t.interface /\ Ids(t) \subseteq Ids(u)
    BY ExtendedIds
  <2>2. Extended(u, AddAssociation(u, d.wifi[k], d, device))
    BY <2>1, AddAssociationGrows
  <2> QED BY <2>2, ExtendedTrans DEF WifiOp
<1>4. Len(d.wifi) \in Nat /\ DOMAIN d.wifi = 1..Len(d.wifi)
  BY SeqShape DEF IsSsh
<1>5. SoFar(t, d, device, Len(d.wifi), WifiRows!Folded(t, d, device, t, d.wifi))
  BY <1>1, <1>2, <1>3, <1>4, WifiRows!FoldKeeps
<1>6. WifiRows!Folded(t, d, device, t, d.wifi) = AddAssociations(t, d, device)
  BY DEF WifiRows!Folded, AddAssociations, FoldLeft, MapThenFoldSet, Max, WifiOp
<1> QED BY <1>5, <1>6 DEF SoFar

\* An unknown next hop gets a node of its own, and no node has that identifier:
\* one that had it would hold the address.
LEMMA AddUpstreamRouteGrows ==
  ASSUME NEW t, Graph(t), NEW gateway, NEW d, NEW device \in Ids(t)
  PROVE  Extended(t, AddUpstreamRoute(t, gateway, d, device))
<1> DEFINE known == FirstHolding(t, gateway)
           node  == IF known # NoNode THEN known ELSE <<"ssh-route-gateway", gateway>>
           new   == [Node(node, "endpoint") EXCEPT !.roles = {"upstream-gateway"}, !.names = {gateway},
                       !.addresses = {<<gateway, {}>>}, !.provenance = {"ssh-ip-route"}]
           u     == IF known # NoNode THEN t ELSE AddNode(t, new)
           e     == [Edge(device, node, "upstream_route", {"ssh-ip-route"})
                       EXCEPT !.key = <<"ssh-default-route", d.target, gateway>>]
<1>1. AddUpstreamRoute(t, gateway, d, device) = IF node = device THEN u ELSE PutKeyed(u, e)
  BY DEF AddUpstreamRoute
<1>2. DOMAIN new = NodeFields /\ new.id = node /\ new.kind = "endpoint" /\ new.addresses = {<<gateway, {}>>}
  BY DEF Node, NodeFields
<1>3. known # NoNode => node \in Ids(t)
  BY FirstHoldingIs
<1>4. known = NoNode => node \notin Ids(t) /\ node = <<"ssh-route-gateway", gateway>>
  <2> SUFFICES ASSUME known = NoNode, node \in Ids(t) PROVE FALSE
    OBVIOUS
  <2>1. \A i \in DOMAIN t.nodes : ~ (gateway \in Bare(t.nodes[i]))
    BY FirstHoldingIs
  <2>2. PICK i \in DOMAIN t.nodes : t.nodes[i].id = <<"ssh-route-gateway", gateway>>
    BY DEF Ids
  <2>3. gateway \in Bare(t.nodes[i])
    BY <2>2 DEF Graph, Proper
  <2> QED BY <2>1, <2>3
<1> HIDE DEF new, node, known
<1>5. known = NoNode => Proper(new)
  <2> SUFFICES ASSUME known = NoNode PROVE Proper(new)
    OBVIOUS
  <2>1. new.id = <<"ssh-route-gateway", gateway>> /\ gateway \in Bare(new)
    BY <1>2, <1>4 DEF Bare
  <2> QED BY <1>2, <2>1 DEF Proper, NoNode
<1>6. Extended(t, u) /\ node \in Ids(u) /\ device \in Ids(u) /\ Graph(u)
  BY <1>2, <1>3, <1>4, <1>5, AddNodeGrows, ExtendedSelf, ExtendedIds
<1> HIDE DEF u
<1>7. Joined(u, e)
  BY <1>6 DEF Joined, Edge, EdgeFields
<1> HIDE DEF e
<1> QED BY <1>1, <1>6, <1>7, PutKeyedGrows, ExtendedTrans

UpstreamOp(p, q, r, t, x) == AddUpstreamRoute(t, x, q, r)
UpstreamRows == INSTANCE FoldInduction WITH Op <- UpstreamOp, Good <- SoFar
LEMMA AddUpstreamRoutesGrows ==
  ASSUME NEW t, Graph(t), NEW d, IsSsh(d), NEW device \in Ids(t)
  PROVE  Extended(t, AddUpstreamRoutes(t, d, device))
<1>1. UpstreamRows!WellOrdered
  BY LeastOf DEF UpstreamRows!WellOrdered
<1>2. SoFar(t, d, device, 0, t)
  BY ExtendedSelf DEF SoFar
<1>3. \A k \in 1..Len(d.gateways) : \A u : SoFar(t, d, device, k - 1, u) => SoFar(t, d, device, k, UpstreamOp(t, d, device, u, d.gateways[k]))
  <2> SUFFICES ASSUME NEW k \in 1..Len(d.gateways), NEW u, Extended(t, u)
               PROVE  Extended(t, UpstreamOp(t, d, device, u, d.gateways[k]))
    BY DEF SoFar
  <2>1. Graph(u) /\ u.interface = t.interface /\ Ids(t) \subseteq Ids(u)
    BY ExtendedIds
  <2>2. Extended(u, AddUpstreamRoute(u, d.gateways[k], d, device))
    BY <2>1, AddUpstreamRouteGrows
  <2> QED BY <2>2, ExtendedTrans DEF UpstreamOp
<1>4. Len(d.gateways) \in Nat /\ DOMAIN d.gateways = 1..Len(d.gateways)
  BY SeqShape DEF IsSsh
<1>5. SoFar(t, d, device, Len(d.gateways), UpstreamRows!Folded(t, d, device, t, d.gateways))
  BY <1>1, <1>2, <1>3, <1>4, UpstreamRows!FoldKeeps
<1>6. UpstreamRows!Folded(t, d, device, t, d.gateways) = AddUpstreamRoutes(t, d, device)
  BY DEF UpstreamRows!Folded, AddUpstreamRoutes, FoldLeft, MapThenFoldSet, Max, UpstreamOp
<1> QED BY <1>5, <1>6 DEF SoFar

LEMMA DecorateSshGrows ==
  ASSUME NEW t, Graph(t), NEW d, IsSsh(d)
  PROVE  Grown(t, DecorateSsh(t, d))
<1> DEFINE device == ManagedDevice(t, d, "ssh-device")
           u == Managed(t, d, "ssh-device", "ssh-managed", "credentialed-ssh-readonly")
           v == AddSshInterfaces(u, d, device)
           w == AddSshNeighbors(v, d)
           x == AddBridgeEntries(w, d, device)
           y == AddAssociations(x, d, device)
           z == AddUpstreamRoutes(y, d, device)
<1>1. DecorateSsh(t, d) = z
  BY DEF DecorateSsh
<1>2. Extended(t, u) /\ device \in Ids(u) /\ Graph(u)
  BY ManagedGrows, ExtendedIds
<1> HIDE DEF device, u
<1>3. Grown(u, v) /\ device \in Ids(v) /\ Graph(v)
  BY <1>2, AddSshInterfacesGrows, GrownIds
<1> HIDE DEF v
<1>4. Extended(v, w) /\ device \in Ids(w) /\ Graph(w)
  BY <1>3, AddSshNeighborsGrows, ExtendedIds
<1> HIDE DEF w
<1>5. Extended(w, x) /\ device \in Ids(x) /\ Graph(x)
  BY <1>4, AddBridgeEntriesGrows, ExtendedIds
<1> HIDE DEF x
<1>6. Extended(x, y) /\ device \in Ids(y) /\ Graph(y)
  BY <1>5, AddAssociationsGrows, ExtendedIds
<1> HIDE DEF y
<1>7. Extended(y, z)
  BY <1>6, AddUpstreamRoutesGrows
<1> HIDE DEF z
<1>8. Extended(v, z)
  BY <1>4, <1>5, <1>6, <1>7, ExtendedTrans
<1>9. Grown(t, u) /\ Grown(v, z)
  BY <1>2, <1>8, ExtendedGrown
<1> QED BY <1>1, <1>3, <1>9, GrownTrans

LEMMA GuardSnmpRouterRolesGrows ==
  ASSUME NEW t, Graph(t)
  PROVE  Extended(t, GuardSnmpRouterRoles(t))
<1> DEFINE networks(n) == {a[2] : a \in {b \in UNION {m.addresses : m \in {c \in ToSet(t.nodes) :
                                           c.parent = n.id /\ "router-interface" \in c.roles}} :
                                         Cardinality(b[2]) > 1}}
           suspect(n)  == /\ {"snmp-managed", "router"} \subseteq n.roles
                          /\ n.id \notin t.routers /\ "gateway" \notin n.roles
           guarded(n)  == IF ~ suspect(n) THEN n
                          ELSE IF Cardinality(networks(n)) >= 2
                          THEN [n EXCEPT !.connected = @ \cup {SegmentId(x) : x \in networks(n)}]
                          ELSE [n EXCEPT !.roles = @ \ {"router", "router-candidate"}]
<1>1. PICK u : u = GuardSnmpRouterRoles(t)
  OBVIOUS
<1>2. u = [t EXCEPT !.nodes = [i \in DOMAIN t.nodes |-> guarded(t.nodes[i])]]
  BY <1>1 DEF GuardSnmpRouterRoles
<1>3. ASSUME NEW n, Proper(n) PROVE Later(n, guarded(n))
  <2> HIDE DEF networks, suspect
  <2>1. /\ DOMAIN guarded(n) = NodeFields /\ guarded(n).id = n.id /\ guarded(n).kind = n.kind
        /\ guarded(n).addresses = n.addresses /\ guarded(n).names = n.names /\ guarded(n).mac = n.mac
    BY <1>3 DEF Proper, NodeFields
  <2> QED BY <1>3, <2>1, LaterIf
<1> HIDE DEF guarded
<1>4. /\ DOMAIN u = MapFields /\ u.interface = t.interface /\ u.audits = t.audits
      /\ u.edges = t.edges /\ u.segments = t.segments
      /\ u.nodes = [i \in DOMAIN t.nodes |-> guarded(t.nodes[i])]
  BY <1>2 DEF Graph, MapFields
<1>5. \A i \in DOMAIN t.nodes : Later(t.nodes[i], u.nodes[i])
  BY <1>3, <1>4 DEF Graph
<1>6. u.nodes = [i \in DOMAIN t.nodes |-> u.nodes[i]]
  BY <1>4
<1>7. Extended(t, u)
  BY <1>4, <1>5, <1>6, Renewed
<1> QED BY <1>1, <1>7

-----------------------------------------------------------------------------
\* The stages: every document of a kind, one after the other.

UpstreamDocOp(p, q, r, t, x) == DecorateRouteTrace(t, x)
TraceDocuments == INSTANCE FoldInduction WITH Op <- UpstreamDocOp, Good <- KeptDrawn
LEMMA DecorateUpstreamTopologyKeeps ==
  ASSUME NEW t, Graph(t), Drawn(t), NEW docs, IsSeq(docs), \A i \in DOMAIN docs : IsTrace(docs[i])
  PROVE  Kept(t, DecorateUpstreamTopology(t, docs)) /\ Drawn(DecorateUpstreamTopology(t, docs))
<1>1. TraceDocuments!WellOrdered
  BY LeastOf DEF TraceDocuments!WellOrdered
<1>2. KeptDrawn(t, t, t, 0, t)
  BY KeptSelf DEF KeptDrawn
<1>3. \A k \in 1..Len(docs) : \A u : KeptDrawn(t, t, t, k - 1, u) => KeptDrawn(t, t, t, k, UpstreamDocOp(t, t, t, u, docs[k]))
  <2> SUFFICES ASSUME NEW k \in 1..Len(docs), NEW u, Kept(t, u), Drawn(u)
               PROVE  KeptDrawn(t, t, t, k, DecorateRouteTrace(u, docs[k]))
    BY DEF KeptDrawn, UpstreamDocOp
  <2>1. IsTrace(docs[k]) /\ Graph(u)
    BY SeqShape, KeptIds
  <2>2. Kept(u, DecorateRouteTrace(u, docs[k])) /\ Drawn(DecorateRouteTrace(u, docs[k]))
    BY <2>1, DecorateRouteTraceKeeps
  <2> QED BY <2>2, KeptTrans DEF KeptDrawn
<1>4. Len(docs) \in Nat /\ DOMAIN docs = 1..Len(docs)
  BY SeqShape
<1>5. KeptDrawn(t, t, t, Len(docs), TraceDocuments!Folded(t, t, t, t, docs))
  BY <1>1, <1>2, <1>3, <1>4, TraceDocuments!FoldKeeps
<1>6. TraceDocuments!Folded(t, t, t, t, docs) = DecorateUpstreamTopology(t, docs)
  BY DEF TraceDocuments!Folded, DecorateUpstreamTopology, FoldLeft, MapThenFoldSet, Max, UpstreamDocOp
<1> QED BY <1>5, <1>6 DEF KeptDrawn

SnmpDocOp(p, q, r, t, x) == DecorateSnmp(t, x)
SnmpDocuments == INSTANCE FoldInduction WITH Op <- SnmpDocOp, Good <- GrownSoFar
LEMMA DecorateSnmpTopologyGrows ==
  ASSUME NEW t, Graph(t), NEW docs, IsSeq(docs), \A i \in DOMAIN docs : IsSnmp(docs[i])
  PROVE  Grown(t, DecorateSnmpTopology(t, docs))
<1>1. SnmpDocuments!WellOrdered
  BY LeastOf DEF SnmpDocuments!WellOrdered
<1>2. GrownSoFar(t, t, t, 0, t)
  BY GrownSelf DEF GrownSoFar
<1>3. \A k \in 1..Len(docs) : \A u : GrownSoFar(t, t, t, k - 1, u) => GrownSoFar(t, t, t, k, SnmpDocOp(t, t, t, u, docs[k]))
  <2> SUFFICES ASSUME NEW k \in 1..Len(docs), NEW u, Grown(t, u)
               PROVE  Grown(t, SnmpDocOp(t, t, t, u, docs[k]))
    BY DEF GrownSoFar
  <2>1. Graph(u) /\ u.interface = t.interface /\ Ids(t) \subseteq Ids(u)
    BY GrownIds
  <2>0. Len(docs) \in Nat /\ DOMAIN docs = 1..Len(docs)
    BY SeqShape
  <2>2. IsSnmp(docs[k])
    BY <2>0
  <2>3. Grown(u, DecorateSnmp(u, docs[k]))
    BY <2>1, <2>2, DecorateSnmpGrows, ExtendedGrown
  <2> QED BY <2>3, GrownTrans DEF SnmpDocOp
<1>4. Len(docs) \in Nat /\ DOMAIN docs = 1..Len(docs)
  BY SeqShape
<1>5. GrownSoFar(t, t, t, Len(docs), SnmpDocuments!Folded(t, t, t, t, docs))
  BY <1>1, <1>2, <1>3, <1>4, SnmpDocuments!FoldKeeps
<1>6. SnmpDocuments!Folded(t, t, t, t, docs) = DecorateSnmpTopology(t, docs)
  BY DEF SnmpDocuments!Folded, DecorateSnmpTopology, FoldLeft, MapThenFoldSet, Max, SnmpDocOp
<1> QED BY <1>5, <1>6 DEF GrownSoFar

ExtendedDocOp(p, q, r, t, x) == DecorateSnmpExtended(t, x, r)
ExtendedDocuments == INSTANCE FoldInduction WITH Op <- ExtendedDocOp, Good <- GrownSoFar
LEMMA DecorateSnmpExtendedTopologyGrows ==
  ASSUME NEW t, Graph(t), NEW docs, IsSeq(docs), \A i \in DOMAIN docs : IsSnmp(docs[i]), NEW addSegments
  PROVE  Grown(t, DecorateSnmpExtendedTopology(t, docs, addSegments))
<1>1. ExtendedDocuments!WellOrdered
  BY LeastOf DEF ExtendedDocuments!WellOrdered
<1>2. GrownSoFar(t, t, addSegments, 0, t)
  BY GrownSelf DEF GrownSoFar
<1>3. \A k \in 1..Len(docs) : \A u : GrownSoFar(t, t, addSegments, k - 1, u) => GrownSoFar(t, t, addSegments, k, ExtendedDocOp(t, t, addSegments, u, docs[k]))
  <2> SUFFICES ASSUME NEW k \in 1..Len(docs), NEW u, Grown(t, u)
               PROVE  Grown(t, ExtendedDocOp(t, t, addSegments, u, docs[k]))
    BY DEF GrownSoFar
  <2>1. Graph(u) /\ u.interface = t.interface /\ Ids(t) \subseteq Ids(u)
    BY GrownIds
  <2>0. Len(docs) \in Nat /\ DOMAIN docs = 1..Len(docs)
    BY SeqShape
  <2>2. IsSnmp(docs[k])
    BY <2>0
  <2>3. Grown(u, DecorateSnmpExtended(u, docs[k], addSegments))
    BY <2>1, <2>2, DecorateSnmpExtendedGrows
  <2> QED BY <2>3, GrownTrans DEF ExtendedDocOp
<1>4. Len(docs) \in Nat /\ DOMAIN docs = 1..Len(docs)
  BY SeqShape
<1>5. GrownSoFar(t, t, addSegments, Len(docs), ExtendedDocuments!Folded(t, t, addSegments, t, docs))
  BY <1>1, <1>2, <1>3, <1>4, ExtendedDocuments!FoldKeeps
<1>6. ExtendedDocuments!Folded(t, t, addSegments, t, docs) = DecorateSnmpExtendedTopology(t, docs, addSegments)
  BY DEF ExtendedDocuments!Folded, DecorateSnmpExtendedTopology, FoldLeft, MapThenFoldSet, Max, ExtendedDocOp
<1> QED BY <1>5, <1>6 DEF GrownSoFar

SshDocOp(p, q, r, t, x) == DecorateSsh(t, x)
SshDocuments == INSTANCE FoldInduction WITH Op <- SshDocOp, Good <- GrownSoFar
LEMMA DecorateSshManagementGrows ==
  ASSUME NEW t, Graph(t), NEW docs, IsSeq(docs), \A i \in DOMAIN docs : IsSsh(docs[i])
  PROVE  Grown(t, DecorateSshManagement(t, docs))
<1>1. SshDocuments!WellOrdered
  BY LeastOf DEF SshDocuments!WellOrdered
<1>2. GrownSoFar(t, t, t, 0, t)
  BY GrownSelf DEF GrownSoFar
<1>3. \A k \in 1..Len(docs) : \A u : GrownSoFar(t, t, t, k - 1, u) => GrownSoFar(t, t, t, k, SshDocOp(t, t, t, u, docs[k]))
  <2> SUFFICES ASSUME NEW k \in 1..Len(docs), NEW u, Grown(t, u)
               PROVE  Grown(t, SshDocOp(t, t, t, u, docs[k]))
    BY DEF GrownSoFar
  <2>1. Graph(u) /\ u.interface = t.interface /\ Ids(t) \subseteq Ids(u)
    BY GrownIds
  <2>0. Len(docs) \in Nat /\ DOMAIN docs = 1..Len(docs)
    BY SeqShape
  <2>2. IsSsh(docs[k])
    BY <2>0
  <2>3. Grown(u, DecorateSsh(u, docs[k]))
    BY <2>1, <2>2, DecorateSshGrows
  <2> QED BY <2>3, GrownTrans DEF SshDocOp
<1>4. Len(docs) \in Nat /\ DOMAIN docs = 1..Len(docs)
  BY SeqShape
<1>5. GrownSoFar(t, t, t, Len(docs), SshDocuments!Folded(t, t, t, t, docs))
  BY <1>1, <1>2, <1>3, <1>4, SshDocuments!FoldKeeps
<1>6. SshDocuments!Folded(t, t, t, t, docs) = DecorateSshManagement(t, docs)
  BY DEF SshDocuments!Folded, DecorateSshManagement, FoldLeft, MapThenFoldSet, Max, SshDocOp
<1> QED BY <1>5, <1>6 DEF GrownSoFar

=============================================================================
