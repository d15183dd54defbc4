---------------------------- MODULE ScopeProbes ----------------------------
(***************************************************************************)
(* From what an operator types to what is probed: a discovery request is   *)
(* validated and confirmed as a scope of the audit (engine/scope.py,       *)
(* engine/routes.py, routers/audits.py, inventory/service.py), and the     *)
(* jobs that send packets (active discovery, protocol audits, SNMP and SSH *)
(* topology) choose addresses by it while links and routes change.         *)
(***************************************************************************)
EXTENDS Integers, FiniteSets, Sequences, SequencesExt

CONSTANTS
    Interfaces,         \* without the loopback: allow_loopback is off
    AuditInterface,     \* interface of the audit, or NoInterface
    NoInterface,
    VlanParent,         \* VLAN subinterface |-> its parent
    HostStates,         \* states of links and routes, see LinkState
    ScopeRequests,           \* bound: what operators type
    Machines,             \* assets on the network, see AssetRecord
    AddressBits,        \* width of an address
    MulticastBase,      \* first multicast address
    ProfileLimit,       \* active_<profile>_max_targets
    Ipv6Limit,          \* active_ipv6_max_targets
    NetRaw,             \* the worker may send raw packets
    MaxScopes, MaxRequests       \* bounds

VARIABLES
    host,       \* links, addresses and routes of the appliance
    scopes,     \* rows of confirmed_scopes, oldest first
    asked,      \* history: requests that were accepted
    queue,      \* jobs, oldest first
    open,       \* assets with an open service in the inventory
    probed      \* history: addresses that received packets

scopeVars == <<host, scopes, asked, queue, open, probed>>

\* An address is <<family, n>>; a network <<family, first address, host bits>>.
Address == {4, 6} \X (0..(2^AddressBits - 1))
Network == {4, 6} \X (0..(2^AddressBits - 1)) \X (0..AddressBits)
Profiles == DOMAIN ProfileLimit

Size(net) == 2^net[3]
Members(net) == {<<net[1], n>> : n \in net[2]..(net[2] + Size(net) - 1)}
AllMembers(nets) == UNION {Members(net) : net \in nets}
SubnetOf(a, b) == Members(a) \subseteq Members(b)

\* assigned: pairs of the address of an interface and the network it is in.
LinkState ==
    [up : SUBSET Interfaces,
     assigned : [Interfaces -> SUBSET (Address \X Network)],
     dev : [Address -> Interfaces \cup {"lo", "none"}],
     onlink : SUBSET (Interfaces \X Network)]
AssetRecord == [addresses : Seq(Address), primary : Address]
Request == [interface : Interfaces, targets : SUBSET Network, profile : Profiles]

ASSUME ScopeAssumption ==
    /\ AuditInterface \in Interfaces \cup {NoInterface} /\ AddressBits \in Nat
    /\ "lo" \notin Interfaces
    /\ DOMAIN VlanParent \subseteq Interfaces
    /\ \A h \in HostStates :
          /\ h.up \subseteq Interfaces
          /\ h.assigned \in [Interfaces -> SUBSET (Address \X Network)]
          /\ h.dev \in [Address -> Interfaces \cup {"lo", "none"}]
          /\ h.onlink \subseteq Interfaces \X Network
    /\ ScopeRequests \subseteq Request
    /\ Machines \subseteq AssetRecord
    /\ \A profile \in Profiles : ProfileLimit[profile] \in Nat
    /\ Ipv6Limit \in Nat
    /\ NetRaw \in BOOLEAN /\ MaxScopes \in Nat /\ MaxRequests \in Nat

-----------------------------------------------------------------------------
\* engine/scope.py.

\* _parse_target: a network with host bits set, everything, the unspecified
\* address and multicast are refused.
ParseTarget(net) ==
    /\ net[2] % Size(net) = 0
    /\ net[3] # AddressBits
    /\ ~(net[2] = 0 /\ net[3] = 0)
    /\ ~(net[2] >= MulticastBase)

\* Networks that start at the same address, narrow ones first.
MutWiderFirst(a, b) == a[1] < b[1] \/ (a[1] = b[1] /\ (a[2] < b[2] \/ (a[2] = b[2] /\ a[3] < b[3])))

WiderFirst(a, b) == a[1] < b[1] \/ (a[1] = b[1] /\ (a[2] < b[2] \/ (a[2] = b[2] /\ a[3] > b[3])))

\* A network is left out when one before it in this order covers it; the code
\* looks among the ones it has kept, and one that was left out itself is covered
\* by one of them.
RemoveDuplicatesAndCovered(nets) ==
    {net \in nets : ~\E e \in nets : WiderFirst(e, net) /\ SubnetOf(net, e)}

FamilyCount(nets, family) ==
    LET counts == SetToSeq({net \in nets : net[1] = family})
    IN FoldLeft(LAMBDA sum, net : sum + Size(net), 0, counts)

LimitOf(profile, family) ==
    IF family = 6 /\ Ipv6Limit < ProfileLimit[profile] THEN Ipv6Limit
    ELSE ProfileLimit[profile]

\* validate; active_allow_large_scopes is off.
ValidScope(nets, profile) ==
    /\ nets # {}
    /\ \A net \in nets : ParseTarget(net)
    /\ \A family \in {4, 6} :
          FamilyCount(RemoveDuplicatesAndCovered(nets), family) <= LimitOf(profile, family)

\* The identifier of a connected network stands for the network.
ExpandConnected(nets, i) ==
    {LET connected == {a[2] : a \in {b \in host.assigned[i] : <<b[2][1], b[2][2], 0>> = net}}
     IN IF net[3] = 0 /\ connected # {} THEN CHOOSE c \in connected : TRUE ELSE net :
        net \in nets}

\* propose: the networks of the interface, else those of its first VLAN
\* subinterface that has some, else networks that are on its link.
EligibleNetworks(nets) ==
    {net \in nets :
        /\ ParseTarget(net)
        /\ \E profile \in Profiles : Size(net) <= LimitOf(profile, net[1])}
AssignedTo(i) == EligibleNetworks({a[2] : a \in host.assigned[i]})
VlansOf(i) == {v \in DOMAIN VlanParent : VlanParent[v] = i /\ AssignedTo(v) # {}}
Proposals(i) ==
    IF AssignedTo(i) # {} THEN {[interface |-> i, targets |-> AssignedTo(i)]}
    ELSE IF VlansOf(i) # {} THEN {[interface |-> v, targets |-> AssignedTo(v)] : v \in VlansOf(i)}
    ELSE {[interface |-> i,
           targets |-> EligibleNetworks({r[2] : r \in {s \in host.onlink : s[1] = i}})]}

-----------------------------------------------------------------------------
\* engine/interfaces.py, engine/routes.py.
ValidInterface(i) == i \in host.up

Belongs(address, i) == \E a \in host.assigned[i] : address \in Members(a[2])

\* The first host of a network that is not the appliance itself.
Hosts(net) ==
    Members(net) \ (IF net[3] < 2 THEN {}
                    ELSE {<<net[1], net[2]>>}
                         \cup IF net[1] = 4 THEN {<<4, net[2] + Size(net) - 1>>} ELSE {})
First(addresses) == CHOOSE a \in addresses : \A b \in addresses : a[2] <= b[2]
Representative(net, i) ==
    LET others == Hosts(net) \ {a[1] : a \in host.assigned[i]}
    IN IF net[3] = 0 THEN <<net[1], net[2]>>
       ELSE IF others # {} THEN First(others) ELSE First(Hosts(net))

ResolveTarget(net, i) ==
    LET address == Representative(net, i) IN
    \/ host.dev[address] = i
    \/ host.dev[address] = "lo" /\ Belongs(address, i)

\* The targets that route through the interface; resolve fails when there are
\* none.
Resolve(nets, i) ==
    {net \in nets :
        /\ ValidInterface(i)
        /\ \E a \in host.assigned[i] : a[1][1] = net[1]
        /\ ResolveTarget(net, i)}

-----------------------------------------------------------------------------
\* inventory/service.py: confirm_scope keeps one row for each snapshot, and
\* latest_scope goes by the time at which a row was made.
ScopeSnapshot(interface, profile, targets) ==
    [interface |-> interface, profile |-> profile, targets |-> targets]
ConfirmScope(snapshot) ==
    IF Contains(scopes, snapshot) THEN scopes ELSE Append(scopes, snapshot)
IdOf(snapshot, rows) == CHOOSE k \in DOMAIN rows : rows[k] = snapshot
LatestScope == Len(scopes)
InScope(address, k) == address \in AllMembers(scopes[k].targets)

JobRow(type, scope, target, profile) ==
    [type |-> type, scope |-> scope, target |-> target, profile |-> profile,
     state |-> "queued", live |-> {}]
NoTarget == <<0, 0>>

ScopeInit ==
    /\ host \in HostStates
    /\ scopes = <<>> /\ asked = {} /\ queue = <<>>
    /\ open = {}
    /\ probed = {}

\* enqueue_discovery: what is typed, or what was proposed.
EnqueueDiscovery(r) ==
    LET typed == ExpandConnected(r.targets, r.interface)
        canonical == RemoveDuplicatesAndCovered(typed)
        routable == RemoveDuplicatesAndCovered(Resolve(canonical, r.interface))
        snapshot == ScopeSnapshot(r.interface, r.profile, routable)
    IN /\ AuditInterface \in {NoInterface, r.interface}
       /\ ValidInterface(r.interface)
       /\ ValidScope(typed, r.profile)
       /\ routable # {}
       /\ Len(queue) < MaxRequests /\ Len(ConfirmScope(snapshot)) <= MaxScopes
       /\ scopes' = ConfirmScope(snapshot)
       /\ queue' = Append(queue, JobRow("active_discovery", IdOf(snapshot, scopes'), NoTarget,
                                     r.profile))
       /\ asked' = asked \cup {r}
       /\ UNCHANGED <<host, open, probed>>

AcceptProposal(i, profile) ==
    \E p \in Proposals(i) :
        EnqueueDiscovery([interface |-> p.interface, targets |-> p.targets,
                          profile |-> profile])

\* enqueue_protocol_audit notes a scope that the handler does not read.
EnqueueProtocolAudit ==
    /\ scopes # <<>> /\ open # {} /\ Len(queue) < MaxRequests
    /\ queue' = Append(queue, JobRow("protocol_audit", LatestScope, NoTarget, "none"))
    /\ UNCHANGED <<host, scopes, asked, open, probed>>

\* The SNMP and SSH routes of routers/topology.py.
EnqueueTopology(target) ==
    /\ scopes # <<>> /\ Len(queue) < MaxRequests
    /\ scopes[LatestScope].interface = AuditInterface
    /\ InScope(target, LatestScope)
    /\ queue' = Append(queue, JobRow("topology", LatestScope, target, "none"))
    /\ UNCHANGED <<host, scopes, asked, open, probed>>

-----------------------------------------------------------------------------
\* Jobs that send packets.  Those on an interface wait for each other.
Key(j) == IF queue[j].type = "protocol_audit" THEN "audit"
          ELSE scopes[queue[j].scope].interface
ScanPhases == {"tcp", "sweep", "fingerprint", "udp"}
CanRun(j) ==
    /\ queue[j].state = "queued"
    /\ \A k \in DOMAIN queue : queue[k].state \in ScanPhases => Key(k) # Key(j)

Become(j, state) == queue' = [queue EXCEPT ![j].state = state]
\* The interfaces an address is reached through; its own, when it is local.
Via(a) == IF host.dev[a] = "lo" THEN {i \in Interfaces : Belongs(a, i)} ELSE {host.dev[a]}
Probe(j, addresses) ==
    probed' = probed \cup {[job |-> j, address |-> a, via |-> Via(a)] : a \in addresses}

\* nmap with -6 leaves out IPv4 addresses, without it IPv6 addresses.
Reached(addresses, targets) ==
    LET families == {net[1] : net \in targets}
    IN {a \in addresses : a[1] = IF families = {6} THEN 6 ELSE 4}

Revalidated(j) ==
    LET s == scopes[queue[j].scope] IN
    /\ ValidScope(s.targets, s.profile)
    /\ RemoveDuplicatesAndCovered(s.targets) = s.targets
    /\ Resolve(s.targets, s.interface) # {}

\* ActiveDiscoveryHandler._run up to host discovery: the target file holds every
\* target of the scope.
DiscoverHosts(j) ==
    LET s == scopes[queue[j].scope]
        reached == Reached(AllMembers(s.targets), s.targets)
    IN /\ queue[j].type = "active_discovery" /\ CanRun(j) /\ Revalidated(j)
       /\ \E live \in SUBSET {a \in Machines : \E x \in Range(a.addresses) : x \in reached} :
             queue' = [queue EXCEPT
                          ![j].state = IF live = {} \/ s.profile = "discovery" THEN "done"
                                       ELSE IF s.profile = "deep" THEN "sweep" ELSE "tcp",
                          ![j].live = UNION {Range(a.addresses) \cap reached : a \in live}]
       /\ Probe(j, reached)
       /\ UNCHANGED <<host, scopes, asked, open>>

\* The scans of the hosts that answered: one pass for the standard profile; for
\* the deep one a sweep of all ports, then the hosts and ports found open.
ScanLive(j, phase, next) ==
    /\ queue[j].type = "active_discovery" /\ queue[j].state = phase
    /\ Become(j, next)
    /\ Probe(j, queue[j].live)
    /\ UNCHANGED <<host, scopes, asked>>
AfterTcp == IF NetRaw THEN "udp" ELSE "done"
Answering(j) == {a \in Machines : Range(a.addresses) \cap queue[j].live # {}}
OpenFound(j) == \E found \in SUBSET Answering(j) : open' = open \cup found

TcpScan(j) == ScanLive(j, "tcp", AfterTcp) /\ OpenFound(j)
TcpSweep(j) ==
    /\ queue[j].type = "active_discovery" /\ queue[j].state = "sweep"
    /\ \E found \in SUBSET Answering(j) :
          /\ open' = open \cup found
          /\ queue' = [queue EXCEPT
                          ![j].state = IF found = {} THEN AfterTcp ELSE "fingerprint",
                          ![j].live = IF found = {} THEN @
                                      ELSE @ \cap UNION {Range(a.addresses) : a \in found}]
    /\ Probe(j, queue[j].live)
    /\ UNCHANGED <<host, scopes, asked>>
TcpFingerprint(j) == ScanLive(j, "fingerprint", AfterTcp) /\ UNCHANGED open
UdpScan(j) == ScanLive(j, "udp", "done") /\ OpenFound(j)

\* A probe of the primary address of the asset, wherever it is.
MutSelectProbeAddress(asset, k) ==
    IF \E x \in Range(asset.addresses) : InScope(x, k) THEN {asset.primary} ELSE {}

\* select_probe_address: the primary address when it is among the preferred,
\* otherwise the first of them; an empty set when none is in scope.
SelectProbeAddress(asset, k) ==
    LET inScope == {n \in DOMAIN asset.addresses : InScope(asset.addresses[n], k)}
        ipv4 == {n \in inScope : asset.addresses[n][1] = 4}
        preferred == IF ipv4 # {} THEN ipv4 ELSE inScope
    IN IF \E n \in preferred : asset.addresses[n] = asset.primary THEN {asset.primary}
       ELSE {asset.addresses[n] : n \in {m \in preferred : \A l \in preferred : m <= l}}

AuditProtocols(j) ==
    /\ queue[j].type = "protocol_audit" /\ CanRun(j)
    /\ Probe(j, UNION {SelectProbeAddress(a, LatestScope) : a \in open})
    /\ Become(j, "done")
    /\ UNCHANGED <<host, scopes, asked, open>>

\* The checks of the SNMP and SSH handlers.
TopologyChecked(j) ==
    LET s == scopes[queue[j].scope]
        single == {<<queue[j].target[1], queue[j].target[2], 0>>}
    IN /\ InScope(queue[j].target, queue[j].scope)
       /\ AuditInterface \in {NoInterface, s.interface}
       /\ ValidScope(single, s.profile)
       /\ Resolve(single, s.interface) # {}

Topology(j) ==
    /\ queue[j].type = "topology" /\ CanRun(j) /\ TopologyChecked(j)
    /\ Probe(j, {queue[j].target})
    /\ Become(j, "done")
    /\ UNCHANGED <<host, scopes, asked, open>>

\* A job whose checks fail, is cancelled, or whose tool fails.
JobEnds(j) ==
    /\ queue[j].state \in {"queued"} \cup ScanPhases
    /\ Become(j, "failed")
    /\ UNCHANGED <<host, scopes, asked, open, probed>>

\* The environment: cables, DHCP and routing.
HostChanges(h) ==
    /\ host' = h /\ h # host
    /\ UNCHANGED <<scopes, asked, queue, open, probed>>

ScopeNext ==
    \/ \E r \in ScopeRequests : EnqueueDiscovery(r)
    \/ \E i \in Interfaces, profile \in Profiles : AcceptProposal(i, profile)
    \/ EnqueueProtocolAudit
    \/ \E address \in UNION {Range(a.addresses) : a \in Machines} : EnqueueTopology(address)
    \/ \E j \in DOMAIN queue :
          \/ DiscoverHosts(j)
          \/ TcpScan(j) \/ TcpSweep(j) \/ TcpFingerprint(j) \/ UdpScan(j)
          \/ AuditProtocols(j) \/ Topology(j) \/ JobEnds(j)
    \/ \E h \in HostStates : HostChanges(h)

ScopeSpec == ScopeInit /\ [][ScopeNext]_scopeVars

-----------------------------------------------------------------------------
ScopeTypeOK ==
    /\ host \in HostStates
    /\ \A k \in DOMAIN scopes :
          /\ scopes[k].targets \in SUBSET Network
          /\ scopes[k].profile \in Profiles
    /\ \A j \in DOMAIN queue :
          /\ queue[j].scope \in DOMAIN scopes
          /\ queue[j].state \in {"queued", "done", "failed"} \cup ScanPhases
    /\ open \subseteq Machines

(***************************************************************************)
(* What a confirmed scope holds: the networks do not overlap, so that the  *)
(* count of addresses that was compared with the limit is the count of     *)
(* addresses nmap will try, and these are no more than the limit of the    *)
(* profile although only some of the networks route; and every address is  *)
(* one that an accepted request named, as a network or by the identifier   *)
(* of a network the interface was in.                                      *)
(***************************************************************************)
Addressed(nets, family) == {a \in AllMembers(nets) : a[1] = family}

CountedOnce(s) ==
    \A family \in {4, 6} :
        Cardinality(Addressed(s.targets, family)) = FamilyCount(s.targets, family)

WithinLimit(s) ==
    \A family \in {4, 6} :
        Cardinality(Addressed(s.targets, family)) <= LimitOf(s.profile, family)

NamedByRequest(s) ==
    LET named == {r \in asked : r.interface = s.interface /\ r.profile = s.profile}
        connected == UNION {{a[2] : a \in h.assigned[s.interface]} : h \in HostStates}
    IN \A net \in s.targets :
          \E r \in named :
             \/ net \in r.targets
             \/ net \in connected /\ <<net[1], net[2], 0>> \in r.targets

ScopeExact ==
    \A k \in DOMAIN scopes :
        CountedOnce(scopes[k]) /\ WithinLimit(scopes[k]) /\ NamedByRequest(scopes[k])

(***************************************************************************)
(* Packets go to confirmed scope only ("active discovery never leaves the  *)
(* confirmed scope", docs/en/RELEASE_READINESS.md:65): discovery and       *)
(* topology jobs to the scope they were accepted with, protocol audits to  *)
(* some scope confirmed for the audit although they read the latest scope  *)
(* only when they run and assets have addresses outside; and SNMP and SSH  *)
(* only through the interface of the scope at that moment.                 *)
(***************************************************************************)
ProbesInScope ==
    \A p \in probed :
        LET job == queue[p.job] IN
        IF job.type = "protocol_audit"
          THEN \E k \in DOMAIN scopes : InScope(p.address, k)
        ELSE /\ InScope(p.address, job.scope)
             /\ job.type = "topology" =>
                   scopes[job.scope].interface \in p.via
=============================================================================
