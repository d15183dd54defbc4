----------------------------- MODULE Inventory -----------------------------
(***************************************************************************)
(* The asset inventory of one audit (inventory/service.py).  Passive       *)
(* results and Nmap documents are ingested observation by observation into *)
(* asset rows, address rows, service rows and name rows.  An observation   *)
(* belongs to the asset with its MAC address, else to the asset that owns  *)
(* the first of its known addresses, else to a new asset.                  *)
(*                                                                         *)
(* An ingestion is one ordinary session.  It correlates its first          *)
(* observation before its first statement that writes, without SQLite's    *)
(* write lock, and then keeps the lock to the end.  The asset objects it   *)
(* has loaded stay in its identity map: a later step of the session        *)
(* compares with the attributes loaded then, and a flush writes only the   *)
(* columns that differ from them.  Every listing endpoint of the API       *)
(* ingests the latest passive result again before it answers.              *)
(***************************************************************************)
EXTENDS Naturals, Sequences, DeviceClass

CONSTANTS
    Assets,         \* asset ids
    Macs, Addresses, Ports,
    OsNames,        \* operating systems Nmap recognises
    Products,       \* what Nmap recognises behind a port
    Sources,        \* sources of names
    VendorOf,       \* the vendor database
    FamilyOf,       \* the tokens of an operating system name
    Requests,       \* API requests and handlers that ingest
    PassiveDocs,    \* passive results: sequences of observations
    ScanDocs,       \* Nmap documents: sequences of hosts
    MaxBegun,       \* bound: sessions in a behaviour where they overlap
    NoMac, NoAsset, NoOs, NoProduct, NoRequest

VARIABLES
    asset,          \* asset rows; state "absent" when there is none
    owner,          \* asset_addresses: the asset of an address
    names,          \* asset_names: the sources of an asset's names
    services,       \* services: what is known of the ports of an asset
    noted,          \* conflicts kept in asset_observations
    passive,        \* the latest passive_result artifact
    session,        \* what each request does
    loaded,         \* the identity map of each request
    collected,      \* asset.services and asset.names of the identity map
    found,          \* what _correlate returned to a request
    writer,         \* the request with the write lock
    serial,         \* requests do not overlap in this behaviour
    begun,          \* sessions begun where they overlap
    settled,        \* history: the latest passive result was ingested last
    reported,       \* history: MAC and address in one host of a scan
    heard           \* history: MAC and address in one passive observation

rows == <<asset, owner, names, services, noted>>
inventoryVars == <<rows, passive, session, loaded, collected, found, writer,
                   serial, begun, settled, reported, heard>>

AssetState == {"unknown", "unresponsive", "observed", "responsive"}
ConfidenceLevel == {"unknown", "hint", "low", "medium", "high"}
PortState == {"open", "closed", "filtered"}

Row == [state : AssetState \cup {"absent"}, mac : Macs \cup {NoMac},
        vendor : VendorFamily, os : OsNames \cup {NoOs}, accuracy : 0 .. 100,
        class : DeviceClassHint]
Service == [state : PortState \cup {"none"}, product : Products \cup {NoProduct},
            confidence : ConfidenceLevel]
Observation == [mac : Macs \cup {NoMac}, addresses : Seq(Addresses),
                sources : SUBSET Sources]
Host == [status : {"up", "down", "unknown"}, mac : Macs \cup {NoMac},
         vendor : VendorFamily, addresses : Seq(Addresses), hostname : BOOLEAN,
         os : OsNames \cup {NoOs}, accuracy : 0 .. 100,
         ports : [Ports -> Service], single : BOOLEAN]

Session == [kind : {"idle", "passive", "scan", "refresh"},
            step : {"idle", "open", "mac", "correlated", "loaded"},
            doc : Seq(Observation \cup Host), todo : Seq(Observation \cup Host)]
Collected == [loaded : BOOLEAN, ports : SUBSET Ports, sources : SUBSET Sources]

ASSUME InventoryConstants ==
    /\ NoMac \notin Macs /\ NoAsset \notin Assets /\ NoRequest \notin Requests
    /\ MaxBegun \in Nat
    /\ NoOs \notin OsNames /\ NoProduct \notin Products
    /\ VendorOf \in [Macs -> VendorFamily]
    /\ FamilyOf \in [OsNames -> OsFamily]
    /\ {"mdns", "nmap"} \subseteq Sources
    /\ PassiveDocs \subseteq Seq(Observation)
    /\ ScanDocs \subseteq Seq(Host)

NoRow == [state |-> "absent", mac |-> NoMac, vendor |-> "", os |-> NoOs,
          accuracy |-> 0, class |-> "unknown"]
NoService == [state |-> "none", product |-> NoProduct, confidence |-> "unknown"]
Nothing == [mac |-> NoAsset, asset |-> NoAsset, blocked |-> {}]
Idle == [kind |-> "idle", step |-> "idle", doc |-> <<>>, todo |-> <<>>]
Unloaded == [loaded |-> FALSE, ports |-> {}, sources |-> {}]

Present == {a \in Assets : asset[a].state # "absent"}
AddressesIn(o) == {o.addresses[i] : i \in DOMAIN o.addresses}
Vendor(m) == IF m = NoMac THEN "" ELSE VendorOf[m]

InventoryInit ==
    /\ asset = [a \in Assets |-> NoRow]
    /\ owner = [x \in Addresses |-> NoAsset]
    /\ names = [a \in Assets |-> {}]
    /\ services = [a \in Assets |-> [p \in Ports |-> NoService]]
    /\ noted = {}
    /\ passive = <<>>
    /\ session = [r \in Requests |-> Idle]
    /\ loaded = [r \in Requests |-> [a \in Assets |-> NoRow]]
    /\ collected = [r \in Requests |-> [a \in Assets |-> Unloaded]]
    /\ found = [r \in Requests |-> Nothing]
    /\ writer = NoRequest
    /\ serial \in BOOLEAN
    /\ begun = 0
    /\ settled = FALSE
    /\ reported = {}
    /\ heard = {}

-----------------------------------------------------------------------------
\* Rules of one observation

\* _asset_by_mac
ByMac(m) ==
    IF m # NoMac /\ \E a \in Present : asset[a].mac = m
    THEN CHOOSE a \in Present : asset[a].mac = m
    ELSE NoAsset

\* The owner of the first address that has one.
FirstKnown(o, i) ==
    /\ owner[o.addresses[i]] # NoAsset
    /\ \A k \in DOMAIN o.addresses : k < i => owner[o.addresses[k]] = NoAsset
\* An asset that is looked for by its MAC address only.
MutByMacOnly(o) == NoAsset
ByAddress(o) ==
    IF \E i \in DOMAIN o.addresses : FirstKnown(o, i)
    THEN owner[o.addresses[CHOOSE i \in DOMAIN o.addresses : FirstKnown(o, i)]]
    ELSE NoAsset

\* _correlate: the asset, and the addresses that belong to another one.
Correlation(byMac, o) ==
    LET a == IF byMac # NoAsset THEN byMac ELSE ByAddress(o)
    IN [mac |-> byMac, asset |-> a,
        blocked |-> {x \in AddressesIn(o) : owner[x] \notin {NoAsset, a}}]

Rank == [unknown |-> 0, unresponsive |-> 1, observed |-> 2, responsive |-> 3]

\* _merge_state
MergeState(current, seen) ==
    IF \/ seen = "unresponsive" /\ current = "responsive"
       \/ Rank[seen] >= Rank[current]
    THEN seen ELSE current

\* _host_state
HostState(status) ==
    CASE status = "up" -> "responsive"
      [] status = "down" -> "unresponsive"
      [] OTHER -> "unknown"

MutTakesUsedMac(a, old, m) == m # NoMac /\ old.mac = NoMac
MutTakesOtherMac(a, old, m) == m # NoMac /\ ByMac(m) \in {NoAsset, a}

\* An asset without a MAC address takes the observed one if it is free.
TakesMac(a, old, m) == m # NoMac /\ old.mac = NoMac /\ ByMac(m) \in {NoAsset, a}

\* The attributes of an asset object once it has seen an observation.
Merged(a, old, m, seen) ==
    LET takes == TakesMac(a, old, m)
    IN [old EXCEPT !.state = MergeState(old.state, seen),
                   !.mac = IF takes THEN m ELSE old.mac,
                   !.vendor = IF takes /\ old.vendor = "" THEN Vendor(m) ELSE old.vendor]

\* A flush writes the columns whose value is not the one that was loaded.
Flush(row, old, new) ==
    [state |-> IF new.state = old.state THEN row.state ELSE new.state,
     mac |-> IF new.mac = old.mac THEN row.mac ELSE new.mac,
     vendor |-> IF new.vendor = old.vendor THEN row.vendor ELSE new.vendor,
     os |-> IF new.os = old.os THEN row.os ELSE new.os,
     accuracy |-> IF new.accuracy = old.accuracy THEN row.accuracy ELSE new.accuracy,
     class |-> IF new.class = old.class THEN row.class ELSE new.class]

\* _upsert_address for each address that _correlate did not block.
Assigned(a, o, blocked) ==
    [x \in Addresses |->
        IF x \in AddressesIn(o) \ blocked /\ owner[x] = NoAsset THEN a ELSE owner[x]]

Note(type, a, about) == [type |-> type, asset |-> a, about |-> about]

\* The conflict of _correlate, and the addresses that another request has
\* given to another asset since.
IdentityNotes(a, o, blocked) ==
    (IF blocked = {} THEN {} ELSE {Note("identity_conflict", a, blocked)})
    \cup {Note("address_owned_by_other_asset", a, {x}) :
              x \in {y \in AddressesIn(o) \ blocked : owner[y] \notin {NoAsset, a}}}

\* _apply_os_hint
OsHint(old, h) ==
    IF \/ h.os = NoOs
       \/ old.os \notin {NoOs, h.os} /\ old.accuracy >= h.accuracy
    THEN old ELSE [old EXCEPT !.os = h.os, !.accuracy = h.accuracy]

LevelRank == [unknown |-> 0, hint |-> 1, low |-> 2, medium |-> 3, high |-> 4]

\* _upsert_service: a product that differs needs a higher confidence; the
\* confidence and the state are those of the last scan.
UpsertService(old, new) ==
    IF old.state = "none" \/ new.state = "none"
    THEN IF new.state = "none" THEN old ELSE new
    ELSE [new EXCEPT !.product =
              IF /\ old.product # NoProduct /\ new.product # NoProduct
                 /\ LevelRank[new.confidence] <= LevelRank[old.confidence]
              THEN old.product ELSE new.product]

\* classify_device on what _classify_asset passes.
Class(row, open, sources) ==
    ClassifyDevice(IF row.os = NoOs THEN "" ELSE FamilyOf[row.os], row.vendor,
                   open, sources)
PortsIn(svc) == {p \in Ports : svc[p].state # "none"}
OpenPorts(svc) == {p \in Ports : svc[p].state = "open"}

\* A host of a scan that is recorded at all.
Interesting(h) ==
    \/ h.status = "up" \/ h.mac # NoMac \/ h.hostname
    \/ PortsIn(h.ports) # {}
    \/ h.single /\ h.status = "down"

-----------------------------------------------------------------------------
\* Sessions

Alone(r) == serial => \A q \in Requests \ {r} : session[q] = Idle
MayWrite(r) == writer \in {NoRequest, r}
Next1(r) == Head(session[r].todo)

\* The session of r ends; nothing it holds is used again.
Close(r) ==
    /\ session' = [session EXCEPT ![r] = Idle]
    /\ loaded' = [loaded EXCEPT ![r] = [a \in Assets |-> NoRow]]
    /\ collected' = [collected EXCEPT ![r] = [a \in Assets |-> Unloaded]]
    /\ found' = [found EXCEPT ![r] = Nothing]
    /\ writer' = IF writer = r THEN NoRequest ELSE writer

\* Adds objects of the assets in S to the identity map; the ones it has stay
\* as they are.
Load(r, S) ==
    loaded' = [loaded EXCEPT ![r] =
        [a \in Assets |-> IF a \in S /\ loaded[r][a] = NoRow
                          THEN asset[a] ELSE loaded[r][a]]]

Begin(r, kind, doc) ==
    /\ session[r] = Idle
    /\ Alone(r)
    /\ serial \/ begun < MaxBegun
    /\ begun' = IF serial THEN 0 ELSE begun + 1
    /\ session' = [session EXCEPT ![r] =
                       [kind |-> kind, step |-> "open", doc |-> doc, todo |-> doc]]
    /\ UNCHANGED <<rows, passive, loaded, collected, found, writer, serial,
                   settled, reported, heard>>

\* The passive handler stores its result.
StorePassive(d) ==
    /\ d # passive
    /\ serial => \A r \in Requests : session[r] = Idle
    /\ passive' = d
    /\ settled' = FALSE
    /\ UNCHANGED <<rows, session, loaded, collected, found, writer, serial,
                   begun, reported, heard>>

\* ingest_passive_from_audit: a listing endpoint, or a handler.
StartPassive(r) == passive # <<>> /\ Begin(r, "passive", passive)

\* ingest_nmap_document, after one of the scans of the active handler.
StartScan(r, d) == Begin(r, "scan", d)

\* refresh_classifications
StartRefresh(r) == Begin(r, "refresh", <<>>)

\* A host of a scan that answers nothing and has no name is left out.
SkipHost(r) ==
    /\ session[r].kind = "scan" /\ session[r].step = "open"
    /\ session[r].todo # <<>> /\ ~Interesting(Next1(r))
    /\ session' = [session EXCEPT ![r].todo = Tail(@)]
    /\ UNCHANGED <<rows, passive, loaded, collected, found, writer, serial,
                   begun, settled, reported, heard>>

\* The first query of _correlate.
CorrelateMac(r) ==
    /\ session[r].step = "open" /\ session[r].todo # <<>>
    /\ session[r].kind = "scan" => Interesting(Next1(r))
    /\ MayWrite(r)
    /\ session' = [session EXCEPT ![r].step = "mac"]
    /\ found' = [found EXCEPT ![r] = [Nothing EXCEPT !.mac = ByMac(Next1(r).mac)]]
    /\ Load(r, {ByMac(Next1(r).mac)})
    /\ UNCHANGED <<rows, passive, collected, writer, serial, begun, settled,
                   reported, heard>>

\* The queries for the addresses.
CorrelateAddresses(r) ==
    /\ session[r].step = "mac"
    /\ MayWrite(r)
    /\ session' = [session EXCEPT ![r].step = "correlated"]
    /\ found' = [found EXCEPT ![r] = Correlation(found[r].mac, Next1(r))]
    /\ Load(r, {owner[x] : x \in AddressesIn(Next1(r))})
    /\ UNCHANGED <<rows, passive, collected, writer, serial, begun, settled,
                   reported, heard>>

\* The row of a new asset is refused: another request has committed an asset
\* with its MAC address since.  Nothing was written before.
InsertRefused(r) ==
    /\ session[r].step = "correlated" /\ writer = NoRequest
    /\ found[r].asset = NoAsset /\ ByMac(Next1(r).mac) # NoAsset
    /\ Close(r)
    /\ UNCHANGED <<rows, passive, serial, begun, settled, reported, heard>>

\* An error, or the end of the process.  A transaction is rolled back as if the
\* request had ended before its first write.
Abandon(r) ==
    /\ session[r] # Idle /\ writer # r
    /\ Close(r)
    /\ UNCHANGED <<rows, passive, serial, begun, settled, reported, heard>>

-----------------------------------------------------------------------------
\* Writing one observation

Targets(r) ==
    IF found[r].asset # NoAsset THEN {found[r].asset}
    ELSE IF ByMac(Next1(r).mac) = NoAsset THEN Assets \ Present ELSE {}
Pairs(o) == IF o.mac = NoMac THEN {} ELSE {o.mac} \X AddressesIn(o)

\* The session has the write lock from its first statement that writes.
Written(r) ==
    /\ session[r].step = "correlated"
    /\ MayWrite(r)
    /\ writer' = r
    /\ session' = [session EXCEPT ![r].step = "open", ![r].todo = Tail(@)]
    /\ found' = [found EXCEPT ![r] = Nothing]

\* The asset object before and after the columns both kinds of observation
\* set; a new object when _correlate found none.
OldRow(r, a) == IF found[r].asset = NoAsset THEN NoRow ELSE loaded[r][a]
Touched(r, a, m, seen, vendor) ==
    IF found[r].asset = NoAsset
    THEN [NoRow EXCEPT !.state = seen, !.mac = m, !.vendor = vendor]
    ELSE Merged(a, loaded[r][a], m, seen)

\* The rows both kinds of observation write, with the asset object new.
Put(r, a, o, new, notes) ==
    /\ asset' = [asset EXCEPT ![a] = Flush(asset[a], OldRow(r, a), new)]
    /\ loaded' = [loaded EXCEPT ![r] = [loaded[r] EXCEPT ![a] = new]]
    /\ owner' = Assigned(a, o, found[r].blocked)
    /\ noted' = noted \cup IdentityNotes(a, o, found[r].blocked) \cup notes

\* _upsert_identity
UpsertIdentity(r) ==
    /\ session[r].kind = "passive"
    /\ Written(r)
    /\ \E a \in Targets(r) :
          LET o == Next1(r)
          IN /\ Put(r, a, o, Touched(r, a, o.mac, "observed", Vendor(o.mac)), {})
             /\ names' = [names EXCEPT ![a] = @ \cup o.sources]
    /\ heard' = heard \cup Pairs(Next1(r))
    /\ UNCHANGED <<services, passive, collected, serial, begun, settled, reported>>

MutNoMacConflict(a, old, h) ==
    {Note("os_hint_conflict", a, {n}) :
        n \in IF old.os = NoOs THEN {} ELSE {h.os} \ {NoOs, old.os}}

\* The notes of one host on the asset object old.
HostNotes(a, old, h) ==
    {Note("mac_conflict", a, {m}) :
        m \in IF old.mac = NoMac THEN {} ELSE {h.mac} \ {NoMac, old.mac}}
    \cup {Note("os_hint_conflict", a, {n}) :
        n \in IF old.os = NoOs THEN {} ELSE {h.os} \ {NoOs, old.os}}

HostServices(a, h) == [p \in Ports |-> UpsertService(services[a][p], h.ports[p])]
HostSources(a, h) == names[a] \cup (IF h.hostname THEN {"nmap"} ELSE {})

\* asset.services and asset.names as the first _classify_asset of the session
\* loads them; ones that are not empty are not read again.
HostCollected(r, a, h) ==
    IF collected[r][a].loaded THEN collected[r][a]
    ELSE [loaded |-> TRUE, ports |-> PortsIn(HostServices(a, h)),
          sources |-> HostSources(a, h)]

\* The asset object after the OS hint and _classify_asset.
HostRow(r, a, h) ==
    LET vendor == IF Vendor(h.mac) # "" THEN Vendor(h.mac) ELSE h.vendor
        hinted == OsHint(Touched(r, a, h.mac, HostState(h.status), vendor), h)
        svc == HostServices(a, h)
        c == HostCollected(r, a, h)
    IN [hinted EXCEPT !.class =
           Class(hinted, OpenPorts(svc) \cap (IF c.ports = {} THEN Ports ELSE c.ports),
                 IF c.sources = {} THEN HostSources(a, h) ELSE c.sources)]

\* _upsert_nmap_host
UpsertNmapHost(r) ==
    /\ session[r].kind = "scan"
    /\ Written(r)
    /\ \E a \in Targets(r) :
          LET h == Next1(r)
          IN /\ Put(r, a, h, HostRow(r, a, h), HostNotes(a, OldRow(r, a), h))
             /\ collected' = [collected EXCEPT ![r][a] = HostCollected(r, a, h)]
             /\ names' = [names EXCEPT ![a] = HostSources(a, h)]
             /\ services' = [services EXCEPT ![a] = HostServices(a, h)]
    /\ settled' = FALSE
    /\ reported' = reported \cup Pairs(Next1(r))
    /\ UNCHANGED <<passive, serial, begun, heard>>

\* The end of ingest_nmap_document.
CommitScan(r) ==
    /\ session[r].kind = "scan" /\ session[r].step = "open"
    /\ session[r].todo = <<>>
    /\ Close(r)
    /\ UNCHANGED <<rows, passive, serial, begun, settled, reported, heard>>

MutNoRefresh(r) ==
    /\ session[r].kind \in {"passive", "refresh"} /\ session[r].step = "open"
    /\ session[r].todo = <<>>
    /\ MayWrite(r)
    /\ session' = [session EXCEPT ![r].step = "loaded"]
    /\ Load(r, Present)
    /\ collected' = [collected EXCEPT ![r] =
           [a \in Assets |-> [loaded |-> session[r].kind = "refresh" /\ a \in Present,
                              ports |-> OpenPorts(services[a]), sources |-> names[a]]]]
    /\ UNCHANGED <<rows, passive, found, writer, serial, begun, settled, reported,
                   heard>>

\* _refresh_classifications loads every asset with its services and names,
ReadAll(r) ==
    /\ session[r].kind \in {"passive", "refresh"} /\ session[r].step = "open"
    /\ session[r].todo = <<>>
    /\ MayWrite(r)
    /\ session' = [session EXCEPT ![r].step = "loaded"]
    /\ Load(r, Present)
    /\ collected' = [collected EXCEPT ![r] =
           [a \in Assets |-> [loaded |-> a \in Present, ports |-> OpenPorts(services[a]),
                              sources |-> names[a]]]]
    /\ UNCHANGED <<rows, passive, found, writer, serial, begun, settled, reported,
                   heard>>

\* and the commit writes the classes that changed.
CommitClasses(r) ==
    /\ session[r].step = "loaded"
    /\ MayWrite(r)
    /\ asset' = [a \in Assets |->
           LET old == loaded[r][a]
               c == collected[r][a]
           IN IF c.loaded
              THEN Flush(asset[a], old,
                         [old EXCEPT !.class = Class(old, c.ports, c.sources)])
              ELSE asset[a]]
    /\ settled' = IF session[r].kind = "passive" /\ session[r].doc = passive
                  THEN TRUE ELSE settled
    /\ Close(r)
    /\ UNCHANGED <<owner, names, services, noted, passive, serial, begun, reported,
                   heard>>

InventoryNext ==
    \/ \E d \in PassiveDocs : StorePassive(d)
    \/ \E r \in Requests :
          \/ StartPassive(r)
          \/ \E d \in ScanDocs : StartScan(r, d)
          \/ StartRefresh(r)
          \/ SkipHost(r)
          \/ CorrelateMac(r)
          \/ CorrelateAddresses(r)
          \/ InsertRefused(r)
          \/ Abandon(r)
          \/ UpsertIdentity(r)
          \/ UpsertNmapHost(r)
          \/ CommitScan(r)
          \/ ReadAll(r)
          \/ CommitClasses(r)

InventorySpec == InventoryInit /\ [][InventoryNext]_inventoryVars

-----------------------------------------------------------------------------
\* Properties

\* Every row has its columns, an address belongs to an asset that exists, and
\* the lock is held only by a request that has a session (_upsert_nmap_host,
\* _upsert_identity and the sessions around them).
InventoryTypeOK ==
    /\ asset \in [Assets -> Row]
    /\ owner \in [Addresses -> Present \cup {NoAsset}]
    /\ names \in [Assets -> SUBSET Sources]
    /\ services \in [Assets -> [Ports -> Service]]
    /\ passive \in PassiveDocs \cup {<<>>}
    /\ session \in [Requests -> Session]
    /\ loaded \in [Requests -> [Assets -> Row]]
    /\ collected \in [Requests -> [Assets -> Collected]]
    /\ found \in [Requests -> [mac : Present \cup {NoAsset}, asset : Present \cup {NoAsset},
                               blocked : SUBSET Addresses]]
    /\ writer \in Requests \cup {NoRequest}
    /\ serial \in BOOLEAN
    /\ writer # NoRequest => session[writer] # Idle

\* Two assets never have one MAC address, whatever ingestions overlap: an
\* insert or an update on a stale correlation is refused or left out.
IdentityUnique ==
    \A a, b \in Present : asset[a].mac = asset[b].mac => a = b \/ asset[a].mac = NoMac

\* Identity is conservative: an address never moves to another asset, and an
\* asset never gets another MAC address, although every listing of the API
\* ingests the same evidence again.  The second part needs requests that do not
\* overlap: _upsert_identity decides on the MAC address it loaded before it has
\* the write lock.
IdentityStable ==
    [][ /\ \A x \in Addresses : owner[x] # NoAsset => owner'[x] = owner[x]
        /\ \A a \in Assets : serial /\ asset[a].mac # NoMac =>
                                asset'[a].mac = asset[a].mac ]_inventoryVars

\* Is the pair of a MAC address and an address what the inventory says, or
\* does a conflict tell that it was seen?
Kept(p) ==
    LET a == owner[p[2]]
    IN \/ a # NoAsset /\ asset[a].mac = p[1]
       \/ \E n \in noted :
             \/ n.type = "identity_conflict" /\ p[2] \in n.about
             \/ n.type = "mac_conflict" /\ n.asset = a /\ n.about = {p[1]}

\* What a scan says of an address is in the inventory or in a conflict, for
\* ever: _upsert_nmap_host notes every MAC address it does not use.
ScanConflictKept == serial => \A p \in reported : Kept(p)

\* "conflicts are preserved rather than hidden by aggressive merge"
\* (docs/en/ARCHITECTURE.md), for what passive observations say of an address.
PassiveConflictKept == serial => \A p \in heard : Kept(p)

\* Every observation says whom it is about.  The readers of DHCP and of the
\* naming protocols also let one through that has a name only.
Identified(doc) == \A i \in DOMAIN doc : doc[i].mac # NoMac \/ doc[i].addresses # <<>>

\* Once the latest passive result is ingested, ingesting it again (every
\* listing of assets, services or the summary does) changes no asset, no state,
\* no MAC address and no address, until a scan or a new result brings evidence.
\* An observation with a name only is no part of this: _correlate finds nothing
\* for it, so each ingestion makes another asset of it.
ReadsChangeNothing ==
    [][serial /\ settled /\ settled' /\ Identified(passive) =>
          /\ owner' = owner
          /\ \A a \in Assets : /\ asset'[a].mac = asset[a].mac
                               /\ asset'[a].state = asset[a].state]_inventoryVars

\* After a passive ingestion the hint of every asset is the one classify_device
\* gives for all the rows of the asset, whoever wrote them and in which order.
ClassCurrent ==
    serial /\ settled /\ writer = NoRequest =>
        \A a \in Present :
            asset[a].class = Class(asset[a], OpenPorts(services[a]), names[a])

=============================================================================
