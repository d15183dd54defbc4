-------------------------- MODULE InventoryProofs --------------------------
(***************************************************************************)
(* Theorems about Inventory, for any documents and any number of requests. *)
(* The argument: an ingestion changes the identity of at most one asset at *)
(* a time, the one it correlated; what it loaded of it before it had the   *)
(* write lock may be stale, but a MAC address is checked again under the   *)
(* lock before it is taken.                                                *)
(***************************************************************************)
EXTENDS Inventory, WellFoundedInduction, TLAPS

\* The observations a session still has to write fit its kind.
SessionShape ==
    \A r \in Requests :
        /\ session[r].kind = "passive" => session[r].todo \in Seq(Observation)
        /\ session[r].kind = "scan" => session[r].todo \in Seq(Host)
        /\ session[r].kind \notin {"passive", "scan"} => session[r].todo = <<>>
        /\ session[r].step \in {"mac", "correlated"} =>
               session[r].kind \in {"passive", "scan"} /\ session[r].todo # <<>>
        /\ session[r].step = "idle" => session[r] = Idle

\* A loaded object is one of an asset that exists, and so is a correlated one.
ObjectShape ==
    \A r \in Requests :
        /\ \A a \in Assets : loaded[r][a] # NoRow =>
               loaded[r][a].state # "absent" /\ a \in Present
        /\ \A a \in Assets : collected[r][a].loaded => a \in Present
        /\ found[r].asset # NoAsset => loaded[r][found[r].asset] # NoRow
        /\ found[r].mac # NoAsset => loaded[r][found[r].mac] # NoRow

\* An id that is not in use has no columns.
Blank == \A a \in Assets : a \notin Present => asset[a] = NoRow

IdentityInv ==
    InventoryTypeOK /\ SessionShape /\ ObjectShape /\ Blank /\ IdentityUnique

-----------------------------------------------------------------------------
\* What a lookup by MAC address tells.
LEMMA ByMacFacts ==
  ASSUME NEW m
  PROVE  /\ ByMac(m) # NoAsset => /\ ByMac(m) \in Present
                                  /\ asset[ByMac(m)].mac = m /\ m # NoMac
         /\ ByMac(m) = NoAsset /\ m # NoMac => \A a \in Present : asset[a].mac # m
BY InventoryConstants DEF ByMac, Present

\* The columns of an id that is not in use.
LEMMA NoRowColumns == NoRow.state = "absent" /\ NoRow.mac = NoMac
BY DEF NoRow

\* The row of an id that is not in use has the type of a row.
LEMMA NoRowIsRow == NoRow \in Row
<1>1. 0 \in 0 .. 100
  OBVIOUS
<1>2. "" \in VendorFamily /\ "unknown" \in DeviceClassHint
  BY DEF VendorFamily, DeviceClassHint
<1> QED BY <1>1, <1>2 DEF NoRow, Row

\* A lookup by address returns the owner of one of the addresses.
LEMMA ByAddressFacts ==
  ASSUME NEW o, o.addresses \in Seq(Addresses), ByAddress(o) # NoAsset
  PROVE  \E x \in AddressesIn(o) : ByAddress(o) = owner[x]
BY DEF ByAddress, AddressesIn

\* The rules of one column each return one of their arguments.
LEMMA MergedFacts ==
  ASSUME NEW a, NEW old \in Row, old.state # "absent", NEW m \in Macs \cup {NoMac},
         NEW seen \in AssetState
  PROVE  /\ Merged(a, old, m, seen) \in Row
         /\ Merged(a, old, m, seen).state # "absent"
         /\ Merged(a, old, m, seen).mac = IF TakesMac(a, old, m) THEN m ELSE old.mac
<1>1. MergeState(old.state, seen) \in AssetState
  BY DEF MergeState, Row
<1>2. Vendor(m) \in VendorFamily
  BY InventoryConstants DEF Vendor, VendorFamily
<1> DEFINE takes == TakesMac(a, old, m)
           mac == IF takes THEN m ELSE old.mac
           vendor == IF takes /\ old.vendor = "" THEN Vendor(m) ELSE old.vendor
<1>3. mac \in Macs \cup {NoMac} /\ vendor \in VendorFamily
  BY <1>2 DEF Row
<1>4. Merged(a, old, m, seen) = [old EXCEPT !.state = MergeState(old.state, seen),
                                          !.mac = mac, !.vendor = vendor]
  BY DEF Merged
<1> HIDE DEF mac, vendor
<1>5. /\ Merged(a, old, m, seen) \in Row
      /\ Merged(a, old, m, seen).state = MergeState(old.state, seen)
      /\ Merged(a, old, m, seen).mac = mac
  BY <1>1, <1>3, <1>4 DEF Row
<1> QED BY <1>1, <1>5 DEF mac, AssetState

LEMMA ClassFacts ==
  ASSUME NEW row, NEW open, NEW sources
  PROVE  Class(row, open, sources) \in DeviceClassHint
BY DEF Class, ClassifyDevice, DeviceClassHint

\* A flush makes a row of rows; it writes a MAC address only when the object
\* has another one than it was loaded with.
LEMMA FlushFacts ==
  ASSUME NEW row \in Row, NEW old \in Row, NEW new \in Row
  PROVE  /\ Flush(row, old, new) \in Row
         /\ Flush(row, old, new).mac = IF new.mac = old.mac THEN row.mac ELSE new.mac
         /\ row.state # "absent" /\ new.state # "absent" =>
                Flush(row, old, new).state # "absent"
         /\ old.state = "absent" /\ new.state # "absent" =>
                Flush(row, old, new).state # "absent"
         /\ row = old => Flush(row, old, new) = new
BY DEF Flush, Row

-----------------------------------------------------------------------------
\* The observation a request is about to write.
LEMMA NextFacts ==
  ASSUME InventoryTypeOK, SessionShape, NEW r \in Requests,
         session[r].step \in {"mac", "correlated"}
  PROVE  /\ session[r].kind = "passive" => Next1(r) \in Observation
         /\ session[r].kind = "scan" => Next1(r) \in Host
         /\ Next1(r).addresses \in Seq(Addresses)
         /\ Next1(r).mac \in Macs \cup {NoMac}
         /\ AddressesIn(Next1(r)) \subseteq Addresses
         /\ Tail(session[r].todo) \in Seq(Observation \cup Host)
         /\ session[r].kind = "passive" => Tail(session[r].todo) \in Seq(Observation)
         /\ session[r].kind = "scan" => Tail(session[r].todo) \in Seq(Host)
<1>1. session[r].kind \in {"passive", "scan"} /\ session[r].todo # <<>>
  BY DEF SessionShape
<1>4. Tail(session[r].todo) \in Seq(Observation \cup Host)
  <2>1. session[r].todo \in Seq(Observation \cup Host)
    BY DEF InventoryTypeOK, Session
  <2> QED BY <1>1, <2>1
<1>2. CASE session[r].kind = "passive"
  <2>1. session[r].todo \in Seq(Observation)
    BY <1>2 DEF SessionShape
  <2>2. Next1(r) \in Observation /\ Tail(session[r].todo) \in Seq(Observation)
    BY <1>1, <2>1 DEF Next1
  <2>3. Next1(r).addresses \in Seq(Addresses) /\ Next1(r).mac \in Macs \cup {NoMac}
    BY <2>2 DEF Observation
  <2>4. AddressesIn(Next1(r)) \subseteq Addresses
    BY <2>3 DEF AddressesIn
  <2> QED BY <1>2, <1>4, <2>2, <2>3, <2>4
<1>3. CASE session[r].kind = "scan"
  <2>1. session[r].todo \in Seq(Host)
    BY <1>3 DEF SessionShape
  <2>2. Next1(r) \in Host /\ Tail(session[r].todo) \in Seq(Host)
    BY <1>1, <2>1 DEF Next1
  <2>3. Next1(r).addresses \in Seq(Addresses) /\ Next1(r).mac \in Macs \cup {NoMac}
    BY <2>2 DEF Host
  <2>4. AddressesIn(Next1(r)) \subseteq Addresses
    BY <2>3 DEF AddressesIn
  <2> QED BY <1>3, <1>4, <2>2, <2>3, <2>4
<1> QED BY <1>1, <1>2, <1>3

\* The asset object after the columns both kinds of observation set.
LEMMA TouchedFacts ==
  ASSUME InventoryTypeOK, ObjectShape, NEW r \in Requests, NEW a \in Targets(r),
         NEW m \in Macs \cup {NoMac}, NEW seen \in AssetState, NEW vendor \in VendorFamily
  PROVE  /\ a \in Assets
         /\ OldRow(r, a) \in Row
         /\ Touched(r, a, m, seen, vendor) \in Row
         /\ Touched(r, a, m, seen, vendor).state # "absent"
         /\ Touched(r, a, m, seen, vendor).mac =
               IF found[r].asset = NoAsset THEN m
               ELSE IF TakesMac(a, loaded[r][a], m) THEN m ELSE loaded[r][a].mac
<1>1. a \in Assets
  BY DEF Targets, InventoryTypeOK, Present
<1>2. NoRow \in Row
  BY NoRowIsRow
<1>3. OldRow(r, a) \in Row
  BY <1>1, <1>2 DEF OldRow, InventoryTypeOK
<1>4. CASE found[r].asset = NoAsset
  BY <1>1, <1>2, <1>3, <1>4 DEF Touched, Row, AssetState
<1>5. CASE found[r].asset # NoAsset
  <2>1. a = found[r].asset /\ loaded[r][a] \in Row /\ loaded[r][a].state # "absent"
    BY <1>1, <1>5 DEF Targets, ObjectShape, InventoryTypeOK
  <2> QED BY <1>1, <1>3, <1>5, <2>1, MergedFacts DEF Touched
<1> QED BY <1>4, <1>5

\* The asset object after a host of a scan.
LEMMA HostRowFacts ==
  ASSUME InventoryTypeOK, ObjectShape, NEW r \in Requests, NEW a \in Targets(r),
         NEW h \in Host
  PROVE  /\ HostRow(r, a, h) \in Row
         /\ HostRow(r, a, h).state # "absent"
         /\ HostRow(r, a, h).mac =
               IF found[r].asset = NoAsset THEN h.mac
               ELSE IF TakesMac(a, loaded[r][a], h.mac) THEN h.mac ELSE loaded[r][a].mac
<1> DEFINE vendor == IF Vendor(h.mac) # "" THEN Vendor(h.mac) ELSE h.vendor
           t == Touched(r, a, h.mac, HostState(h.status), vendor)
           hinted == OsHint(t, h)
<1>1. h.mac \in Macs \cup {NoMac} /\ h.vendor \in VendorFamily
      /\ h.os \in OsNames \cup {NoOs} /\ h.accuracy \in 0 .. 100
  BY DEF Host
<1>2. vendor \in VendorFamily
  BY <1>1, InventoryConstants DEF Vendor
<1>3. HostState(h.status) \in AssetState
  BY DEF HostState, AssetState
<1>4. /\ t \in Row /\ t.state # "absent"
      /\ t.mac = IF found[r].asset = NoAsset THEN h.mac
                 ELSE IF TakesMac(a, loaded[r][a], h.mac) THEN h.mac
                 ELSE loaded[r][a].mac
  <2> HIDE DEF vendor
  <2> QED BY <1>1, <1>2, <1>3, TouchedFacts
<1> HIDE DEF t
<1>5. hinted \in Row /\ hinted.state = t.state /\ hinted.mac = t.mac
  BY <1>1, <1>4 DEF OsHint, Row
<1> HIDE DEF hinted
<1>6. \E c \in DeviceClassHint : HostRow(r, a, h) = [hinted EXCEPT !.class = c]
  BY ClassFacts DEF HostRow, hinted, t
<1> QED BY <1>4, <1>5, <1>6 DEF Row
-----------------------------------------------------------------------------
\* The rows one observation writes: only the asset a changes, it exists
\* afterwards, and it gets a MAC address only if no other asset has it.
LEMMA PutFacts ==
  ASSUME IdentityInv, NEW r \in Requests, NEW a \in Targets(r), NEW o, NEW notes,
         NEW new \in Row, new.state # "absent", Put(r, a, o, new, notes),
         o = Next1(r), o.mac \in Macs \cup {NoMac},
         new.mac = IF found[r].asset = NoAsset THEN o.mac
                   ELSE IF TakesMac(a, loaded[r][a], o.mac) THEN o.mac
                   ELSE loaded[r][a].mac
  PROVE  /\ a \in Assets
         /\ asset' \in [Assets -> Row]
         /\ \A b \in Assets : b # a => asset'[b] = asset[b]
         /\ Present' = Present \cup {a}
         /\ owner' \in [Addresses -> Present' \cup {NoAsset}]
         /\ loaded' \in [Requests -> [Assets -> Row]]
         /\ loaded'[r][a] = new
         /\ \A q \in Requests : \A b \in Assets :
                q # r \/ b # a => loaded'[q][b] = loaded[q][b]
         /\ asset'[a].mac # NoMac => \A b \in Present \ {a} : asset[b].mac # asset'[a].mac
         /\ asset'[a].mac \in {asset[a].mac, o.mac}
<1>1. a \in Assets /\ OldRow(r, a) \in Row /\ asset[a] \in Row
  <2>1. a \in Assets
    BY DEF IdentityInv, Targets, InventoryTypeOK, Present
  <2> QED BY <2>1, NoRowIsRow DEF IdentityInv, OldRow, InventoryTypeOK
<1> DEFINE row == Flush(asset[a], OldRow(r, a), new)
<1>2. asset' = [asset EXCEPT ![a] = row]
  BY DEF Put
<1>3. /\ row \in Row
      /\ row.mac = IF new.mac = OldRow(r, a).mac THEN asset[a].mac ELSE new.mac
  BY <1>1, FlushFacts
<1>4. row.state # "absent"
  <2>1. CASE found[r].asset = NoAsset
    <3>1. OldRow(r, a).state = "absent"
      BY <2>1 DEF OldRow, NoRow
    <3> QED BY <1>1, <3>1, FlushFacts
  <2>2. CASE found[r].asset # NoAsset
    <3>1. a \in Present
      BY <2>2 DEF Targets, IdentityInv, InventoryTypeOK
    <3>2. asset[a].state # "absent"
      BY <3>1 DEF Present
    <3> QED BY <1>1, <3>2, FlushFacts
  <2> QED BY <2>1, <2>2
<1> HIDE DEF row
<1>5. asset' \in [Assets -> Row] /\ asset'[a] = row
      /\ \A b \in Assets : b # a => asset'[b] = asset[b]
  BY <1>1, <1>2, <1>3 DEF IdentityInv, InventoryTypeOK
<1>6. Present' = Present \cup {a}
  BY <1>1, <1>4, <1>5 DEF Present
<1>7. owner' \in [Addresses -> Present' \cup {NoAsset}]
  BY <1>6 DEF Put, Assigned, IdentityInv, InventoryTypeOK
<1>8. /\ loaded' \in [Requests -> [Assets -> Row]]
      /\ loaded'[r][a] = new
      /\ \A q \in Requests : \A b \in Assets :
             q # r \/ b # a => loaded'[q][b] = loaded[q][b]
  BY <1>1 DEF Put, IdentityInv, InventoryTypeOK
<1>9. row.mac \in {asset[a].mac, o.mac}
      /\ (row.mac # NoMac => \A b \in Present \ {a} : asset[b].mac # row.mac)
  <2>1. CASE found[r].asset = NoAsset
    <3>1. OldRow(r, a).mac = NoMac /\ a \notin Present /\ ByMac(o.mac) = NoAsset
      BY <2>1 DEF OldRow, NoRow, Targets
    <3>2. asset[a].mac = NoMac
      BY <1>1, <3>1, NoRowColumns DEF IdentityInv, Blank
    <3> QED BY <1>3, <2>1, <3>1, <3>2, ByMacFacts
  <2>2. CASE found[r].asset # NoAsset
    <3>1. a \in Present /\ OldRow(r, a) = loaded[r][a]
      BY <2>2 DEF Targets, IdentityInv, InventoryTypeOK, OldRow
    <3>2. CASE TakesMac(a, loaded[r][a], o.mac)
      <4>1. new.mac = o.mac /\ o.mac # NoMac /\ loaded[r][a].mac = NoMac
        BY <2>2, <3>2 DEF TakesMac
      <4>2. row.mac = o.mac
        BY <1>3, <3>1, <4>1
      <4>3. \A b \in Present \ {a} : asset[b].mac # o.mac
        <5>1. CASE ByMac(o.mac) = NoAsset
          BY <4>1, <5>1, ByMacFacts
        <5>2. CASE ByMac(o.mac) # NoAsset
          BY <3>2, <4>1, <5>2, ByMacFacts DEF TakesMac, IdentityInv, IdentityUnique
        <5> QED BY <5>1, <5>2
      <4> QED BY <4>2, <4>3
    <3>3. CASE ~TakesMac(a, loaded[r][a], o.mac)
      <4>1. row.mac = asset[a].mac
        BY <1>3, <2>2, <3>1, <3>3
      <4> QED BY <3>1, <4>1 DEF IdentityInv, IdentityUnique
    <3> QED BY <3>2, <3>3
  <2> QED BY <2>1, <2>2
<1> QED BY <1>1, <1>5, <1>6, <1>7, <1>8, <1>9
-----------------------------------------------------------------------------
\* One observation written, whatever its kind.
LEMMA WriteStep ==
  ASSUME IdentityInv, NEW r \in Requests, NEW a \in Targets(r), NEW notes,
         NEW new \in Row, new.state # "absent", Written(r),
         Put(r, a, Next1(r), new, notes),
         new.mac = IF found[r].asset = NoAsset THEN Next1(r).mac
                   ELSE IF TakesMac(a, loaded[r][a], Next1(r).mac) THEN Next1(r).mac
                   ELSE loaded[r][a].mac,
         passive' = passive, serial' = serial,
         names' \in [Assets -> SUBSET Sources],
         services' \in [Assets -> [Ports -> Service]],
         collected' \in [Requests -> [Assets -> Collected]],
         \A q \in Requests : \A b \in Assets :
             collected'[q][b].loaded => collected[q][b].loaded \/ b = a
  PROVE  IdentityInv'
<1>1. session[r].step = "correlated" /\ session[r] \in Session
  BY DEF Written, IdentityInv, InventoryTypeOK
<1>2. /\ Next1(r).mac \in Macs \cup {NoMac}
      /\ Tail(session[r].todo) \in Seq(Observation \cup Host)
      /\ session[r].kind = "passive" => Tail(session[r].todo) \in Seq(Observation)
      /\ session[r].kind = "scan" => Tail(session[r].todo) \in Seq(Host)
  BY <1>1, NextFacts DEF IdentityInv
<1>3. /\ a \in Assets
      /\ asset' \in [Assets -> Row]
      /\ \A b \in Assets : b # a => asset'[b] = asset[b]
      /\ Present' = Present \cup {a}
      /\ owner' \in [Addresses -> Present' \cup {NoAsset}]
      /\ loaded' \in [Requests -> [Assets -> Row]]
      /\ loaded'[r][a] = new
      /\ \A q \in Requests : \A b \in Assets :
             q # r \/ b # a => loaded'[q][b] = loaded[q][b]
      /\ asset'[a].mac # NoMac => \A b \in Present \ {a} : asset[b].mac # asset'[a].mac
  <2> DEFINE o == Next1(r)
  <2>1. o = Next1(r)
    OBVIOUS
  <2> HIDE DEF o
  <2> QED BY <1>2, <2>1, PutFacts
<1>4. session' = [session EXCEPT ![r] =
                     [session[r] EXCEPT !.step = "open", !.todo = Tail(session[r].todo)]]
  BY <1>1 DEF Written, IdentityInv, InventoryTypeOK, Session
<1>5. /\ session' \in [Requests -> Session]
      /\ session'[r].step = "open" /\ session'[r].kind = session[r].kind
      /\ session'[r].todo = Tail(session[r].todo)
      /\ \A q \in Requests : q # r => session'[q] = session[q]
  BY <1>1, <1>2, <1>4 DEF IdentityInv, InventoryTypeOK, Session
<1>6. /\ found' = [found EXCEPT ![r] = Nothing]
      /\ writer' = r
  BY DEF Written
<1>7. found' \in [Requests -> [mac : Present' \cup {NoAsset}, asset : Present' \cup {NoAsset},
                              blocked : SUBSET Addresses]]
  BY <1>3, <1>6 DEF IdentityInv, InventoryTypeOK, Nothing
<1>8. InventoryTypeOK'
  <2>1. session'[r] # Idle
    BY <1>5 DEF Idle
  <2> QED BY <1>3, <1>5, <1>6, <1>7, <2>1 DEF IdentityInv, InventoryTypeOK
<1>9. SessionShape'
  BY <1>1, <1>2, <1>5 DEF IdentityInv, SessionShape
<1>10. ObjectShape'
  <2>1. ASSUME NEW q \in Requests, NEW b \in Assets
        PROVE  loaded'[q][b] # NoRow => loaded'[q][b].state # "absent" /\ b \in Present'
    <3>1. CASE q = r /\ b = a
      BY <1>3, <3>1
    <3>2. CASE ~(q = r /\ b = a)
      BY <1>3, <3>2 DEF IdentityInv, ObjectShape
    <3> QED BY <3>1, <3>2
  <2>2. ASSUME NEW q \in Requests, NEW b \in Assets
        PROVE  collected'[q][b].loaded => b \in Present'
    BY <1>3 DEF IdentityInv, ObjectShape
  <2>3. ASSUME NEW q \in Requests
        PROVE  /\ found'[q].asset # NoAsset => loaded'[q][found'[q].asset] # NoRow
               /\ found'[q].mac # NoAsset => loaded'[q][found'[q].mac] # NoRow
    <3>1. CASE q = r
      BY <1>6, <3>1 DEF Nothing, IdentityInv, InventoryTypeOK
    <3>2. CASE q # r
      BY <1>3, <1>6, <3>2 DEF IdentityInv, ObjectShape, InventoryTypeOK, Present
    <3> QED BY <3>1, <3>2
  <2> QED BY <2>1, <2>2, <2>3 DEF ObjectShape
<1>11. Blank'
  BY <1>3 DEF IdentityInv, Blank
<1>12. IdentityUnique'
  <2>1. ASSUME NEW b \in Present', NEW c \in Present', asset'[b].mac = asset'[c].mac,
               b # c
        PROVE  asset'[b].mac = NoMac
    <3>1. b \in Present \cup {a} /\ c \in Present \cup {a} /\ Present \subseteq Assets
      BY <1>3 DEF Present
    <3>2. CASE b # a /\ c # a
      <4>1. b \in Present /\ c \in Present /\ asset'[b] = asset[b] /\ asset'[c] = asset[c]
        BY <1>3, <3>1, <3>2
      <4>2. IdentityUnique
        BY DEF IdentityInv
      <4> QED BY <2>1, <4>1, <4>2 DEF IdentityUnique
    <3>3. CASE b = a
      BY <1>3, <2>1, <3>1, <3>3
    <3>4. CASE c = a
      BY <1>3, <2>1, <3>1, <3>4
    <3> QED BY <3>2, <3>3, <3>4
  <2> QED BY <2>1 DEF IdentityUnique
<1> QED BY <1>8, <1>9, <1>10, <1>11, <1>12 DEF IdentityInv
-----------------------------------------------------------------------------
\* Steps that write no row.
LEMMA QuietFacts ==
  ASSUME IdentityInv, UNCHANGED rows
  PROVE  /\ Present' = Present /\ Blank' /\ IdentityUnique'
         /\ asset' \in [Assets -> Row]
         /\ owner' \in [Addresses -> Present' \cup {NoAsset}]
         /\ names' \in [Assets -> SUBSET Sources]
         /\ services' \in [Assets -> [Ports -> Service]]
<1>1. /\ asset' = asset /\ owner' = owner /\ names' = names /\ services' = services
  BY DEF rows
<1>2. Present' = Present
  BY <1>1 DEF Present
<1> QED BY <1>1, <1>2 DEF IdentityInv, InventoryTypeOK, Blank, IdentityUnique

\* The end of a session, with rows that kept their identity.
LEMMA CloseStep ==
  ASSUME IdentityInv, NEW r \in Requests, Close(r), Present' = Present,
         asset' \in [Assets -> Row], owner' = owner, names' = names,
         services' = services, passive' = passive, serial' = serial, Blank',
         IdentityUnique'
  PROVE  IdentityInv'
<1>1. /\ session' \in [Requests -> Session] /\ session'[r] = Idle
      /\ \A q \in Requests : q # r => session'[q] = session[q]
  <2>1. Idle \in Session
    BY DEF Idle, Session
  <2> QED BY <2>1 DEF Close, IdentityInv, InventoryTypeOK
<1>2. /\ loaded' \in [Requests -> [Assets -> Row]]
      /\ \A q \in Requests : q # r => loaded'[q] = loaded[q]
      /\ \A a \in Assets : loaded'[r][a] = NoRow
  BY NoRowIsRow DEF Close, IdentityInv, InventoryTypeOK
<1>3. /\ collected' \in [Requests -> [Assets -> Collected]]
      /\ \A q \in Requests : q # r => collected'[q] = collected[q]
      /\ \A a \in Assets : ~collected'[r][a].loaded
  <2>1. Unloaded \in Collected /\ ~Unloaded.loaded
    BY DEF Unloaded, Collected
  <2> QED BY <2>1 DEF Close, IdentityInv, InventoryTypeOK
<1>4. /\ found' \in [Requests -> [mac : Present \cup {NoAsset}, asset : Present \cup {NoAsset},
                                 blocked : SUBSET Addresses]]
      /\ \A q \in Requests : q # r => found'[q] = found[q]
      /\ found'[r].asset = NoAsset /\ found'[r].mac = NoAsset
  BY DEF Close, IdentityInv, InventoryTypeOK, Nothing
<1>5. writer' \in Requests \cup {NoRequest} /\ (writer' # NoRequest => session'[writer'] # Idle)
  BY <1>1, InventoryConstants DEF Close, IdentityInv, InventoryTypeOK
<1>6. InventoryTypeOK'
  BY <1>1, <1>2, <1>3, <1>4, <1>5 DEF IdentityInv, InventoryTypeOK
<1>7. SessionShape'
  <2>1. /\ Idle.kind = "idle" /\ Idle.step = "idle" /\ Idle.todo = <<>>
    BY DEF Idle
  <2>2. ASSUME NEW q \in Requests
        PROVE  /\ session'[q].kind = "passive" => session'[q].todo \in Seq(Observation)
               /\ session'[q].kind = "scan" => session'[q].todo \in Seq(Host)
               /\ session'[q].kind \notin {"passive", "scan"} => session'[q].todo = <<>>
               /\ session'[q].step \in {"mac", "correlated"} =>
                     session'[q].kind \in {"passive", "scan"} /\ session'[q].todo # <<>>
               /\ session'[q].step = "idle" => session'[q] = Idle
    BY <1>1, <2>1 DEF IdentityInv, SessionShape
  <2> QED BY <2>2 DEF SessionShape
<1>8. ObjectShape'
  <2>1. ASSUME NEW q \in Requests
        PROVE  /\ \A a \in Assets : loaded'[q][a] # NoRow =>
                     loaded'[q][a].state # "absent" /\ a \in Present'
               /\ \A a \in Assets : collected'[q][a].loaded => a \in Present'
               /\ found'[q].asset # NoAsset => loaded'[q][found'[q].asset] # NoRow
               /\ found'[q].mac # NoAsset => loaded'[q][found'[q].mac] # NoRow
    <3>1. CASE q = r
      BY <1>2, <1>3, <1>4, <3>1
    <3>2. CASE q # r
      BY <1>2, <1>3, <1>4, <3>2 DEF IdentityInv, ObjectShape
    <3> QED BY <3>1, <3>2
  <2> QED BY <2>1 DEF ObjectShape
<1> QED BY <1>6, <1>7, <1>8 DEF IdentityInv

\* A new session has the observations of its document to write.
LEMMA BeginStep ==
  ASSUME IdentityInv, NEW r \in Requests, NEW kind, NEW doc, Begin(r, kind, doc),
         \/ kind = "passive" /\ doc \in Seq(Observation)
         \/ kind = "scan" /\ doc \in Seq(Host)
         \/ kind = "refresh" /\ doc = <<>>
  PROVE  IdentityInv'
<1> DEFINE s == [kind |-> kind, step |-> "open", doc |-> doc, todo |-> doc]
<1>1. doc \in Seq(Observation \cup Host)
  <2>1. CASE doc \in Seq(Observation)
    BY <2>1, Seq(Observation) \subseteq Seq(Observation \cup Host)
  <2>2. CASE doc \in Seq(Host)
    BY <2>2, Seq(Host) \subseteq Seq(Observation \cup Host)
  <2>3. CASE doc = <<>>
    BY <2>3
  <2> QED BY <2>1, <2>2, <2>3
<1>2. session' = [session EXCEPT ![r] = s] /\ s \in Session /\ s # Idle
  BY <1>1 DEF Begin, Session, Idle
<1>3. /\ s.kind = kind /\ s.step = "open" /\ s.todo = doc
  OBVIOUS
<1> HIDE DEF s
<1>4. /\ session' \in [Requests -> Session] /\ session'[r] = s
      /\ \A q \in Requests : q # r => session'[q] = session[q]
  BY <1>2 DEF IdentityInv, InventoryTypeOK
<1>5. UNCHANGED <<rows, passive, loaded, collected, found, writer, serial>>
  BY DEF Begin
<1>6. InventoryTypeOK'
  BY <1>2, <1>4, <1>5, QuietFacts DEF IdentityInv, InventoryTypeOK
<1>7. SessionShape'
  <2>1. ASSUME NEW q \in Requests
        PROVE  /\ session'[q].kind = "passive" => session'[q].todo \in Seq(Observation)
               /\ session'[q].kind = "scan" => session'[q].todo \in Seq(Host)
               /\ session'[q].kind \notin {"passive", "scan"} => session'[q].todo = <<>>
               /\ session'[q].step \in {"mac", "correlated"} =>
                     session'[q].kind \in {"passive", "scan"} /\ session'[q].todo # <<>>
               /\ session'[q].step = "idle" => session'[q] = Idle
    BY <1>3, <1>4 DEF IdentityInv, SessionShape
  <2> QED BY <2>1 DEF SessionShape
<1>8. ObjectShape'
  BY <1>5, QuietFacts DEF IdentityInv, ObjectShape
<1> QED BY <1>5, <1>6, <1>7, <1>8, QuietFacts DEF IdentityInv

\* A step inside a session that writes no row: the place in the session, the
\* objects it has loaded and what it found may change.
LEMMA ReadStep ==
  ASSUME IdentityInv, NEW r \in Requests, NEW s \in Session, NEW f,
         UNCHANGED <<rows, passive, writer, serial>>,
         session' = [session EXCEPT ![r] = s], s.step # "idle",
         s.kind = "passive" => s.todo \in Seq(Observation),
         s.kind = "scan" => s.todo \in Seq(Host),
         s.kind \notin {"passive", "scan"} => s.todo = <<>>,
         s.step \in {"mac", "correlated"} => s.kind \in {"passive", "scan"} /\ s.todo # <<>>,
         found' = [found EXCEPT ![r] = f],
         f \in [mac : Present \cup {NoAsset}, asset : Present \cup {NoAsset},
                blocked : SUBSET Addresses],
         NEW S \in SUBSET (Present \cup {NoAsset}), Load(r, S),
         {f.mac, f.asset} \subseteq S \cup {NoAsset}
             \cup {b \in Assets : loaded[r][b] # NoRow},
         collected' \in [Requests -> [Assets -> Collected]],
         \A q \in Requests : \A b \in Assets : collected'[q][b].loaded => b \in Present
  PROVE  IdentityInv'
<1>1. /\ session' \in [Requests -> Session] /\ session'[r] = s
      /\ \A q \in Requests : q # r => session'[q] = session[q]
  BY DEF IdentityInv, InventoryTypeOK
<1>2. /\ Present' = Present /\ Blank' /\ IdentityUnique' /\ asset' = asset
      /\ asset' \in [Assets -> Row]
      /\ owner' \in [Addresses -> Present' \cup {NoAsset}]
      /\ names' \in [Assets -> SUBSET Sources]
      /\ services' \in [Assets -> [Ports -> Service]]
  BY QuietFacts DEF rows
<1>3. /\ loaded' \in [Requests -> [Assets -> Row]]
      /\ \A q \in Requests : q # r => loaded'[q] = loaded[q]
      /\ \A b \in Assets : loaded'[r][b] = IF b \in S /\ loaded[r][b] = NoRow
                                           THEN asset[b] ELSE loaded[r][b]
  BY DEF Load, IdentityInv, InventoryTypeOK
<1>4. /\ found' \in [Requests -> [mac : Present \cup {NoAsset}, asset : Present \cup {NoAsset},
                                 blocked : SUBSET Addresses]]
      /\ found'[r] = f /\ \A q \in Requests : q # r => found'[q] = found[q]
  BY DEF IdentityInv, InventoryTypeOK
<1>5. InventoryTypeOK'
  <2>1. writer' # NoRequest => session'[writer'] # Idle
    BY <1>1 DEF IdentityInv, InventoryTypeOK, Idle
  <2> QED BY <1>1, <1>2, <1>3, <1>4, <2>1 DEF IdentityInv, InventoryTypeOK
<1>6. SessionShape'
  <2>1. ASSUME NEW q \in Requests
        PROVE  /\ session'[q].kind = "passive" => session'[q].todo \in Seq(Observation)
               /\ session'[q].kind = "scan" => session'[q].todo \in Seq(Host)
               /\ session'[q].kind \notin {"passive", "scan"} => session'[q].todo = <<>>
               /\ session'[q].step \in {"mac", "correlated"} =>
                     session'[q].kind \in {"passive", "scan"} /\ session'[q].todo # <<>>
               /\ session'[q].step = "idle" => session'[q] = Idle
    BY <1>1 DEF IdentityInv, SessionShape
  <2> QED BY <2>1 DEF SessionShape
<1>7. \A b \in Present : b \in Assets /\ asset[b].state # "absent" /\ asset[b] # NoRow
  BY NoRowColumns DEF Present
<1>8. ObjectShape'
  <2>1. ASSUME NEW q \in Requests, NEW b \in Assets
        PROVE  loaded'[q][b] # NoRow => loaded'[q][b].state # "absent" /\ b \in Present'
    <3>1. CASE q = r /\ b \in S /\ loaded[r][b] = NoRow
      <4>1. b \in Present
        BY <3>1, InventoryConstants
      <4> QED BY <1>2, <1>3, <1>7, <3>1, <4>1
    <3>2. CASE ~(q = r /\ b \in S /\ loaded[r][b] = NoRow)
      BY <1>2, <1>3, <3>2 DEF IdentityInv, ObjectShape
    <3> QED BY <3>1, <3>2
  <2>2. ASSUME NEW b \in {f.mac, f.asset}, b # NoAsset
        PROVE  loaded'[r][b] # NoRow
    <3>1. b \in Present
      BY <2>2
    <3> QED BY <1>3, <1>7, <2>2, <3>1
  <2>3. ASSUME NEW q \in Requests
        PROVE  /\ found'[q].asset # NoAsset => loaded'[q][found'[q].asset] # NoRow
               /\ found'[q].mac # NoAsset => loaded'[q][found'[q].mac] # NoRow
    <3>1. CASE q = r
      BY <1>4, <2>2, <3>1
    <3>2. CASE q # r
      BY <1>3, <1>4, <3>2 DEF IdentityInv, ObjectShape
    <3> QED BY <3>1, <3>2
  <2> QED BY <1>2, <2>1, <2>3 DEF ObjectShape
<1> QED BY <1>2, <1>5, <1>6, <1>8 DEF IdentityInv

\* What a correlation finds exists, and it is loaded by the queries that find it.
LEMMA CorrelationFacts ==
  ASSUME IdentityInv, NEW r \in Requests, session[r].step = "mac"
  PROVE  LET o == Next1(r)
             f == Correlation(found[r].mac, o)
             S == {owner[x] : x \in AddressesIn(o)}
         IN /\ f \in [mac : Present \cup {NoAsset}, asset : Present \cup {NoAsset},
                      blocked : SUBSET Addresses]
            /\ S \subseteq Present \cup {NoAsset}
            /\ f.mac = found[r].mac
            /\ f.asset \in S \cup {found[r].mac, NoAsset}
<1> DEFINE o == Next1(r)
           f == Correlation(found[r].mac, o)
           S == {owner[x] : x \in AddressesIn(o)}
<1>1. o.addresses \in Seq(Addresses) /\ AddressesIn(o) \subseteq Addresses
  BY NextFacts DEF IdentityInv
<1> HIDE DEF o
<1>2. found[r].mac \in Present \cup {NoAsset}
  BY DEF IdentityInv, InventoryTypeOK
<1>3. S \subseteq Present \cup {NoAsset}
  BY <1>1 DEF IdentityInv, InventoryTypeOK
<1>4. ByAddress(o) \in S \cup {NoAsset}
  BY <1>1, ByAddressFacts
<1>5. f.mac = found[r].mac /\ f.asset \in S \cup {found[r].mac, NoAsset}
  BY <1>4 DEF Correlation
<1>6. f \in [mac : Present \cup {NoAsset}, asset : Present \cup {NoAsset},
             blocked : SUBSET Addresses]
  BY <1>1, <1>2, <1>3, <1>4 DEF Correlation
<1> QED BY <1>3, <1>5, <1>6 DEF o

\* What a host adds to the services, names and collections of an asset.
LEMMA HostTypes ==
  ASSUME IdentityInv, NEW r \in Requests, NEW a \in Assets, NEW h \in Host
  PROVE  /\ HostServices(a, h) \in [Ports -> Service]
         /\ HostSources(a, h) \in SUBSET Sources
         /\ HostCollected(r, a, h) \in Collected
<1>1. ASSUME NEW old \in Service, NEW new \in Service
      PROVE  UpsertService(old, new) \in Service
  BY DEF UpsertService, Service
<1>2. h.ports \in [Ports -> Service] /\ services[a] \in [Ports -> Service]
  BY DEF Host, IdentityInv, InventoryTypeOK
<1>3. HostServices(a, h) \in [Ports -> Service]
  BY <1>1, <1>2 DEF HostServices
<1>4. HostSources(a, h) \in SUBSET Sources
  BY InventoryConstants DEF HostSources, IdentityInv, InventoryTypeOK
<1>5. collected[r][a] \in Collected
  BY DEF IdentityInv, InventoryTypeOK
<1> QED BY <1>3, <1>4, <1>5 DEF HostCollected, Collected, PortsIn

\* One case per action.
LEMMA IdentityStep == IdentityInv /\ [InventoryNext]_inventoryVars => IdentityInv'
<1> SUFFICES ASSUME IdentityInv, [InventoryNext]_inventoryVars PROVE IdentityInv'
  OBVIOUS
<1> USE DEF IdentityInv
<1>1. CASE UNCHANGED inventoryVars
  <2>1. UNCHANGED <<rows, passive, session, loaded, collected, found, writer, serial>>
    BY <1>1 DEF inventoryVars
  <2>2. InventoryTypeOK'
    BY <2>1, QuietFacts DEF InventoryTypeOK
  <2>3. SessionShape' /\ ObjectShape'
    BY <2>1, QuietFacts DEF SessionShape, ObjectShape
  <2> QED BY <2>1, <2>2, <2>3, QuietFacts
<1>2. ASSUME NEW d \in PassiveDocs, StorePassive(d) PROVE IdentityInv'
  <2>1. /\ UNCHANGED <<rows, session, loaded, collected, found, writer, serial>>
        /\ passive' = d
    BY <1>2 DEF StorePassive
  <2>2. InventoryTypeOK'
    BY <2>1, QuietFacts DEF InventoryTypeOK
  <2>3. SessionShape' /\ ObjectShape'
    BY <2>1, QuietFacts DEF SessionShape, ObjectShape
  <2> QED BY <2>1, <2>2, <2>3, QuietFacts
<1>3. ASSUME NEW r \in Requests, StartPassive(r) PROVE IdentityInv'
  <2>1. passive \in Seq(Observation)
    BY <1>3, InventoryConstants DEF StartPassive, InventoryTypeOK
  <2> QED BY <1>3, <2>1, BeginStep DEF StartPassive
<1>4. ASSUME NEW r \in Requests, NEW d \in ScanDocs, StartScan(r, d) PROVE IdentityInv'
  <2>1. d \in Seq(Host)
    BY InventoryConstants
  <2> QED BY <1>4, <2>1, BeginStep DEF StartScan
<1>5. ASSUME NEW r \in Requests, StartRefresh(r) PROVE IdentityInv'
  BY <1>5, BeginStep DEF StartRefresh
<1>6. ASSUME NEW r \in Requests, SkipHost(r) PROVE IdentityInv'
  <2> DEFINE s == [session[r] EXCEPT !.todo = Tail(session[r].todo)]
  <2>1. /\ session[r] \in Session /\ session[r].todo \in Seq(Host) /\ session[r].todo # <<>>
        /\ session[r].kind = "scan" /\ session[r].step = "open"
    BY <1>6 DEF SkipHost, InventoryTypeOK, SessionShape
  <2>2. /\ Tail(session[r].todo) \in Seq(Host)
        /\ Tail(session[r].todo) \in Seq(Observation \cup Host)
    BY <2>1 DEF Session
  <2>3. s \in Session /\ s.kind = "scan" /\ s.step = "open" /\ s.todo \in Seq(Host)
    BY <2>1, <2>2 DEF Session
  <2>4. /\ session' = [session EXCEPT ![r] = s]
        /\ UNCHANGED <<rows, passive, writer, serial, loaded, collected, found>>
    BY <1>6 DEF SkipHost, InventoryTypeOK, Session
  <2> HIDE DEF s
  <2>5. Load(r, {}) /\ found' = [found EXCEPT ![r] = found[r]]
    BY <2>4 DEF Load, InventoryTypeOK
  <2>6. found[r] \in [mac : Present \cup {NoAsset}, asset : Present \cup {NoAsset},
                      blocked : SUBSET Addresses]
    BY DEF InventoryTypeOK
  <2>7. {found[r].mac, found[r].asset} \subseteq
            {} \cup {NoAsset} \cup {b \in Assets : loaded[r][b] # NoRow}
    BY <2>6 DEF ObjectShape, Present
  <2>8. /\ collected' \in [Requests -> [Assets -> Collected]]
        /\ \A q \in Requests : \A b \in Assets : collected'[q][b].loaded => b \in Present
    BY <2>4 DEF InventoryTypeOK, ObjectShape
  <2> QED BY <2>3, <2>4, <2>5, <2>6, <2>7, <2>8, ReadStep
<1>7. ASSUME NEW r \in Requests, CorrelateMac(r) PROVE IdentityInv'
  <2> DEFINE s == [session[r] EXCEPT !.step = "mac"]
             b == ByMac(Next1(r).mac)
             f == [Nothing EXCEPT !.mac = b]
  <2>1. /\ session[r] \in Session /\ session[r].step = "open" /\ session[r].todo # <<>>
    BY <1>7 DEF CorrelateMac, InventoryTypeOK
  <2>2. session[r].kind \in {"passive", "scan"}
    BY <1>7, <2>1 DEF CorrelateMac, SessionShape
  <2>3. /\ s \in Session /\ s.kind = session[r].kind /\ s.step = "mac"
        /\ s.todo = session[r].todo
    BY <2>1 DEF Session
  <2>4. /\ session' = [session EXCEPT ![r] = s]
        /\ found' = [found EXCEPT ![r] = f]
        /\ Load(r, {b})
        /\ UNCHANGED <<rows, passive, writer, serial, collected>>
    BY <1>7 DEF CorrelateMac, InventoryTypeOK, Session
  <2>5. b \in Present \cup {NoAsset}
    BY ByMacFacts
  <2> HIDE DEF s, b
  <2>6. /\ f \in [mac : Present \cup {NoAsset}, asset : Present \cup {NoAsset},
                  blocked : SUBSET Addresses]
        /\ f.mac = b /\ f.asset = NoAsset
    BY <2>5 DEF Nothing
  <2> HIDE DEF f
  <2>7. /\ collected' \in [Requests -> [Assets -> Collected]]
        /\ \A q \in Requests : \A c \in Assets : collected'[q][c].loaded => c \in Present
    BY <2>4 DEF InventoryTypeOK, ObjectShape
  <2>8. /\ s.kind = "passive" => s.todo \in Seq(Observation)
        /\ s.kind = "scan" => s.todo \in Seq(Host)
        /\ s.kind \notin {"passive", "scan"} => s.todo = <<>>
    BY <2>3 DEF SessionShape
  <2> QED BY <2>1, <2>2, <2>3, <2>4, <2>5, <2>6, <2>7, <2>8, ReadStep
<1>8. ASSUME NEW r \in Requests, CorrelateAddresses(r) PROVE IdentityInv'
  <2> DEFINE s == [session[r] EXCEPT !.step = "correlated"]
             f == Correlation(found[r].mac, Next1(r))
             S == {owner[x] : x \in AddressesIn(Next1(r))}
  <2>1. /\ session[r] \in Session /\ session[r].step = "mac"
        /\ session[r].kind \in {"passive", "scan"} /\ session[r].todo # <<>>
    BY <1>8 DEF CorrelateAddresses, InventoryTypeOK, SessionShape
  <2>2. /\ s \in Session /\ s.kind = session[r].kind /\ s.step = "correlated"
        /\ s.todo = session[r].todo
    BY <2>1 DEF Session
  <2>3. /\ session' = [session EXCEPT ![r] = s]
        /\ found' = [found EXCEPT ![r] = f]
        /\ Load(r, S)
        /\ UNCHANGED <<rows, passive, writer, serial, collected>>
    BY <1>8 DEF CorrelateAddresses, InventoryTypeOK, Session
  <2>4. /\ f \in [mac : Present \cup {NoAsset}, asset : Present \cup {NoAsset},
                  blocked : SUBSET Addresses]
        /\ S \subseteq Present \cup {NoAsset}
        /\ f.mac = found[r].mac /\ f.asset \in S \cup {found[r].mac, NoAsset}
    BY <2>1, CorrelationFacts
  <2> HIDE DEF s, f, S
  <2>5. found[r].mac \in {NoAsset} \cup {b \in Assets : loaded[r][b] # NoRow}
    BY DEF InventoryTypeOK, ObjectShape, Present
  <2>6. /\ collected' \in [Requests -> [Assets -> Collected]]
        /\ \A q \in Requests : \A c \in Assets : collected'[q][c].loaded => c \in Present
    BY <2>3 DEF InventoryTypeOK, ObjectShape
  <2>7. /\ s.kind = "passive" => s.todo \in Seq(Observation)
        /\ s.kind = "scan" => s.todo \in Seq(Host)
        /\ s.kind \notin {"passive", "scan"} => s.todo = <<>>
    BY <2>2 DEF SessionShape
  <2>8. {f.mac, f.asset} \subseteq S \cup {NoAsset} \cup {b \in Assets : loaded[r][b] # NoRow}
    BY <2>4, <2>5
  <2> QED BY <2>1, <2>2, <2>3, <2>4, <2>6, <2>7, <2>8, ReadStep
<1>9. ASSUME NEW r \in Requests, InsertRefused(r) \/ Abandon(r) \/ CommitScan(r)
      PROVE  IdentityInv'
  <2>1. Close(r) /\ UNCHANGED <<rows, passive, serial>>
    BY <1>9 DEF InsertRefused, Abandon, CommitScan
  <2>2. owner' = owner /\ names' = names /\ services' = services
    BY <2>1 DEF rows
  <2> QED BY <2>1, <2>2, QuietFacts, CloseStep
<1>10. ASSUME NEW r \in Requests, UpsertIdentity(r) PROVE IdentityInv'
  <2>1. session[r].step = "correlated" /\ session[r].kind = "passive" /\ Written(r)
    BY <1>10 DEF UpsertIdentity, Written
  <2>2. Next1(r) \in Observation
    BY <2>1, NextFacts
  <2>3. PICK a \in Targets(r) :
          /\ Put(r, a, Next1(r), Touched(r, a, Next1(r).mac, "observed", Vendor(Next1(r).mac)), {})
          /\ names' = [names EXCEPT ![a] = @ \cup Next1(r).sources]
    BY <1>10 DEF UpsertIdentity
  <2>4. /\ Next1(r).mac \in Macs \cup {NoMac} /\ Next1(r).sources \subseteq Sources
        /\ "observed" \in AssetState
    BY <2>2 DEF Observation, AssetState
  <2>5. Vendor(Next1(r).mac) \in VendorFamily
    BY <2>4, InventoryConstants DEF Vendor, VendorFamily
  <2> DEFINE new == Touched(r, a, Next1(r).mac, "observed", Vendor(Next1(r).mac))
  <2>6. /\ a \in Assets /\ new \in Row /\ new.state # "absent"
        /\ new.mac = IF found[r].asset = NoAsset THEN Next1(r).mac
                     ELSE IF TakesMac(a, loaded[r][a], Next1(r).mac) THEN Next1(r).mac
                     ELSE loaded[r][a].mac
    BY <2>4, <2>5, TouchedFacts
  <2>7. names' \in [Assets -> SUBSET Sources]
    BY <2>3, <2>4, <2>6 DEF InventoryTypeOK
  <2>8. /\ passive' = passive /\ serial' = serial
        /\ services' = services /\ collected' = collected
    BY <1>10 DEF UpsertIdentity
  <2>9. /\ services' \in [Assets -> [Ports -> Service]]
        /\ collected' \in [Requests -> [Assets -> Collected]]
    BY <2>8 DEF InventoryTypeOK
  <2>10. Put(r, a, Next1(r), new, {})
    BY <2>3
  <2> HIDE DEF new
  <2> QED BY <2>1, <2>6, <2>7, <2>8, <2>9, <2>10, WriteStep
<1>11. ASSUME NEW r \in Requests, UpsertNmapHost(r) PROVE IdentityInv'
  <2>1. session[r].step = "correlated" /\ session[r].kind = "scan" /\ Written(r)
    BY <1>11 DEF UpsertNmapHost, Written
  <2> DEFINE h == Next1(r)
  <2>2. h \in Host
    BY <2>1, NextFacts
  <2>3. PICK a \in Targets(r) :
          /\ Put(r, a, h, HostRow(r, a, h), HostNotes(a, OldRow(r, a), h))
          /\ collected' = [collected EXCEPT ![r][a] = HostCollected(r, a, h)]
          /\ names' = [names EXCEPT ![a] = HostSources(a, h)]
          /\ services' = [services EXCEPT ![a] = HostServices(a, h)]
    BY <1>11 DEF UpsertNmapHost
  <2>4. a \in Assets
    BY DEF Targets, InventoryTypeOK, Present
  <2>5. /\ HostServices(a, h) \in [Ports -> Service]
        /\ HostSources(a, h) \in SUBSET Sources
        /\ HostCollected(r, a, h) \in Collected
    BY <2>2, <2>4, HostTypes
  <2>6. /\ HostRow(r, a, h) \in Row /\ HostRow(r, a, h).state # "absent"
        /\ HostRow(r, a, h).mac = IF found[r].asset = NoAsset THEN Next1(r).mac
                     ELSE IF TakesMac(a, loaded[r][a], Next1(r).mac) THEN Next1(r).mac
                     ELSE loaded[r][a].mac
    BY <2>2, HostRowFacts
  <2>7. /\ names' \in [Assets -> SUBSET Sources]
        /\ services' \in [Assets -> [Ports -> Service]]
        /\ collected' \in [Requests -> [Assets -> Collected]]
        /\ \A q \in Requests : \A b \in Assets :
              collected'[q][b].loaded => collected[q][b].loaded \/ b = a
    BY <2>3, <2>4, <2>5 DEF InventoryTypeOK
  <2>8. passive' = passive /\ serial' = serial
    BY <1>11 DEF UpsertNmapHost
  <2>9. Put(r, a, Next1(r), HostRow(r, a, h), HostNotes(a, OldRow(r, a), h))
    BY <2>3
  <2> HIDE DEF h
  <2> QED BY <2>1, <2>6, <2>7, <2>8, <2>9, WriteStep
<1>12. ASSUME NEW r \in Requests, ReadAll(r) PROVE IdentityInv'
  <2> DEFINE s == [session[r] EXCEPT !.step = "loaded"]
  <2>1. session[r] \in Session
    BY DEF InventoryTypeOK
  <2>2. /\ s \in Session /\ s.kind = session[r].kind /\ s.step = "loaded"
        /\ s.todo = session[r].todo
    BY <2>1 DEF Session
  <2>3. /\ session' = [session EXCEPT ![r] = s]
        /\ Load(r, Present)
        /\ UNCHANGED <<rows, passive, writer, serial, found>>
    BY <1>12 DEF ReadAll, InventoryTypeOK, Session
  <2> HIDE DEF s
  <2>4. /\ found' = [found EXCEPT ![r] = found[r]]
        /\ found[r] \in [mac : Present \cup {NoAsset}, asset : Present \cup {NoAsset},
                         blocked : SUBSET Addresses]
    BY <2>3 DEF InventoryTypeOK
  <2>5. {found[r].mac, found[r].asset} \subseteq
            Present \cup {NoAsset} \cup {b \in Assets : loaded[r][b] # NoRow}
    BY <2>4
  <2>6. /\ collected' \in [Requests -> [Assets -> Collected]]
        /\ \A q \in Requests : \A b \in Assets : collected'[q][b].loaded => b \in Present
    BY <1>12 DEF ReadAll, InventoryTypeOK, ObjectShape, Collected, OpenPorts
  <2>7. /\ s.kind = "passive" => s.todo \in Seq(Observation)
        /\ s.kind = "scan" => s.todo \in Seq(Host)
        /\ s.kind \notin {"passive", "scan"} => s.todo = <<>>
    BY <2>2 DEF SessionShape
  <2> QED BY <2>2, <2>3, <2>4, <2>5, <2>6, <2>7, ReadStep
<1>13. ASSUME NEW r \in Requests, CommitClasses(r) PROVE IdentityInv'
  <2>1. /\ Close(r) /\ owner' = owner /\ names' = names /\ services' = services
        /\ passive' = passive /\ serial' = serial
    BY <1>13 DEF CommitClasses
  <2>2. ASSUME NEW a \in Assets
        PROVE  /\ asset'[a] \in Row
               /\ asset'[a].mac = asset[a].mac /\ asset'[a].state = asset[a].state
               /\ a \notin Present => asset'[a] = asset[a]
    <3> DEFINE old == loaded[r][a]
               new == [old EXCEPT !.class =
                          Class(old, collected[r][a].ports, collected[r][a].sources)]
    <3>1. old \in Row /\ asset[a] \in Row
      BY DEF InventoryTypeOK
    <3>2. new \in Row /\ new.mac = old.mac /\ new.state = old.state
      BY <3>1, ClassFacts DEF Row
    <3>3. asset'[a] = IF collected[r][a].loaded THEN Flush(asset[a], old, new) ELSE asset[a]
      BY <1>13 DEF CommitClasses
    <3> HIDE DEF old, new
    <3>4. Flush(asset[a], old, new) \in Row /\ Flush(asset[a], old, new).mac = asset[a].mac
      BY <3>1, <3>2, FlushFacts
    <3>5. Flush(asset[a], old, new).state = asset[a].state
      BY <3>2 DEF Flush
    <3> QED BY <3>1, <3>3, <3>4, <3>5 DEF ObjectShape
  <2>3. asset' \in [Assets -> Row]
    BY <1>13, <2>2 DEF CommitClasses
  <2>4. Present' = Present
    BY <2>2 DEF Present
  <2>5. Blank'
    BY <2>2, <2>4 DEF Blank
  <2>6. IdentityUnique'
    BY <2>2, <2>4 DEF IdentityUnique, Present
  <2> QED BY <2>1, <2>3, <2>4, <2>5, <2>6, CloseStep
<1> QED
  BY <1>1, <1>2, <1>3, <1>4, <1>5, <1>6, <1>7, <1>8, <1>9, <1>10, <1>11, <1>12, <1>13
     DEF InventoryNext

\* The first state: no asset, no session.
LEMMA IdentityBegins == InventoryInit => IdentityInv
<1> SUFFICES ASSUME InventoryInit PROVE IdentityInv
  OBVIOUS
<1>1. Present = {}
  BY NoRowColumns DEF InventoryInit, Present
<1>2. /\ NoRow \in Row /\ NoService \in Service /\ Idle \in Session
      /\ Unloaded \in Collected
  BY NoRowIsRow DEF NoService, Service, PortState, ConfidenceLevel, Idle, Session,
                    Unloaded, Collected
<1>3. /\ Idle.kind = "idle" /\ Idle.step = "idle" /\ Idle.todo = <<>>
      /\ Nothing.mac = NoAsset /\ Nothing.asset = NoAsset
      /\ Nothing \in [mac : {NoAsset}, asset : {NoAsset}, blocked : SUBSET Addresses]
      /\ Unloaded.loaded = FALSE
  BY DEF Idle, Nothing, Unloaded
<1>4. InventoryTypeOK
  BY <1>1, <1>2, <1>3 DEF InventoryInit, InventoryTypeOK
<1>5. SessionShape
  BY <1>3 DEF InventoryInit, SessionShape
<1>6. ObjectShape
  BY <1>3 DEF InventoryInit, ObjectShape
<1>7. Blank /\ IdentityUnique
  BY <1>1 DEF InventoryInit, Blank, IdentityUnique
<1> QED BY <1>4, <1>5, <1>6, <1>7 DEF IdentityInv

\* The invariant holds in every behaviour.
LEMMA IdentityAlways == InventorySpec => []IdentityInv
BY IdentityBegins, IdentityStep, PTL DEF InventorySpec

\* Whatever ingestions overlap, every row keeps its columns, an address belongs
\* to an asset that exists, a correlated asset exists, and the write lock is
\* held only by a request in a session (_upsert_nmap_host, _upsert_identity).
THEOREM InventoryTypeCorrect == InventorySpec => []InventoryTypeOK
<1>1. IdentityInv => InventoryTypeOK
  BY DEF IdentityInv
<1> QED BY <1>1, IdentityAlways, PTL

\* Whatever ingestions overlap, no two assets get one MAC address: the row of a
\* new asset is refused, and an asset takes a MAC address only if a lookup under
\* the write lock finds it free (_upsert_identity, _upsert_nmap_host).
THEOREM IdentityIsUnique == InventorySpec => []IdentityUnique
<1>1. IdentityInv => IdentityUnique
  BY DEF IdentityInv
<1> QED BY <1>1, IdentityAlways, PTL
-----------------------------------------------------------------------------
\* Where requests do not overlap, the objects a session has loaded are the rows,
\* and what it found is what it would find now.
HolderIsFound(r) ==
    LET f == IF session[r].step = "mac" THEN found[r].mac ELSE found[r].asset
    IN session[r].step \in {"mac", "correlated"} =>
           \A b \in Present : asset[b].mac # NoMac /\ asset[b].mac = Next1(r).mac => b = f
OwnerIsFound(r) ==
    session[r].step = "correlated" =>
        \A x \in AddressesIn(Next1(r)) \ found[r].blocked : owner[x] \in {NoAsset, found[r].asset}
OneSession ==
    \A q, r \in Requests : session[q] # Idle /\ session[r] # Idle => q = r
SerialInv ==
    serial => /\ OneSession
              /\ \A r \in Requests :
                    /\ \A a \in Assets :
                          loaded[r][a] = NoRow \/ (session[r] # Idle /\ loaded[r][a] = asset[a])
                    /\ HolderIsFound(r)
                    /\ OwnerIsFound(r)

\* A conflict is one of an asset, and a pair a scan reports is one of a MAC
\* address and an address.
Evidence ==
    /\ reported \subseteq Macs \X Addresses
    /\ \A n \in noted : n.asset \in Assets

\* What both kinds of observation write.
LEMMA WriteShape ==
  ASSUME IdentityInv, NEW r \in Requests, UpsertIdentity(r) \/ UpsertNmapHost(r)
  PROVE  /\ Written(r) /\ serial' = serial
         /\ \E a \in Targets(r) : \E new \in Row : \E notes \in SUBSET noted' :
               /\ new.state # "absent" /\ Put(r, a, Next1(r), new, notes)
               /\ new.mac = IF found[r].asset = NoAsset THEN Next1(r).mac
                            ELSE IF TakesMac(a, loaded[r][a], Next1(r).mac) THEN Next1(r).mac
                            ELSE loaded[r][a].mac
               /\ UpsertNmapHost(r) => notes = HostNotes(a, OldRow(r, a), Next1(r))
               /\ UpsertIdentity(r) => notes = {}
<1>1. CASE UpsertIdentity(r)
  <2>1. session[r].step = "correlated" /\ session[r].kind = "passive" /\ Written(r)
        /\ serial' = serial
    BY <1>1 DEF UpsertIdentity, Written
  <2>2. Next1(r) \in Observation
    BY <2>1, NextFacts DEF IdentityInv
  <2>3. PICK a \in Targets(r) :
          Put(r, a, Next1(r), Touched(r, a, Next1(r).mac, "observed", Vendor(Next1(r).mac)), {})
    BY <1>1 DEF UpsertIdentity
  <2>4. Next1(r).mac \in Macs \cup {NoMac} /\ "observed" \in AssetState
    BY <2>2 DEF Observation, AssetState
  <2>5. Vendor(Next1(r).mac) \in VendorFamily
    BY <2>4, InventoryConstants DEF Vendor, VendorFamily
  <2> DEFINE new == Touched(r, a, Next1(r).mac, "observed", Vendor(Next1(r).mac))
  <2>6. /\ new \in Row /\ new.state # "absent"
        /\ new.mac = IF found[r].asset = NoAsset THEN Next1(r).mac
                     ELSE IF TakesMac(a, loaded[r][a], Next1(r).mac) THEN Next1(r).mac
                     ELSE loaded[r][a].mac
    BY <2>4, <2>5, TouchedFacts DEF IdentityInv
  <2>7. ~UpsertNmapHost(r)
    BY <2>1 DEF UpsertNmapHost
  <2>8. Put(r, a, Next1(r), new, {}) /\ {} \in SUBSET noted'
    BY <2>3
  <2> HIDE DEF new
  <2> QED BY <2>1, <2>6, <2>7, <2>8
<1>2. CASE UpsertNmapHost(r)
  <2>1. session[r].step = "correlated" /\ session[r].kind = "scan" /\ Written(r)
        /\ serial' = serial
    BY <1>2 DEF UpsertNmapHost, Written
  <2>2. Next1(r) \in Host
    BY <2>1, NextFacts DEF IdentityInv
  <2>3. PICK a \in Targets(r) :
          Put(r, a, Next1(r), HostRow(r, a, Next1(r)), HostNotes(a, OldRow(r, a), Next1(r)))
    BY <1>2 DEF UpsertNmapHost
  <2> DEFINE new == HostRow(r, a, Next1(r))
  <2>4. /\ new \in Row /\ new.state # "absent"
        /\ new.mac = IF found[r].asset = NoAsset THEN Next1(r).mac
                     ELSE IF TakesMac(a, loaded[r][a], Next1(r).mac) THEN Next1(r).mac
                     ELSE loaded[r][a].mac
    BY <2>2, HostRowFacts DEF IdentityInv
  <2>5. ~UpsertIdentity(r)
    BY <2>1 DEF UpsertIdentity
  <2>6. Put(r, a, Next1(r), new, HostNotes(a, OldRow(r, a), Next1(r)))
    BY <2>3
  <2>7. HostNotes(a, OldRow(r, a), Next1(r)) \in SUBSET noted'
    BY <2>6 DEF Put
  <2> HIDE DEF new
  <2> QED BY <2>1, <2>4, <2>5, <2>6, <2>7
<1> QED BY <1>1, <1>2

\* Where requests do not overlap, a write replaces the row by the object, and
\* keeps the MAC address the row has.
LEMMA SerialWrite ==
  ASSUME IdentityInv, SerialInv, serial, NEW r \in Requests, NEW a \in Targets(r),
         NEW notes, NEW new \in Row, Put(r, a, Next1(r), new, notes),
         new.mac = IF found[r].asset = NoAsset THEN Next1(r).mac
                   ELSE IF TakesMac(a, loaded[r][a], Next1(r).mac) THEN Next1(r).mac
                   ELSE loaded[r][a].mac
  PROVE  /\ a \in Assets /\ OldRow(r, a) = asset[a] /\ asset'[a] = new
         /\ asset[a].mac # NoMac => new.mac = asset[a].mac
<1>1. a \in Assets /\ asset[a] \in Row
  <2>1. a \in Assets
    BY DEF IdentityInv, Targets, InventoryTypeOK, Present
  <2> QED BY <2>1 DEF IdentityInv, InventoryTypeOK
<1>2. /\ OldRow(r, a) = asset[a]
      /\ found[r].asset # NoAsset => loaded[r][a] = asset[a]
      /\ found[r].asset = NoAsset => asset[a].mac = NoMac
  <2>1. CASE found[r].asset = NoAsset
    <3>1. a \notin Present
      BY <2>1 DEF Targets
    <3> QED BY <1>1, <2>1, <3>1, NoRowColumns DEF OldRow, IdentityInv, Blank
  <2>2. CASE found[r].asset # NoAsset
    <3>1. a = found[r].asset
      BY <2>2 DEF Targets
    <3>2. loaded[r][a] # NoRow
      BY <2>2, <3>1 DEF IdentityInv, ObjectShape
    <3>3. loaded[r][a] = asset[a]
      BY <1>1, <3>2 DEF SerialInv
    <3> QED BY <2>2, <3>3 DEF OldRow
  <2> QED BY <2>1, <2>2
<1>3. asset'[a] = new
  <2>1. asset'[a] = Flush(asset[a], asset[a], new)
    BY <1>1, <1>2 DEF Put, IdentityInv, InventoryTypeOK
  <2> QED BY <1>1, <2>1, FlushFacts
<1>4. asset[a].mac # NoMac => new.mac = asset[a].mac
  BY <1>2 DEF TakesMac
<1> QED BY <1>1, <1>2, <1>3, <1>4

\* One request moves while the others are idle.
LEMMA SerialMove ==
  ASSUME SerialInv, serial, NEW r \in Requests,
         session[r] # Idle \/ \A q \in Requests \ {r} : session[q] = Idle,
         \A q \in Requests : q # r => session'[q] = session[q] /\ loaded'[q] = loaded[q],
         \A a \in Assets : loaded'[r][a] = NoRow
                          \/ (session'[r] # Idle /\ loaded'[r][a] = asset'[a]),
         HolderIsFound(r)', OwnerIsFound(r)'
  PROVE  SerialInv'
<1>1. \A q \in Requests : q # r => session[q] = Idle /\ session'[q] = Idle
  BY DEF SerialInv, OneSession
<1>2. OneSession'
  BY <1>1 DEF OneSession
<1>3. ASSUME NEW q \in Requests, q # r
      PROVE  /\ \A a \in Assets : loaded'[q][a] = NoRow
             /\ HolderIsFound(q)' /\ OwnerIsFound(q)'
  <2>1. session'[q].step = "idle"
    BY <1>1, <1>3 DEF Idle
  <2>2. HolderIsFound(q)' /\ OwnerIsFound(q)'
    BY <2>1 DEF HolderIsFound, OwnerIsFound
  <2>3. \A a \in Assets : loaded[q][a] = NoRow
    BY <1>1, <1>3 DEF SerialInv
  <2> QED BY <1>3, <2>2, <2>3
<1>4. ASSUME NEW q \in Requests
      PROVE  /\ \A a \in Assets :
                    loaded'[q][a] = NoRow \/ (session'[q] # Idle /\ loaded'[q][a] = asset'[a])
             /\ HolderIsFound(q)' /\ OwnerIsFound(q)'
  <2>1. CASE q = r
    BY <2>1
  <2>2. CASE q # r
    BY <1>3, <2>2
  <2> QED BY <2>1, <2>2
<1> QED BY <1>2, <1>4 DEF SerialInv

\* One case per action that moves a request.
LEMMA SerialStep ==
  IdentityInv /\ SerialInv /\ [InventoryNext]_inventoryVars => SerialInv'
<1> SUFFICES ASSUME IdentityInv, SerialInv, [InventoryNext]_inventoryVars, serial'
             PROVE  SerialInv'
  BY DEF SerialInv
<1>1. serial' = serial
  BY DEF InventoryNext, inventoryVars, StorePassive, StartPassive, StartScan, StartRefresh,
         Begin, SkipHost, CorrelateMac, CorrelateAddresses, InsertRefused, Abandon,
         UpsertIdentity, UpsertNmapHost, CommitScan, ReadAll, CommitClasses
<1>2. serial
  BY <1>1
<1>3. CASE UNCHANGED <<rows, session, loaded, found>>
  <2>1. asset' = asset /\ owner' = owner /\ Present' = Present
    BY <1>3 DEF rows, Present
  <2>2. \A r \in Requests : HolderIsFound(r)' /\ OwnerIsFound(r)'
    BY <1>2, <1>3, <2>1 DEF SerialInv, HolderIsFound, OwnerIsFound, Next1, AddressesIn
  <2> QED BY <1>2, <1>3, <2>1, <2>2 DEF SerialInv, OneSession
<1>4. ASSUME NEW r \in Requests, NEW kind, NEW doc, Begin(r, kind, doc) PROVE SerialInv'
  <2>1. /\ session[r] = Idle /\ loaded' = loaded
        /\ \A q \in Requests \ {r} : session[q] = Idle
    BY <1>2, <1>4 DEF Begin, Alone
  <2>2. session'[r].step = "open" /\ \A q \in Requests : q # r => session'[q] = session[q]
    BY <1>4 DEF Begin, IdentityInv, InventoryTypeOK
  <2>3. HolderIsFound(r)' /\ OwnerIsFound(r)'
    BY <2>2 DEF HolderIsFound, OwnerIsFound
  <2>4. \A a \in Assets : loaded[r][a] = NoRow
    BY <1>2, <2>1 DEF SerialInv
  <2> QED BY <1>2, <2>1, <2>2, <2>3, <2>4, SerialMove
<1>5. ASSUME NEW r \in Requests, Close(r), session[r] # Idle PROVE SerialInv'
  <2>1. /\ session'[r] = Idle /\ \A a \in Assets : loaded'[r][a] = NoRow
        /\ \A q \in Requests : q # r => session'[q] = session[q] /\ loaded'[q] = loaded[q]
    BY <1>5 DEF Close, IdentityInv, InventoryTypeOK
  <2>2. session'[r].step = "idle"
    BY <2>1 DEF Idle
  <2>3. HolderIsFound(r)' /\ OwnerIsFound(r)'
    BY <2>2 DEF HolderIsFound, OwnerIsFound
  <2> QED BY <1>2, <1>5, <2>1, <2>3, SerialMove
<1>6. ASSUME NEW r \in Requests, session[r].step # "idle", rows' = rows,
             NEW s \in {"open", "mac", "correlated", "loaded"},
             \A q \in Requests : q # r => session'[q] = session[q] /\ loaded'[q] = loaded[q],
             session'[r].step = s, NEW S, Load(r, S), HolderIsFound(r)', OwnerIsFound(r)'
      PROVE  SerialInv'
  <2>1. session[r] # Idle /\ session'[r] # Idle
    BY <1>6 DEF Idle
  <2>2. asset' = asset
    BY <1>6 DEF rows
  <2>3. \A a \in Assets : loaded'[r][a] \in {loaded[r][a], asset[a]}
    BY <1>6 DEF Load, IdentityInv, InventoryTypeOK
  <2>4. \A a \in Assets : loaded[r][a] \in {NoRow, asset[a]}
    BY <1>2 DEF SerialInv
  <2> QED BY <1>2, <1>6, <2>1, <2>2, <2>3, <2>4, SerialMove
<1>7. ASSUME NEW r \in Requests, SkipHost(r) PROVE SerialInv'
  <2>1. /\ session[r].step = "open" /\ session'[r].step = "open"
        /\ \A q \in Requests : q # r => session'[q] = session[q] /\ loaded'[q] = loaded[q]
        /\ rows' = rows /\ loaded' = loaded
    BY <1>7 DEF SkipHost, IdentityInv, InventoryTypeOK, Session, rows
  <2>2. HolderIsFound(r)' /\ OwnerIsFound(r)' /\ Load(r, {})
    BY <2>1 DEF HolderIsFound, OwnerIsFound, Load, IdentityInv, InventoryTypeOK
  <2> QED BY <1>6, <2>1, <2>2
<1>8. ASSUME NEW r \in Requests, CorrelateMac(r) PROVE SerialInv'
  <2> DEFINE m == Next1(r).mac
  <2>1. /\ session[r].step = "open" /\ session'[r].step = "mac"
        /\ session'[r].todo = session[r].todo
        /\ \A q \in Requests : q # r => session'[q] = session[q] /\ loaded'[q] = loaded[q]
        /\ rows' = rows /\ Load(r, {ByMac(m)})
    BY <1>8 DEF CorrelateMac, IdentityInv, InventoryTypeOK, Session, rows, Load
  <2>2. found'[r].mac = ByMac(m)
    BY <1>8 DEF CorrelateMac, IdentityInv, InventoryTypeOK, Nothing
  <2>3. asset' = asset /\ Present' = Present
    BY <2>1 DEF rows, Present
  <2>4. Next1(r)' = Next1(r)
    BY <2>1 DEF Next1
  <2>5. \A b \in Present : asset[b].mac # NoMac /\ asset[b].mac = m => b = ByMac(m)
    BY ByMacFacts DEF IdentityInv, IdentityUnique
  <2>6. HolderIsFound(r)'
    BY <2>1, <2>2, <2>3, <2>4, <2>5 DEF HolderIsFound
  <2>7. OwnerIsFound(r)'
    BY <2>1 DEF OwnerIsFound
  <2> QED BY <1>6, <2>1, <2>6, <2>7
<1>9. ASSUME NEW r \in Requests, CorrelateAddresses(r) PROVE SerialInv'
  <2> DEFINE o == Next1(r)
             S == {owner[x] : x \in AddressesIn(o)}
  <2>1. /\ session[r].step = "mac" /\ session'[r].step = "correlated"
        /\ session'[r].todo = session[r].todo
        /\ \A q \in Requests : q # r => session'[q] = session[q] /\ loaded'[q] = loaded[q]
        /\ rows' = rows /\ Load(r, S)
    BY <1>9 DEF CorrelateAddresses, IdentityInv, InventoryTypeOK, Session, rows, Load
  <2>2. found'[r] = Correlation(found[r].mac, o)
    BY <1>9 DEF CorrelateAddresses, IdentityInv, InventoryTypeOK
  <2>3. asset' = asset /\ owner' = owner /\ Present' = Present
    BY <2>1 DEF rows, Present
  <2>4. Next1(r)' = o
    BY <2>1 DEF Next1
  <2>5. /\ found[r].mac # NoAsset => found'[r].asset = found[r].mac
        /\ found'[r].blocked = {x \in AddressesIn(o) : owner[x] \notin {NoAsset, found'[r].asset}}
    BY <2>2 DEF Correlation
  <2>6. \A b \in Present : asset[b].mac # NoMac /\ asset[b].mac = o.mac => b = found[r].mac
    BY <1>2, <2>1 DEF SerialInv, HolderIsFound
  <2>7. NoAsset \notin Present
    BY InventoryConstants DEF Present
  <2> HIDE DEF o
  <2>8. HolderIsFound(r)'
    BY <2>1, <2>3, <2>4, <2>5, <2>6, <2>7 DEF HolderIsFound
  <2>9. OwnerIsFound(r)'
    <3>1. AddressesIn(Next1(r))' = AddressesIn(o)
      BY <2>4 DEF AddressesIn
    <3> QED BY <2>3, <2>5, <3>1 DEF OwnerIsFound
  <2> QED BY <1>6, <2>1, <2>8, <2>9
<1>10. ASSUME NEW r \in Requests, ReadAll(r) PROVE SerialInv'
  <2>1. /\ session[r].step = "open" /\ session'[r].step = "loaded"
        /\ \A q \in Requests : q # r => session'[q] = session[q] /\ loaded'[q] = loaded[q]
        /\ rows' = rows /\ Load(r, Present)
    BY <1>10 DEF ReadAll, IdentityInv, InventoryTypeOK, Session, rows, Load
  <2>2. HolderIsFound(r)' /\ OwnerIsFound(r)'
    BY <2>1 DEF HolderIsFound, OwnerIsFound
  <2> QED BY <1>6, <2>1, <2>2
<1>11. ASSUME NEW r \in Requests, UpsertIdentity(r) \/ UpsertNmapHost(r) PROVE SerialInv'
  <2>1. PICK a \in Targets(r), new \in Row, notes \in SUBSET noted' :
               /\ new.state # "absent" /\ Put(r, a, Next1(r), new, notes)
               /\ new.mac = IF found[r].asset = NoAsset THEN Next1(r).mac
                            ELSE IF TakesMac(a, loaded[r][a], Next1(r).mac) THEN Next1(r).mac
                            ELSE loaded[r][a].mac
    BY <1>11, WriteShape
  <2>2. a \in Assets /\ asset'[a] = new
    BY <1>2, <2>1, SerialWrite
  <2>3. /\ \A b \in Assets : b # a => asset'[b] = asset[b] /\ loaded'[r][b] = loaded[r][b]
        /\ loaded'[r][a] = new
        /\ \A q \in Requests : q # r => loaded'[q] = loaded[q]
    BY <2>1, <2>2 DEF Put, IdentityInv, InventoryTypeOK
  <2>4. /\ session[r].step = "correlated" /\ session'[r].step = "open"
        /\ \A q \in Requests : q # r => session'[q] = session[q]
    <3>1. Written(r)
      BY <1>11, WriteShape
    <3>2. session[r] \in Session /\ session[r].step = "correlated"
      BY <3>1 DEF Written, IdentityInv, InventoryTypeOK
    <3>3. session' = [session EXCEPT ![r] =
                         [session[r] EXCEPT !.step = "open", !.todo = Tail(session[r].todo)]]
      BY <3>1, <3>2 DEF Written, IdentityInv, InventoryTypeOK, Session
    <3> QED BY <3>2, <3>3 DEF IdentityInv, InventoryTypeOK, Session
  <2>5. session[r] # Idle /\ session'[r] # Idle
    BY <2>4 DEF Idle
  <2>6. HolderIsFound(r)' /\ OwnerIsFound(r)'
    BY <2>4 DEF HolderIsFound, OwnerIsFound
  <2>7. \A b \in Assets : loaded[r][b] \in {NoRow, asset[b]}
    BY <1>2 DEF SerialInv
  <2>8. \A b \in Assets : loaded'[r][b] \in {NoRow, asset'[b]}
    BY <2>2, <2>3, <2>7
  <2> QED BY <1>2, <2>3, <2>4, <2>5, <2>6, <2>8, SerialMove
<1>12. ASSUME NEW r \in Requests,
              InsertRefused(r) \/ Abandon(r) \/ CommitScan(r) \/ CommitClasses(r)
       PROVE  SerialInv'
  <2>1. Close(r)
    BY <1>12 DEF InsertRefused, Abandon, CommitScan, CommitClasses
  <2>2. session[r].step # "idle" \/ session[r] # Idle
    BY <1>12 DEF InsertRefused, Abandon, CommitScan, CommitClasses
  <2>3. session[r] # Idle
    BY <2>2 DEF Idle
  <2> QED BY <1>5, <2>1, <2>3
<1>13. ASSUME NEW d \in PassiveDocs, StorePassive(d) PROVE SerialInv'
  BY <1>3, <1>13 DEF StorePassive
<1>14. ASSUME UNCHANGED inventoryVars PROVE SerialInv'
  BY <1>3, <1>14 DEF inventoryVars
<1>15. ASSUME NEW r \in Requests,
              StartPassive(r) \/ (\E d \in ScanDocs : StartScan(r, d)) \/ StartRefresh(r)
       PROVE  SerialInv'
  BY <1>4, <1>15 DEF StartPassive, StartScan, StartRefresh
<1> QED
  BY <1>7, <1>8, <1>9, <1>10, <1>11, <1>12, <1>13, <1>14, <1>15 DEF InventoryNext

\* The first state: no request has a session.
LEMMA SerialBegins == InventoryInit => SerialInv
<1>1. Idle.step = "idle"
  BY DEF Idle
<1> QED BY <1>1 DEF InventoryInit, SerialInv, OneSession, HolderIsFound, OwnerIsFound

\* Both invariants hold in every behaviour.
LEMMA SerialAlways == InventorySpec => [](IdentityInv /\ SerialInv)
BY IdentityBegins, IdentityStep, SerialBegins, SerialStep, PTL DEF InventorySpec

\* What one step does to the identity of assets and to the conflicts kept.
LEMMA StableStep ==
  ASSUME IdentityInv, SerialInv, [InventoryNext]_inventoryVars
  PROVE  /\ serial' = serial
         /\ noted \subseteq noted'
         /\ \A x \in Addresses : owner[x] # NoAsset => owner'[x] = owner[x]
         /\ \A a \in Assets : serial /\ asset[a].mac # NoMac => asset'[a].mac = asset[a].mac
<1>1. CASE rows' = rows /\ serial' = serial
  BY <1>1 DEF rows
<1>2. ASSUME NEW r \in Requests, UpsertIdentity(r) \/ UpsertNmapHost(r)
      PROVE  /\ serial' = serial
             /\ noted \subseteq noted'
             /\ \A x \in Addresses : owner[x] # NoAsset => owner'[x] = owner[x]
             /\ \A a \in Assets : serial /\ asset[a].mac # NoMac => asset'[a].mac = asset[a].mac
  <2>1. serial' = serial
    BY <1>2, WriteShape
  <2>2. PICK a \in Targets(r), new \in Row, notes \in SUBSET noted' :
               /\ Put(r, a, Next1(r), new, notes)
               /\ new.mac = IF found[r].asset = NoAsset THEN Next1(r).mac
                            ELSE IF TakesMac(a, loaded[r][a], Next1(r).mac) THEN Next1(r).mac
                            ELSE loaded[r][a].mac
    BY <1>2, WriteShape
  <2>3. \A x \in Addresses : owner[x] # NoAsset => owner'[x] = owner[x]
    BY <2>2 DEF Put, Assigned
  <2>4. noted \subseteq noted'
    BY <2>2 DEF Put
  <2>5. ASSUME NEW b \in Assets, serial, asset[b].mac # NoMac
        PROVE  asset'[b].mac = asset[b].mac
    <3>1. CASE b = a
      BY <2>2, <2>5, <3>1, SerialWrite
    <3>2. CASE b # a
      BY <2>2, <3>2 DEF Put, IdentityInv, InventoryTypeOK
    <3> QED BY <3>1, <3>2
  <2> QED BY <2>1, <2>3, <2>4, <2>5
<1>3. ASSUME NEW r \in Requests, CommitClasses(r)
      PROVE  /\ serial' = serial /\ owner' = owner /\ noted' = noted
             /\ \A a \in Assets : asset'[a].mac = asset[a].mac
  <2>1. ASSUME NEW a \in Assets PROVE asset'[a].mac = asset[a].mac
    <3> DEFINE old == loaded[r][a]
               new == [old EXCEPT !.class =
                          Class(old, collected[r][a].ports, collected[r][a].sources)]
    <3>1. old \in Row /\ asset[a] \in Row
      BY DEF IdentityInv, InventoryTypeOK
    <3>2. new.mac = old.mac
      BY <3>1 DEF Row
    <3>3. asset'[a] = IF collected[r][a].loaded THEN Flush(asset[a], old, new) ELSE asset[a]
      BY <1>3 DEF CommitClasses
    <3> HIDE DEF old, new
    <3> QED BY <3>2, <3>3 DEF Flush
  <2> QED BY <1>3, <2>1 DEF CommitClasses
<1>4. ASSUME NEW r \in Requests, NEW kind, NEW doc, Begin(r, kind, doc)
      PROVE  rows' = rows /\ serial' = serial
  BY <1>4 DEF Begin
<1>5. ASSUME NEW r \in Requests,
             \/ StartPassive(r) \/ (\E d \in ScanDocs : StartScan(r, d)) \/ StartRefresh(r)
             \/ SkipHost(r) \/ CorrelateMac(r) \/ CorrelateAddresses(r) \/ InsertRefused(r)
             \/ Abandon(r) \/ CommitScan(r) \/ ReadAll(r)
      PROVE  rows' = rows /\ serial' = serial
  BY <1>4, <1>5 DEF StartPassive, StartScan, StartRefresh, SkipHost, CorrelateMac,
                    CorrelateAddresses, InsertRefused, Abandon, CommitScan, ReadAll
<1>6. ASSUME UNCHANGED inventoryVars \/ \E d \in PassiveDocs : StorePassive(d)
      PROVE  rows' = rows /\ serial' = serial
  BY <1>6 DEF inventoryVars, StorePassive
<1> QED BY <1>1, <1>2, <1>3, <1>5, <1>6 DEF InventoryNext

\* Ingestions never move an address to another asset and, one request at a
\* time, never give an asset another MAC address, however often and in which
\* order the same and conflicting evidence is ingested (_correlate,
\* _upsert_identity, _upsert_address).
THEOREM IdentityIsStable == InventorySpec => IdentityStable
<1>1. IdentityInv /\ SerialInv /\ [InventoryNext]_inventoryVars =>
        [ /\ \A x \in Addresses : owner[x] # NoAsset => owner'[x] = owner[x]
          /\ \A a \in Assets : serial /\ asset[a].mac # NoMac =>
                                asset'[a].mac = asset[a].mac ]_inventoryVars
  BY StableStep
<1> QED BY <1>1, SerialAlways, PTL DEF InventorySpec, IdentityStable

\* What is kept stays kept.
LEMMA KeptStays ==
  ASSUME Evidence, IdentityInv, NEW p \in Macs \X Addresses, Kept(p), serial,
         noted \subseteq noted',
         \A x \in Addresses : owner[x] # NoAsset => owner'[x] = owner[x],
         \A a \in Assets : serial /\ asset[a].mac # NoMac => asset'[a].mac = asset[a].mac
  PROVE  Kept(p)'
<1>1. p[1] \in Macs /\ p[1] # NoMac /\ p[2] \in Addresses
  BY InventoryConstants
<1>2. CASE owner[p[2]] # NoAsset /\ asset[owner[p[2]]].mac = p[1]
  <2>1. owner[p[2]] \in Assets
    BY <1>1, <1>2 DEF IdentityInv, InventoryTypeOK, Present
  <2> QED BY <1>1, <1>2, <2>1 DEF Kept
<1>3. ASSUME NEW n \in noted, n.type = "identity_conflict" /\ p[2] \in n.about
      PROVE  Kept(p)'
  BY <1>3 DEF Kept
<1>4. ASSUME NEW n \in noted, n.type = "mac_conflict", n.asset = owner[p[2]], n.about = {p[1]}
      PROVE  Kept(p)'
  <2>1. owner[p[2]] # NoAsset
    BY <1>4, InventoryConstants DEF Evidence
  <2> QED BY <1>1, <1>4, <2>1 DEF Kept
<1> QED BY <1>2, <1>3, <1>4 DEF Kept

\* What a host of a scan says is kept when it is written.
LEMMA ReportKept ==
  ASSUME IdentityInv, SerialInv, serial, NEW r \in Requests, UpsertNmapHost(r),
         NEW p \in Pairs(Next1(r))
  PROVE  p \in Macs \X Addresses /\ Kept(p)'
<1> DEFINE o == Next1(r)
<1>1. session[r].step = "correlated" /\ session[r].kind = "scan"
  BY DEF UpsertNmapHost, Written
<1>2. o.mac \in Macs \cup {NoMac} /\ AddressesIn(o) \subseteq Addresses
  BY <1>1, NextFacts DEF IdentityInv
<1>3. o.mac # NoMac /\ p[1] = o.mac /\ p[2] \in AddressesIn(o) /\ p = <<p[1], p[2]>>
  BY DEF Pairs
<1> SUFFICES Kept(p)'
  BY <1>2, <1>3
<1>4. PICK a \in Targets(r), new \in Row, notes \in SUBSET noted' :
               /\ Put(r, a, o, new, notes)
               /\ new.mac = IF found[r].asset = NoAsset THEN o.mac
                            ELSE IF TakesMac(a, loaded[r][a], o.mac) THEN o.mac
                            ELSE loaded[r][a].mac
               /\ notes = HostNotes(a, OldRow(r, a), o)
  BY WriteShape
<1>5. a \in Assets /\ OldRow(r, a) = asset[a] /\ asset'[a] = new
  BY <1>4, SerialWrite
<1>6. /\ noted' = noted \cup IdentityNotes(a, o, found[r].blocked) \cup notes
      /\ owner' = Assigned(a, o, found[r].blocked)
  BY <1>4 DEF Put
<1>7. CASE p[2] \in found[r].blocked
  <2> DEFINE n == Note("identity_conflict", a, found[r].blocked)
  <2>1. n \in noted' /\ n.type = "identity_conflict" /\ p[2] \in n.about
    BY <1>6, <1>7 DEF IdentityNotes, Note
  <2> QED BY <2>1 DEF Kept
<1>8. CASE p[2] \notin found[r].blocked
  <2>1. owner[p[2]] \in {NoAsset, found[r].asset}
    BY <1>1, <1>3, <1>8 DEF SerialInv, OwnerIsFound
  <2>2. found[r].asset # NoAsset => a = found[r].asset
    BY DEF Targets
  <2>3. owner'[p[2]] = a /\ a # NoAsset
    BY <1>2, <1>3, <1>5, <1>6, <1>8, <2>1, <2>2, InventoryConstants DEF Assigned
  <2>4. CASE new.mac = o.mac
    BY <1>3, <1>5, <2>3, <2>4 DEF Kept
  <2>5. CASE new.mac # o.mac
    <3>1. /\ found[r].asset # NoAsset /\ ~TakesMac(a, loaded[r][a], o.mac)
          /\ loaded[r][a] = asset[a] /\ asset[a].mac # o.mac
      BY <1>4, <1>5, <2>5 DEF OldRow
    <3>2. asset[a].mac # NoMac
      <4>1. SUFFICES ASSUME asset[a].mac = NoMac PROVE FALSE
        OBVIOUS
      <4>2. ByMac(o.mac) \notin {NoAsset, a}
        BY <1>3, <3>1, <4>1 DEF TakesMac
      <4>3. ByMac(o.mac) \in Present /\ asset[ByMac(o.mac)].mac = o.mac
        BY <4>2, ByMacFacts
      <4>4. ByMac(o.mac) = found[r].asset
        BY <1>1, <1>3, <4>3 DEF SerialInv, HolderIsFound
      <4> QED BY <2>2, <3>1, <4>2, <4>4
    <3> DEFINE n == Note("mac_conflict", a, {o.mac})
    <3>3. n \in noted'
      BY <1>3, <1>4, <1>5, <1>6, <3>1, <3>2 DEF HostNotes
    <3>4. n.type = "mac_conflict" /\ n.asset = a /\ n.about = {o.mac}
      BY DEF Note
    <3> HIDE DEF n
    <3> QED BY <1>3, <2>3, <3>3, <3>4 DEF Kept
  <2> QED BY <2>4, <2>5
<1> QED BY <1>7, <1>8

\* The conflicts an observation leaves are conflicts of an asset.
LEMMA NotesOfAssets ==
  ASSUME IdentityInv, NEW r \in Requests, UpsertIdentity(r) \/ UpsertNmapHost(r), Evidence
  PROVE  \A n \in noted' : n.asset \in Assets
<1>1. PICK a \in Targets(r), new \in Row, notes \in SUBSET noted' :
               /\ Put(r, a, Next1(r), new, notes)
               /\ notes = {} \/ notes = HostNotes(a, OldRow(r, a), Next1(r))
  BY WriteShape
<1>2. a \in Assets
  BY DEF IdentityInv, Targets, InventoryTypeOK, Present
<1>3. \A n \in notes : n.asset = a
  BY <1>1 DEF HostNotes, Note
<1>4. \A n \in IdentityNotes(a, Next1(r), found[r].blocked) : n.asset = a
  BY DEF IdentityNotes, Note
<1> QED BY <1>1, <1>2, <1>3, <1>4 DEF Put, Evidence

\* One case for the step that reports, one for the others.
LEMMA KeptStep ==
  IdentityInv /\ SerialInv /\ Evidence /\ ScanConflictKept /\ [InventoryNext]_inventoryVars
      => Evidence' /\ ScanConflictKept'
<1> SUFFICES ASSUME IdentityInv, SerialInv, Evidence, ScanConflictKept,
                    [InventoryNext]_inventoryVars
             PROVE  Evidence' /\ ScanConflictKept'
  OBVIOUS
<1>1. /\ serial' = serial /\ noted \subseteq noted'
      /\ \A x \in Addresses : owner[x] # NoAsset => owner'[x] = owner[x]
      /\ \A a \in Assets : serial /\ asset[a].mac # NoMac => asset'[a].mac = asset[a].mac
  BY StableStep
<1>2. serial => \A p \in reported : Kept(p)'
  BY <1>1, KeptStays DEF Evidence, ScanConflictKept
<1>3. CASE reported' = reported /\ noted' = noted
  BY <1>1, <1>2, <1>3 DEF Evidence, ScanConflictKept
<1>4. ASSUME NEW r \in Requests, UpsertIdentity(r) PROVE Evidence' /\ ScanConflictKept'
  <2>1. reported' = reported
    BY <1>4 DEF UpsertIdentity
  <2>2. \A n \in noted' : n.asset \in Assets
    BY <1>4, NotesOfAssets
  <2> QED BY <1>1, <1>2, <2>1, <2>2 DEF Evidence, ScanConflictKept
<1>5. ASSUME NEW r \in Requests, UpsertNmapHost(r) PROVE Evidence' /\ ScanConflictKept'
  <2>1. reported' = reported \cup Pairs(Next1(r))
    BY <1>5 DEF UpsertNmapHost
  <2>2. \A n \in noted' : n.asset \in Assets
    BY <1>5, NotesOfAssets
  <2>3. serial => \A p \in Pairs(Next1(r)) : Kept(p)'
    BY <1>5, ReportKept
  <2>4. Pairs(Next1(r)) \subseteq Macs \X Addresses
    <3>1. session[r].step = "correlated"
      BY <1>5 DEF UpsertNmapHost, Written
    <3>2. Next1(r).mac \in Macs \cup {NoMac} /\ AddressesIn(Next1(r)) \subseteq Addresses
      BY <3>1, NextFacts DEF IdentityInv
    <3> QED BY <3>2 DEF Pairs
  <2> QED BY <1>1, <1>2, <2>1, <2>2, <2>3, <2>4 DEF Evidence, ScanConflictKept
<1>6. ASSUME NEW r \in Requests, NEW kind, NEW doc, Begin(r, kind, doc)
      PROVE  reported' = reported /\ noted' = noted
  BY <1>6 DEF Begin, rows
<1>7. ASSUME NEW r \in Requests,
             \/ StartPassive(r) \/ (\E d \in ScanDocs : StartScan(r, d)) \/ StartRefresh(r)
             \/ SkipHost(r) \/ CorrelateMac(r) \/ CorrelateAddresses(r) \/ InsertRefused(r)
             \/ Abandon(r) \/ CommitScan(r) \/ ReadAll(r) \/ CommitClasses(r)
      PROVE  reported' = reported /\ noted' = noted
  BY <1>6, <1>7 DEF StartPassive, StartScan, StartRefresh, SkipHost, CorrelateMac, rows,
       CorrelateAddresses, InsertRefused, Abandon, CommitScan, ReadAll, CommitClasses
<1>8. ASSUME UNCHANGED inventoryVars \/ \E d \in PassiveDocs : StorePassive(d)
      PROVE  reported' = reported /\ noted' = noted
  BY <1>8 DEF inventoryVars, StorePassive, rows
<1> QED BY <1>3, <1>4, <1>5, <1>7, <1>8 DEF InventoryNext

\* Requests that do not overlap keep every pair of a MAC address and an address
\* a scan reports: the inventory has it, or a conflict names the address or the
\* MAC address (_correlate, _upsert_nmap_host).
THEOREM ScanConflictIsKept == InventorySpec => []ScanConflictKept
<1>1. InventoryInit => Evidence /\ ScanConflictKept
  BY DEF InventoryInit, Evidence, ScanConflictKept
<1> QED BY <1>1, KeptStep, SerialAlways, PTL DEF InventorySpec

-----------------------------------------------------------------------------
\* The class of every asset is the one its rows give.
ClassesRight ==
    \A a \in Present :
        asset[a].class = Class(asset[a], OpenPorts(services[a]), names[a])

\* What ReadAll has put in the identity map of r is what the rows say.
ReadCurrent(r) ==
    \A a \in Assets :
        /\ collected[r][a].loaded <=> a \in Present
        /\ collected[r][a].ports = OpenPorts(services[a])
        /\ collected[r][a].sources = names[a]
        /\ a \in Present => loaded[r][a] = asset[a]

\* Once a passive result is settled, only a passive ingestion that has not
\* committed leaves a class behind; it classifies again from current rows.
ClassInv ==
    serial => /\ settled /\ writer = NoRequest => ClassesRight
              /\ settled /\ writer # NoRequest => session[writer].kind = "passive"
              /\ \A r \in Requests : session[r].step = "loaded" => ReadCurrent(r)

\* A class does not depend on the class the row had.
LEMMA ClassOfClass ==
  ASSUME NEW row \in Row, NEW c, NEW open, NEW sources
  PROVE  Class([row EXCEPT !.class = c], open, sources) = Class(row, open, sources)
<1>1. /\ [row EXCEPT !.class = c].os = row.os
      /\ [row EXCEPT !.class = c].vendor = row.vendor
  BY DEF Row
<1> QED BY <1>1 DEF Class

\* The commit of a refresh writes the class of every asset.
LEMMA CommitClassesRight ==
  ASSUME IdentityInv, NEW r \in Requests, ReadCurrent(r), CommitClasses(r)
  PROVE  ClassesRight'
<1>1. ASSUME NEW a \in Assets, a \in Present
      PROVE  asset'[a] = [asset[a] EXCEPT !.class =
                             Class(asset[a], OpenPorts(services[a]), names[a])]
  <2> DEFINE new == [asset[a] EXCEPT !.class =
                        Class(asset[a], OpenPorts(services[a]), names[a])]
  <2>1. /\ collected[r][a].loaded /\ loaded[r][a] = asset[a]
        /\ collected[r][a].ports = OpenPorts(services[a])
        /\ collected[r][a].sources = names[a]
    BY <1>1 DEF ReadCurrent
  <2>2. asset'[a] = Flush(asset[a], asset[a], new)
    BY <2>1 DEF CommitClasses
  <2>3. asset[a] \in Row
    BY DEF IdentityInv, InventoryTypeOK
  <2>4. new \in Row
    BY <2>3, ClassFacts DEF Row
  <2> HIDE DEF new
  <2>5. asset'[a] = new
    BY <2>2, <2>3, <2>4, FlushFacts
  <2> QED BY <2>5 DEF new
<1>2. ASSUME NEW a \in Assets, a \notin Present PROVE asset'[a] = asset[a]
  <2>1. ~collected[r][a].loaded
    BY <1>2 DEF ReadCurrent
  <2> QED BY <2>1 DEF CommitClasses
<1>3. services' = services /\ names' = names
  BY DEF CommitClasses
<1> SUFFICES ASSUME NEW a \in Assets, asset'[a].state # "absent"
             PROVE  asset'[a].class = Class(asset'[a], OpenPorts(services[a]), names[a])
  BY <1>3 DEF ClassesRight, Present, OpenPorts, Class
<1>4. asset[a] \in Row
  BY DEF IdentityInv, InventoryTypeOK
<1>5. a \in Present
  BY <1>2 DEF Present
<1> DEFINE c == Class(asset[a], OpenPorts(services[a]), names[a])
<1>6. asset'[a] = [asset[a] EXCEPT !.class = c]
  BY <1>1, <1>5
<1>7. c = Class(asset'[a], OpenPorts(services[a]), names[a])
  BY <1>4, <1>6, ClassOfClass
<1> HIDE DEF c
<1>8. asset'[a].class = c
  BY <1>4, <1>6 DEF Row
<1> QED BY <1>7, <1>8

\* A step that writes no row of an asset leaves the classes as they were.
LEMMA ClassesStay ==
  ASSUME UNCHANGED rows
  PROVE  /\ ClassesRight => ClassesRight'
         /\ \A r \in Requests : ReadCurrent(r) /\ loaded'[r] = loaded[r]
                /\ collected'[r] = collected[r] => ReadCurrent(r)'
<1>1. asset' = asset /\ services' = services /\ names' = names
  BY DEF rows
<1>2. Present' = Present /\ \A a : OpenPorts(services[a])' = OpenPorts(services[a])
  BY <1>1 DEF Present, OpenPorts
<1>3. ClassesRight => ClassesRight'
  BY <1>1, <1>2 DEF ClassesRight, Class
<1>4. ASSUME NEW r \in Requests, ReadCurrent(r), loaded'[r] = loaded[r],
             collected'[r] = collected[r]
      PROVE  ReadCurrent(r)'
  BY <1>1, <1>2, <1>4 DEF ReadCurrent
<1> QED BY <1>3, <1>4

\* The lock is free or held by the only request that has a session.
LEMMA LockOfSession ==
  ASSUME IdentityInv, SerialInv, serial, NEW r \in Requests, session[r] # Idle
  PROVE  /\ writer \in {NoRequest, r}
         /\ \A q \in Requests : q # r => session[q] = Idle /\ session[q].step = "idle"
BY DEF IdentityInv, InventoryTypeOK, SerialInv, OneSession, Idle

\* One case per kind of action.
LEMMA ClassStep ==
  IdentityInv /\ SerialInv /\ ClassInv /\ [InventoryNext]_inventoryVars => ClassInv'
<1> SUFFICES ASSUME IdentityInv, SerialInv, ClassInv, [InventoryNext]_inventoryVars
             PROVE  ClassInv'
  OBVIOUS
<1>0. serial' = serial
  BY StableStep
<1> SUFFICES ASSUME serial
             PROVE  /\ settled' /\ writer' = NoRequest => ClassesRight'
                    /\ settled' /\ writer' # NoRequest => session'[writer'].kind = "passive"
                    /\ \A q \in Requests : session'[q].step = "loaded" => ReadCurrent(q)'
  BY <1>0 DEF ClassInv
<1>1. /\ settled /\ writer = NoRequest => ClassesRight
      /\ settled /\ writer # NoRequest => session[writer].kind = "passive"
      /\ \A q \in Requests : session[q].step = "loaded" => ReadCurrent(q)
  BY DEF ClassInv
<1>2. /\ session \in [Requests -> Session] /\ NoRequest \notin Requests
      /\ writer \in Requests \cup {NoRequest}
  BY InventoryConstants DEF IdentityInv, InventoryTypeOK
<1>3. Idle.step = "idle" /\ Idle.kind = "idle"
  BY DEF Idle
<1>4. ASSUME NEW r \in Requests, NEW kind, NEW doc, Begin(r, kind, doc) PROVE ClassInv'
  <2>1. /\ session'[r].step = "open" /\ \A q \in Requests : q # r => session'[q] = session[q]
        /\ UNCHANGED <<rows, loaded, collected, writer, settled>>
    BY <1>2, <1>4 DEF Begin
  <2>2. writer = NoRequest
    BY <1>4 DEF Begin, Alone, IdentityInv, InventoryTypeOK
  <2>3. ASSUME NEW q \in Requests, session'[q].step = "loaded" PROVE ReadCurrent(q)'
    <3>1. q # r
      BY <2>1, <2>3
    <3>2. ReadCurrent(q)
      BY <1>1, <2>1, <2>3, <3>1
    <3> QED BY <2>1, <3>2, ClassesStay
  <2>4. settled' => ClassesRight'
    BY <1>1, <2>1, <2>2, ClassesStay
  <2> QED BY <2>1, <2>2, <2>3, <2>4 DEF ClassInv
<1>5. ASSUME UNCHANGED <<rows, loaded, collected, writer, session>>, settled' => settled
      PROVE  ClassInv'
  <2>1. \A q \in Requests : session'[q].step = "loaded" => ReadCurrent(q)'
    BY <1>1, <1>5, ClassesStay
  <2>2. settled' /\ writer' = NoRequest => ClassesRight'
    BY <1>1, <1>5, ClassesStay
  <2> QED BY <1>1, <1>5, <2>1, <2>2 DEF ClassInv
<1>6. ASSUME NEW r \in Requests, session[r] # Idle, UNCHANGED <<rows, writer, settled>>,
             session'[r].step # "loaded", session'[r].kind = session[r].kind,
             \A q \in Requests : q # r => session'[q] = session[q]
      PROVE  ClassInv'
  <2>1. \A q \in Requests : session'[q].step # "loaded"
    BY <1>6, LockOfSession
  <2>2. settled' /\ writer' = NoRequest => ClassesRight'
    BY <1>1, <1>6, ClassesStay
  <2> QED BY <1>1, <1>2, <1>6, <2>1, <2>2 DEF ClassInv
<1>7. ASSUME NEW r \in Requests, SkipHost(r) \/ CorrelateMac(r) \/ CorrelateAddresses(r)
      PROVE  ClassInv'
  <2>1. /\ session[r].step # "idle" /\ session[r].step # "loaded"
        /\ UNCHANGED <<rows, writer, settled>>
    BY <1>7 DEF SkipHost, CorrelateMac, CorrelateAddresses
  <2>2. /\ session'[r].step # "loaded" /\ session'[r].kind = session[r].kind
        /\ \A q \in Requests : q # r => session'[q] = session[q]
    <3>1. CASE SkipHost(r)
      BY <1>2, <2>1, <3>1 DEF SkipHost, Session
    <3>2. CASE CorrelateMac(r)
      BY <1>2, <3>2 DEF CorrelateMac, Session
    <3>3. CASE CorrelateAddresses(r)
      BY <1>2, <3>3 DEF CorrelateAddresses, Session
    <3> QED BY <1>7, <3>1, <3>2, <3>3
  <2> QED BY <1>3, <1>6, <2>1, <2>2
<1>8. ASSUME NEW r \in Requests, InsertRefused(r) \/ Abandon(r) \/ CommitScan(r)
      PROVE  ClassInv'
  <2>1. Close(r) /\ UNCHANGED <<rows, settled>> /\ session[r] # Idle
    BY <1>3, <1>8 DEF InsertRefused, Abandon, CommitScan
  <2>2. writer = r => session[r].kind # "passive"
    BY <1>2, <1>8 DEF InsertRefused, Abandon, CommitScan
  <2>3. writer \in {NoRequest, r}
    BY <2>1, LockOfSession
  <2>4. settled => writer = NoRequest
    BY <1>1, <1>2, <2>2, <2>3
  <2>5. writer' = NoRequest
    BY <2>1, <2>3 DEF Close
  <2>6. \A q \in Requests : session'[q].step # "loaded"
    BY <1>2, <1>3, <2>1, LockOfSession DEF Close
  <2>7. settled' => ClassesRight'
    BY <1>1, <2>1, <2>4, ClassesStay
  <2> QED BY <2>5, <2>6, <2>7 DEF ClassInv
<1>9. ASSUME NEW r \in Requests, UpsertIdentity(r) \/ UpsertNmapHost(r) PROVE ClassInv'
  <2>1. Written(r)
    BY <1>9, WriteShape
  <2>2. /\ session[r].step = "correlated" /\ session[r] # Idle /\ writer' = r
        /\ session'[r].step = "open" /\ session'[r].kind = session[r].kind
        /\ \A q \in Requests : q # r => session'[q] = session[q]
    BY <1>2, <1>3, <2>1 DEF Written, Session
  <2>3. \A q \in Requests : session'[q].step # "loaded"
    BY <1>2, <2>2, LockOfSession
  <2>4. settled' => session'[r].kind = "passive"
    BY <1>9, <2>2 DEF UpsertIdentity, UpsertNmapHost
  <2> QED BY <1>2, <2>2, <2>3, <2>4 DEF ClassInv
<1>10. ASSUME NEW r \in Requests, ReadAll(r) PROVE ClassInv'
  <2>1. /\ session[r].step = "open" /\ session[r] # Idle
        /\ session'[r].kind = session[r].kind
        /\ \A q \in Requests : q # r => session'[q] = session[q]
        /\ UNCHANGED <<rows, writer, settled>>
    BY <1>2, <1>3, <1>10 DEF ReadAll, Session
  <2>2. \A q \in Requests : q # r => session'[q].step # "loaded"
    BY <2>1, LockOfSession
  <2>3. ReadCurrent(r)'
    <3>1. asset' = asset /\ services' = services /\ names' = names /\ Present' = Present
      BY <2>1 DEF rows, Present
    <3>2. \A a : OpenPorts(services[a])' = OpenPorts(services[a])
      BY <3>1 DEF OpenPorts
    <3>3. ASSUME NEW a \in Assets
          PROVE  /\ collected'[r][a].loaded <=> a \in Present
                 /\ collected'[r][a].ports = OpenPorts(services[a])
                 /\ collected'[r][a].sources = names[a]
      BY <1>10 DEF ReadAll, IdentityInv, InventoryTypeOK
    <3>4. ASSUME NEW a \in Assets, a \in Present PROVE loaded'[r][a] = asset[a]
      <4>1. loaded'[r][a] = IF loaded[r][a] = NoRow THEN asset[a] ELSE loaded[r][a]
        BY <1>10, <3>4 DEF ReadAll, Load, IdentityInv, InventoryTypeOK
      <4>2. loaded[r][a] = NoRow \/ loaded[r][a] = asset[a]
        BY DEF SerialInv
      <4> QED BY <4>1, <4>2
    <3> QED BY <3>1, <3>2, <3>3, <3>4 DEF ReadCurrent
  <2>4. settled' /\ writer' = NoRequest => ClassesRight'
    BY <1>1, <2>1, ClassesStay
  <2>5. settled' /\ writer' # NoRequest => session'[writer'].kind = "passive"
    BY <1>1, <1>2, <2>1
  <2> QED BY <2>2, <2>3, <2>4, <2>5 DEF ClassInv
<1>11. ASSUME NEW r \in Requests, CommitClasses(r) PROVE ClassInv'
  <2>1. Close(r) /\ session[r].step = "loaded" /\ session[r] # Idle
    BY <1>3, <1>11 DEF CommitClasses
  <2>2. ClassesRight'
    BY <1>1, <1>11, <2>1, CommitClassesRight
  <2>3. writer' = NoRequest
    BY <2>1, LockOfSession DEF Close
  <2>4. \A q \in Requests : session'[q].step # "loaded"
    BY <1>2, <1>3, <2>1, LockOfSession DEF Close
  <2> QED BY <2>2, <2>3, <2>4 DEF ClassInv
<1>12. ASSUME UNCHANGED inventoryVars \/ \E d \in PassiveDocs : StorePassive(d)
       PROVE  ClassInv'
  <2>1. UNCHANGED <<rows, loaded, collected, writer, session>>
    BY <1>12 DEF inventoryVars, StorePassive
  <2>2. settled' = settled \/ settled' = FALSE
    BY <1>12 DEF inventoryVars, StorePassive
  <2> QED BY <1>5, <2>1, <2>2
<1>13. ASSUME NEW r \in Requests,
              StartPassive(r) \/ (\E d \in ScanDocs : StartScan(r, d)) \/ StartRefresh(r)
       PROVE  ClassInv'
  BY <1>4, <1>13 DEF StartPassive, StartScan, StartRefresh
<1>14. ClassInv'
  BY <1>7, <1>8, <1>9, <1>10, <1>11, <1>12, <1>13 DEF InventoryNext
<1> QED BY <1>0, <1>14 DEF ClassInv

\* After a passive ingestion the class of every asset is the one classify_device
\* gives for its rows, however scans, refreshes and passive ingestions that do
\* not overlap follow each other: a scan ends the settled time, and a passive
\* ingestion reads every row again before it commits (_refresh_classifications).
THEOREM ClassesAreCurrent == InventorySpec => []ClassCurrent
<1>1. InventoryInit => ClassInv
  BY DEF InventoryInit, ClassInv, Idle
<1>2. ClassInv => ClassCurrent
  BY DEF ClassInv, ClassCurrent, ClassesRight
<1> QED BY <1>1, <1>2, ClassStep, SerialAlways, PTL DEF InventorySpec

-----------------------------------------------------------------------------
\* A set of numbers that is not empty has a least one.
LEMMA LeastOf ==
  ASSUME NEW S \in SUBSET Nat, S # {}
  PROVE  \E n \in S : \A m \in S : n <= m
<1> DEFINE R == OpToRel(<, Nat)
<1>1. IsWellFoundedOn(R, Nat)
  BY NatLessThanWellFounded
<1>2. PICK n \in S : \A y \in S : ~(<<y, n>> \in R)
  <2> HIDE DEF R
  <2> QED BY <1>1, WFMin
<1>3. ASSUME NEW m \in S PROVE n <= m
  <2>1. m \in Nat /\ n \in Nat
    OBVIOUS
  <2>2. <<m, n>> \notin R
    BY <1>2
  <2>3. ~(m < n)
    BY <2>1, <2>2 DEF OpToRel
  <2> QED BY <2>1, <2>3
<1> QED BY <1>3

\* The asset an observation belongs to.
AssetOf(o) == IF ByMac(o.mac) # NoAsset THEN ByMac(o.mac) ELSE ByAddress(o)

\* An observation that would change nothing: its addresses have owners, and its
\* asset exists, is at least observed and takes no MAC address from it.
Absorbed(o) ==
    /\ \A x \in AddressesIn(o) : owner[x] # NoAsset
    /\ AssetOf(o) # NoAsset
    /\ asset[AssetOf(o)].state \in {"observed", "responsive"}
    /\ o.mac # NoMac => asset[AssetOf(o)].mac # NoMac

\* What a request has found is what it would find now.
FoundCurrent(r) ==
    /\ session[r].step = "mac" => found[r].mac = ByMac(Next1(r).mac)
    /\ session[r].step = "correlated" =>
           found[r] = Correlation(ByMac(Next1(r).mac), Next1(r))

\* The observations of the latest result, and those a request has to write.
Listed(o) == \E i \in DOMAIN passive : passive[i] = o
Pending(r, o) == \E k \in DOMAIN session[r].todo : session[r].todo[k] = o

\* A passive ingestion reads the latest result, and has absorbed what it does
\* not still have to write.
Progress(r) ==
    session[r].kind = "passive" =>
        /\ session[r].doc = passive
        /\ session[r].step = "loaded" => session[r].todo = <<>>
        /\ \A o \in Observation : /\ Pending(r, o) => Listed(o)
                                  /\ Listed(o) => Absorbed(o) \/ Pending(r, o)
AllAbsorbed == \A o \in Observation : Listed(o) => Absorbed(o)

SettledInv ==
    serial => /\ \A r \in Requests : FoundCurrent(r)
              /\ Identified(passive) =>
                    /\ settled => AllAbsorbed
                    /\ \A r \in Requests : Progress(r)

\* An observation none of whose addresses leads to an asset.
LEMMA NoAddressKnown ==
  ASSUME NEW o, o.addresses \in Seq(Addresses), ByAddress(o) = NoAsset
  PROVE  \A x \in AddressesIn(o) : owner[x] = NoAsset
<1> DEFINE S == {i \in DOMAIN o.addresses : owner[o.addresses[i]] # NoAsset}
<1>1. S \in SUBSET Nat
  OBVIOUS
<1>2. CASE S = {}
  BY <1>2 DEF AddressesIn
<1>3. CASE S # {}
  <2>1. PICK n \in S : \A m \in S : n <= m
    BY <1>1, <1>3, LeastOf
  <2>2. FirstKnown(o, n)
    BY <2>1 DEF FirstKnown
  <2>3. \E i \in DOMAIN o.addresses : FirstKnown(o, i)
    BY <2>2
  <2>4. FirstKnown(o, CHOOSE i \in DOMAIN o.addresses : FirstKnown(o, i))
    BY <2>3
  <2>5. ByAddress(o) # NoAsset
    BY <2>3, <2>4 DEF ByAddress, FirstKnown
  <2> QED BY <2>5
<1> QED BY <1>2, <1>3

\* The asset that owns the first address, once they all have owners.
LEMMA FirstAddress ==
  ASSUME NEW o, o.addresses \in Seq(Addresses), \A x \in AddressesIn(o) : owner[x] # NoAsset
  PROVE  ByAddress(o) = IF o.addresses = <<>> THEN NoAsset ELSE owner[o.addresses[1]]
<1>1. \A i \in DOMAIN o.addresses : owner[o.addresses[i]] # NoAsset
  BY DEF AddressesIn
<1>2. \A i \in DOMAIN o.addresses : FirstKnown(o, i) <=> i = 1
  BY <1>1 DEF FirstKnown
<1>3. o.addresses # <<>> => 1 \in DOMAIN o.addresses
  OBVIOUS
<1> QED BY <1>2, <1>3 DEF ByAddress
LEMMA FirstAddressNext ==
  ASSUME NEW o, o.addresses \in Seq(Addresses), \A x \in AddressesIn(o) : owner'[x] # NoAsset
  PROVE  ByAddress(o)' = IF o.addresses = <<>> THEN NoAsset ELSE owner'[o.addresses[1]]
<1>1. \A i \in DOMAIN o.addresses : owner'[o.addresses[i]] # NoAsset
  BY DEF AddressesIn
<1> DEFINE F(i) == FirstKnown(o, i)'
<1>2. \A i \in DOMAIN o.addresses : F(i) <=> i = 1
  BY <1>1 DEF FirstKnown
<1>3. o.addresses # <<>> => 1 \in DOMAIN o.addresses
  OBVIOUS
<1>4. ByAddress(o)' = IF \E i \in DOMAIN o.addresses : F(i)
                      THEN owner'[o.addresses[CHOOSE i \in DOMAIN o.addresses : F(i)]]
                      ELSE NoAsset
  BY DEF ByAddress
<1> HIDE DEF F
<1> QED BY <1>2, <1>3, <1>4

\* What a lookup by MAC address tells after a step.
LEMMA ByMacNext ==
  ASSUME NEW m, IdentityUnique'
  PROVE  /\ ByMac(m)' # NoAsset => /\ ByMac(m)' \in Present'
                                   /\ asset'[ByMac(m)'].mac = m /\ m # NoMac
         /\ \A a \in Present' : asset'[a].mac = m /\ m # NoMac => ByMac(m)' = a
BY InventoryConstants DEF ByMac, Present, IdentityUnique

\* A step that keeps owners and MAC addresses, and leaves every asset whose
\* state or MAC address it changes at least observed, undoes no observation.
Keeps ==
    /\ \A x \in Addresses : owner[x] # NoAsset => owner'[x] = owner[x]
    /\ \A a \in Assets :
          /\ asset[a].mac # NoMac => asset'[a].mac = asset[a].mac
          /\ \/ asset'[a].mac = asset[a].mac /\ asset'[a].state = asset[a].state
             \/ asset'[a].state \in {"observed", "responsive"}
StillAbsorbed(o) == Absorbed(o)'
LEMMA AbsorbedStays ==
  ASSUME IdentityInv, IdentityInv', Keeps, NEW o \in Observation, Absorbed(o)
  PROVE  StillAbsorbed(o)
<1>1. /\ o.addresses \in Seq(Addresses) /\ AddressesIn(o) \subseteq Addresses
      /\ o.mac \in Macs \cup {NoMac}
  BY DEF Observation, AddressesIn
<1>2. \A x \in AddressesIn(o) : owner[x] # NoAsset /\ owner'[x] = owner[x]
  BY <1>1 DEF Absorbed, Keeps
<1>3. ByAddress(o)' = ByAddress(o)
  <2>1. o.addresses # <<>> => o.addresses[1] \in AddressesIn(o)
    BY <1>1 DEF AddressesIn
  <2> QED BY <1>1, <1>2, <2>1, FirstAddress, FirstAddressNext
<1>4. NoAsset \notin Assets /\ Present \subseteq Assets /\ Present' \subseteq Assets
  BY InventoryConstants DEF Present
<1>5. Present \subseteq Present'
  BY DEF Present, Keeps
<1>6. IdentityUnique' /\ Blank
  BY DEF IdentityInv
<1> DEFINE a == AssetOf(o)
           b == AssetOf(o)'
<1>7. a # NoAsset /\ asset[a].state \in {"observed", "responsive"}
      /\ (o.mac # NoMac => asset[a].mac # NoMac)
  BY DEF Absorbed
<1>8. a \in Assets
  <2>1. CASE ByMac(o.mac) # NoAsset
    BY <1>4, <2>1, ByMacFacts DEF AssetOf
  <2>2. CASE ByMac(o.mac) = NoAsset
    BY <1>1, <1>4, <1>7, <2>2, ByAddressFacts DEF AssetOf, IdentityInv, InventoryTypeOK
  <2> QED BY <2>1, <2>2
<1>9. CASE ByMac(o.mac)' # NoAsset /\ ByMac(o.mac) = NoAsset
  <2> DEFINE c == ByMac(o.mac)'
  <2>1. c \in Present' /\ asset'[c].mac = o.mac /\ o.mac # NoMac /\ b = c
    BY <1>6, <1>9, ByMacNext DEF AssetOf
  <2>2. asset[c].mac # o.mac
    <3>1. CASE c \in Present
      BY <1>9, <2>1, <3>1, ByMacFacts
    <3>2. CASE c \notin Present
      BY <1>4, <1>6, <2>1, <3>2, NoRowColumns DEF Blank
    <3> QED BY <3>1, <3>2
  <2> HIDE DEF c
  <2>3. asset'[c].state \in {"observed", "responsive"}
    BY <1>4, <2>1, <2>2 DEF Keeps
  <2>4. c # NoAsset
    BY <1>4, <2>1
  <2> HIDE DEF b
  <2> QED BY <1>2, <2>1, <2>3, <2>4 DEF StillAbsorbed, Absorbed, b
<1>10. CASE ~(ByMac(o.mac)' # NoAsset /\ ByMac(o.mac) = NoAsset)
  <2>1. b = a
    <3>1. CASE ByMac(o.mac) # NoAsset
      <4>1. a \in Present' /\ asset[a].mac = o.mac /\ o.mac # NoMac
        BY <1>5, <3>1, ByMacFacts DEF AssetOf
      <4>2. asset'[a].mac = o.mac
        BY <1>8, <4>1 DEF Keeps
      <4>3. ByMac(o.mac)' = a
        BY <1>6, <4>1, <4>2, ByMacNext
      <4> QED BY <1>7, <4>3 DEF AssetOf
    <3>2. CASE ByMac(o.mac) = NoAsset
      BY <1>3, <1>10, <3>2 DEF AssetOf
    <3> QED BY <3>1, <3>2
  <2>2. asset'[a].state \in {"observed", "responsive"}
    BY <1>7, <1>8 DEF Keeps
  <2>3. o.mac # NoMac => asset'[a].mac # NoMac
    BY <1>7, <1>8 DEF Keeps
  <2> HIDE DEF a, b
  <2> QED BY <1>2, <1>7, <2>1, <2>2, <2>3 DEF StillAbsorbed, Absorbed, b
<1> QED BY <1>9, <1>10

\* The object a passive observation leaves, where requests do not overlap.
LEMMA IdentityWrite ==
  ASSUME IdentityInv, SerialInv, serial, NEW r \in Requests, UpsertIdentity(r)
  PROVE  \E a \in Targets(r) : \E new \in Row :
            /\ a \in Assets
            /\ owner' = Assigned(a, Next1(r), found[r].blocked)
            /\ \A b \in Assets : b # a => asset'[b] = asset[b]
            /\ asset'[a] = new
            /\ new.state \in {"observed", "responsive"}
            /\ found[r].asset = NoAsset => new.mac = Next1(r).mac
            /\ found[r].asset # NoAsset =>
                  /\ a = found[r].asset
                  /\ new.state = MergeState(asset[a].state, "observed")
                  /\ new.mac = IF TakesMac(a, asset[a], Next1(r).mac)
                               THEN Next1(r).mac ELSE asset[a].mac
<1> DEFINE o == Next1(r)
<1>1. session[r].step = "correlated" /\ session[r].kind = "passive"
  BY DEF UpsertIdentity, Written
<1>2. o.mac \in Macs \cup {NoMac}
  BY <1>1, NextFacts DEF IdentityInv
<1>3. Vendor(o.mac) \in VendorFamily /\ "observed" \in AssetState
  BY <1>2, InventoryConstants DEF Vendor, VendorFamily, AssetState
<1> HIDE DEF o
<1>4. PICK a \in Targets(r) : Put(r, a, o, Touched(r, a, o.mac, "observed", Vendor(o.mac)), {})
  BY DEF UpsertIdentity, o
<1> DEFINE new == Touched(r, a, o.mac, "observed", Vendor(o.mac))
<1>5. /\ a \in Assets /\ new \in Row
      /\ new.mac = IF found[r].asset = NoAsset THEN o.mac
                   ELSE IF TakesMac(a, loaded[r][a], o.mac) THEN o.mac ELSE loaded[r][a].mac
  BY <1>2, <1>3, TouchedFacts DEF IdentityInv
<1>6. Put(r, a, Next1(r), new, {})
  BY <1>4 DEF o
<1>7. OldRow(r, a) = asset[a] /\ asset'[a] = new
  <2> HIDE DEF new
  <2> QED BY <1>5, <1>6, SerialWrite DEF o
<1>8. /\ owner' = Assigned(a, o, found[r].blocked)
      /\ \A b \in Assets : b # a => asset'[b] = asset[b]
  BY <1>4, <1>5 DEF Put, IdentityInv, InventoryTypeOK
<1>9. CASE found[r].asset = NoAsset
  <2>1. new.state = "observed"
    BY <1>9 DEF Touched, NoRow
  <2> HIDE DEF new
  <2> QED BY <1>5, <1>7, <1>8, <1>9, <2>1 DEF o
<1>10. CASE found[r].asset # NoAsset
  <2>1. a = found[r].asset /\ loaded[r][a] = asset[a]
    BY <1>7, <1>10 DEF Targets, OldRow
  <2>2. asset[a] \in Row /\ a \in Present
    BY <1>5, <1>10, <2>1 DEF IdentityInv, InventoryTypeOK
  <2>3. new.state = MergeState(asset[a].state, "observed")
    BY <1>10, <2>1, <2>2 DEF Touched, Merged, Row
  <2>4. asset[a].state \in AssetState
    BY <2>2 DEF Row, Present
  <2>5. new.state \in {"observed", "responsive"}
    BY <2>3, <2>4 DEF MergeState, Rank, AssetState
  <2> HIDE DEF new
  <2> QED BY <1>5, <1>7, <1>8, <1>10, <2>1, <2>3, <2>5 DEF o
<1> QED BY <1>9, <1>10

\* What a passive observation found, where requests do not overlap.
LEMMA FoundFacts ==
  ASSUME IdentityInv, NEW r \in Requests, FoundCurrent(r), session[r].step = "correlated"
  PROVE  /\ found[r].asset = AssetOf(Next1(r))
         /\ found[r].blocked = {x \in AddressesIn(Next1(r)) :
                                    owner[x] \notin {NoAsset, AssetOf(Next1(r))}}
BY DEF FoundCurrent, Correlation, AssetOf

\* Writing an observation that says whom it is about absorbs it.
LEMMA WriteAbsorbs ==
  ASSUME IdentityInv, IdentityInv', SerialInv, serial, NEW r \in Requests,
         UpsertIdentity(r), FoundCurrent(r), NEW o \in Observation, o = Next1(r),
         o.mac # NoMac \/ o.addresses # <<>>
  PROVE  StillAbsorbed(o)
<1>1. PICK a \in Targets(r), new \in Row :
            /\ a \in Assets
            /\ owner' = Assigned(a, o, found[r].blocked)
            /\ \A b \in Assets : b # a => asset'[b] = asset[b]
            /\ asset'[a] = new
            /\ new.state \in {"observed", "responsive"}
            /\ found[r].asset = NoAsset => new.mac = o.mac
            /\ found[r].asset # NoAsset =>
                  /\ a = found[r].asset
                  /\ new.mac = IF TakesMac(a, asset[a], o.mac) THEN o.mac ELSE asset[a].mac
  BY IdentityWrite
<1>2. /\ o.addresses \in Seq(Addresses) /\ AddressesIn(o) \subseteq Addresses
      /\ o.mac \in Macs \cup {NoMac}
  BY DEF Observation, AddressesIn
<1>3. session[r].step = "correlated"
  BY DEF UpsertIdentity, Written
<1>4. /\ found[r].asset = AssetOf(o)
      /\ found[r].blocked = {x \in AddressesIn(o) : owner[x] \notin {NoAsset, AssetOf(o)}}
  BY <1>3, FoundFacts
<1>5. a # NoAsset /\ a \in Present'
  BY <1>1, InventoryConstants DEF Present
<1>6. \A x \in AddressesIn(o) : owner'[x] = IF owner[x] = NoAsset THEN a ELSE owner[x]
  BY <1>1, <1>2, <1>4 DEF Assigned
<1>7. \A x \in AddressesIn(o) : owner'[x] # NoAsset
  BY <1>5, <1>6
<1>8. ByAddress(o)' = IF o.addresses = <<>> THEN NoAsset ELSE owner'[o.addresses[1]]
  BY <1>2, <1>7, FirstAddressNext
<1>9. IdentityUnique'
  BY DEF IdentityInv
<1>10. o.addresses # <<>> => o.addresses[1] \in AddressesIn(o) /\ 1 \in DOMAIN o.addresses
  BY <1>2 DEF AddressesIn
<1>11. AssetOf(o)' = a /\ (o.mac # NoMac => new.mac # NoMac)
  <2>1. CASE new.mac = o.mac /\ o.mac # NoMac
    <3>1. ByMac(o.mac)' = a
      BY <1>1, <1>5, <1>9, <2>1, ByMacNext
    <3> QED BY <1>5, <2>1, <3>1 DEF AssetOf
  <2>2. CASE found[r].asset = NoAsset /\ o.mac = NoMac
    <3>1. ByMac(o.mac) = NoAsset /\ ByMac(o.mac)' = NoAsset
      BY <2>2 DEF ByMac
    <3>2. ByAddress(o) = NoAsset
      BY <1>4, <2>2, <3>1 DEF AssetOf
    <3>3. \A x \in AddressesIn(o) : owner[x] = NoAsset
      BY <1>2, <3>2, NoAddressKnown
    <3>4. ByAddress(o)' = a
      BY <1>6, <1>8, <1>10, <2>2, <3>3
    <3> QED BY <2>2, <3>1, <3>4 DEF AssetOf
  <2>3. CASE found[r].asset # NoAsset /\ ~(new.mac = o.mac /\ o.mac # NoMac)
    <3>1. a = AssetOf(o) /\ new.mac = asset[a].mac /\ ~TakesMac(a, asset[a], o.mac)
      BY <1>1, <1>4, <2>3 DEF TakesMac
    <3>2. ByMac(o.mac) = NoAsset
      <4>1. SUFFICES ASSUME ByMac(o.mac) # NoAsset PROVE FALSE
        OBVIOUS
      <4>2. a = ByMac(o.mac)
        BY <3>1, <4>1 DEF AssetOf
      <4> QED BY <2>3, <3>1, <4>1, <4>2, ByMacFacts
    <3>3. o.mac # NoMac => asset[a].mac # NoMac
      BY <3>1, <3>2 DEF TakesMac
    <3>4. ByMac(o.mac)' = NoAsset
      <4>1. SUFFICES ASSUME ByMac(o.mac)' # NoAsset PROVE FALSE
        OBVIOUS
      <4> DEFINE c == ByMac(o.mac)'
      <4>2. c \in Present' /\ asset'[c].mac = o.mac /\ o.mac # NoMac
        BY <1>9, <4>1, ByMacNext
      <4> HIDE DEF c
      <4>3. c # a /\ c \in Assets
        BY <1>1, <2>3, <4>2 DEF Present
      <4>4. c \in Present /\ asset[c].mac = o.mac
        BY <1>1, <4>2, <4>3 DEF Present
      <4> QED BY <3>2, <4>2, <4>4, ByMacFacts
    <3>5. ByAddress(o) = a /\ a # NoAsset
      BY <1>5, <3>1, <3>2 DEF AssetOf
    <3>6. PICK i \in DOMAIN o.addresses : FirstKnown(o, i) /\ a = owner[o.addresses[i]]
      BY <3>5 DEF ByAddress
    <3>7. owner[o.addresses[1]] \in {NoAsset, a} /\ o.addresses # <<>>
      BY <1>2, <3>6 DEF FirstKnown
    <3>8. ByAddress(o)' = a
      BY <1>6, <1>8, <1>10, <3>7
    <3> QED BY <3>1, <3>3, <3>4, <3>8 DEF AssetOf
  <2>4. found[r].asset = NoAsset => new.mac = o.mac
    BY <1>1
  <2> QED BY <2>1, <2>2, <2>3, <2>4
<1> QED BY <1>1, <1>5, <1>7, <1>11 DEF StillAbsorbed, Absorbed

\* A passive observation only adds.
LEMMA WriteKeeps ==
  ASSUME IdentityInv, SerialInv, serial, NEW r \in Requests, UpsertIdentity(r)
  PROVE  Keeps
<1>1. PICK a \in Targets(r), new \in Row :
            /\ a \in Assets
            /\ \A b \in Assets : b # a => asset'[b] = asset[b]
            /\ asset'[a] = new
            /\ new.state \in {"observed", "responsive"}
  BY IdentityWrite
<1>2. /\ \A x \in Addresses : owner[x] # NoAsset => owner'[x] = owner[x]
      /\ \A b \in Assets : asset[b].mac # NoMac => asset'[b].mac = asset[b].mac
  <2>1. [InventoryNext]_inventoryVars
    BY DEF InventoryNext
  <2> QED BY <2>1, StableStep
<1> QED BY <1>1, <1>2 DEF Keeps

\* An absorbed observation, written again, changes nothing.
LEMMA WriteAgain ==
  ASSUME IdentityInv, SerialInv, serial, NEW r \in Requests, UpsertIdentity(r),
         FoundCurrent(r), NEW o \in Observation, o = Next1(r), Absorbed(o)
  PROVE  /\ owner' = owner
         /\ \A b \in Assets : asset'[b].mac = asset[b].mac /\ asset'[b].state = asset[b].state
<1>1. session[r].step = "correlated" /\ AddressesIn(o) \subseteq Addresses
  BY NextFacts DEF UpsertIdentity, Written, IdentityInv
<1>2. found[r].asset = AssetOf(o) /\ found[r].asset # NoAsset
  BY <1>1, FoundFacts DEF Absorbed
<1>3. PICK a \in Targets(r), new \in Row :
            /\ a \in Assets
            /\ owner' = Assigned(a, o, found[r].blocked)
            /\ \A b \in Assets : b # a => asset'[b] = asset[b]
            /\ asset'[a] = new
            /\ a = found[r].asset
            /\ new.state = MergeState(asset[a].state, "observed")
            /\ new.mac = IF TakesMac(a, asset[a], o.mac) THEN o.mac ELSE asset[a].mac
  BY <1>2, IdentityWrite
<1>4. asset[a].state \in {"observed", "responsive"} /\ (o.mac # NoMac => asset[a].mac # NoMac)
  BY <1>2, <1>3 DEF Absorbed
<1>5. new.state = asset[a].state
  BY <1>3, <1>4 DEF MergeState, Rank
<1>6. new.mac = asset[a].mac
  BY <1>3, <1>4 DEF TakesMac
<1>7. owner' = owner
  <2>1. owner \in [Addresses -> Present \cup {NoAsset}]
    BY DEF IdentityInv, InventoryTypeOK
  <2>2. \A x \in AddressesIn(o) : owner[x] # NoAsset
    BY DEF Absorbed
  <2>3. \A x \in Addresses : owner'[x] = owner[x]
    BY <1>3, <2>2 DEF Assigned
  <2>4. owner' = [x \in Addresses |-> owner'[x]]
    BY <1>3 DEF Assigned
  <2> QED BY <2>1, <2>3, <2>4
<1> QED BY <1>3, <1>5, <1>6, <1>7

\* What was absorbed stays so in a step that keeps.
LEMMA AllStay ==
  ASSUME IdentityInv, IdentityInv', Keeps, passive' = passive
  PROVE  AllAbsorbed => AllAbsorbed'
<1> SUFFICES ASSUME AllAbsorbed, NEW o \in Observation, Listed(o)' PROVE Absorbed(o)'
  BY DEF AllAbsorbed
<1>1. Absorbed(o)
  BY DEF AllAbsorbed, Listed
<1> QED BY <1>1, AbsorbedStays DEF StillAbsorbed

\* A request that has nothing to do with passive results, or none at all.
LEMMA OthersIdle ==
  ASSUME IdentityInv, SerialInv, serial, NEW r \in Requests, session[r] # Idle,
         \A q \in Requests : q # r => session'[q] = session[q]
  PROVE  \A q \in Requests : q # r =>
             session'[q].kind = "idle" /\ session'[q].step = "idle"
<1>1. Idle.kind = "idle" /\ Idle.step = "idle"
  BY DEF Idle
<1> QED BY <1>1, LockOfSession

\* A request that moves on without writing a row keeps its progress.
LEMMA ProgressStays ==
  ASSUME IdentityInv, IdentityInv', Keeps, NEW r \in Requests, Progress(r),
         passive' = passive, session'[r].kind = session[r].kind,
         session'[r].doc = session[r].doc, session'[r].todo = session[r].todo,
         session'[r].step = "loaded" => session[r].todo = <<>>
  PROVE  Progress(r)'
<1> SUFFICES ASSUME session[r].kind = "passive"
             PROVE  /\ session'[r].doc = passive'
                    /\ session'[r].step = "loaded" => session'[r].todo = <<>>
                    /\ \A o \in Observation : /\ Pending(r, o)' => Listed(o)'
                                              /\ Listed(o)' => Absorbed(o)' \/ Pending(r, o)'
  BY DEF Progress
<1>1. ASSUME NEW o \in Observation
      PROVE  /\ Pending(r, o)' => Listed(o)'
             /\ Listed(o)' => Absorbed(o)' \/ Pending(r, o)'
  <2>1. (Pending(r, o)' <=> Pending(r, o)) /\ (Listed(o)' <=> Listed(o))
    BY DEF Pending, Listed
  <2>2. Absorbed(o) => Absorbed(o)'
    BY AbsorbedStays DEF StillAbsorbed
  <2>3. (Pending(r, o) => Listed(o)) /\ (Listed(o) => Absorbed(o) \/ Pending(r, o))
    BY DEF Progress
  <2> QED BY <2>1, <2>2, <2>3
<1> QED BY <1>1 DEF Progress

\* One observation written is one observation absorbed.
LEMMA ProgressMade ==
  ASSUME IdentityInv, IdentityInv', SerialInv, serial, NEW r \in Requests,
         UpsertIdentity(r), FoundCurrent(r), Identified(passive), Progress(r)
  PROVE  Progress(r)'
<1>1. /\ session[r].step = "correlated" /\ session[r].kind = "passive"
      /\ passive' = passive /\ session[r] \in Session
      /\ session' = [session EXCEPT ![r].step = "open", ![r].todo = Tail(@)]
  BY DEF UpsertIdentity, Written, IdentityInv, InventoryTypeOK
<1>2. /\ session'[r].step = "open" /\ session'[r].doc = session[r].doc
      /\ session'[r].kind = "passive" /\ session'[r].todo = Tail(session[r].todo)
  BY <1>1 DEF IdentityInv, InventoryTypeOK, Session
<1>3. session[r].todo \in Seq(Observation) /\ session[r].todo # <<>>
  BY <1>1 DEF IdentityInv, SessionShape
<1>4. PICK n \in Observation : n = Next1(r)
  BY <1>1, NextFacts DEF IdentityInv
<1>5. Pending(r, n)
  BY <1>3, <1>4 DEF Pending, Next1
<1>6. Listed(n)
  BY <1>1, <1>5 DEF Progress
<1>7. n.mac # NoMac \/ n.addresses # <<>>
  BY <1>6 DEF Listed, Identified
<1>8. StillAbsorbed(n)
  BY <1>4, <1>7, WriteAbsorbs
<1>9. ASSUME NEW o \in Observation
      PROVE  /\ Pending(r, o)' => Listed(o)'
             /\ Listed(o)' => Absorbed(o)' \/ Pending(r, o)'
  <2>1. Listed(o)' <=> Listed(o)
    BY <1>1 DEF Listed
  <2>2. Pending(r, o)' => Pending(r, o)
    BY <1>2, <1>3 DEF Pending
  <2>3. Pending(r, o) => o = n \/ Pending(r, o)'
    <3>1. SUFFICES ASSUME NEW k \in DOMAIN session[r].todo, session[r].todo[k] = o, o # n
                   PROVE  Pending(r, o)'
      BY DEF Pending
    <3>2. k # 1
      BY <1>3, <1>4, <3>1 DEF Next1
    <3>3. k - 1 \in DOMAIN Tail(session[r].todo) /\ Tail(session[r].todo)[k - 1] = o
      <4> DEFINE todo == session[r].todo
      <4>1. todo \in Seq(Observation) /\ todo # <<>> /\ k \in 1 .. Len(todo)
        BY <1>3, <3>1
      <4> HIDE DEF todo
      <4>2. k - 1 \in 1 .. Len(todo) - 1
        BY <3>2, <4>1
      <4>3. Len(Tail(todo)) = Len(todo) - 1 /\ Tail(todo) \in Seq(Observation)
        BY <4>1
      <4>4. Tail(todo)[k - 1] = todo[k]
        BY <4>1, <4>2
      <4>5. k - 1 \in DOMAIN Tail(todo)
        BY <4>2, <4>3
      <4> QED BY <3>1, <4>4, <4>5 DEF todo
    <3> QED BY <1>2, <3>3 DEF Pending
  <2>4. Absorbed(o) => Absorbed(o)'
    BY AbsorbedStays, WriteKeeps DEF StillAbsorbed
  <2>5. (Pending(r, o) => Listed(o)) /\ (Listed(o) => Absorbed(o) \/ Pending(r, o))
    BY <1>1 DEF Progress
  <2>6. o = n => Absorbed(o)'
    BY <1>8 DEF StillAbsorbed
  <2> QED BY <2>1, <2>2, <2>3, <2>4, <2>5, <2>6
<1> QED BY <1>1, <1>2, <1>9 DEF Progress

\* Lookups see the same where no row of an asset or an address is written.
LEMMA LookupsStay ==
  ASSUME asset' = asset, owner' = owner, NEW o, NEW b
  PROVE  ByMac(o.mac)' = ByMac(o.mac) /\ Correlation(b, o)' = Correlation(b, o)
<1>1. Present' = Present /\ ByMac(o.mac)' = ByMac(o.mac)
  BY DEF ByMac, Present
<1>2. ByAddress(o)' = ByAddress(o)
  BY DEF ByAddress, FirstKnown
<1> QED BY <1>1, <1>2 DEF Correlation, AddressesIn

\* What a request has found, and what it finds now, stay together.
LEMMA FoundStays ==
  ASSUME asset' = asset, owner' = owner, NEW r \in Requests,
         session'[r].todo = session[r].todo,
         session'[r].step = "mac" => found'[r].mac = ByMac(Next1(r).mac),
         session'[r].step = "correlated" =>
             found'[r] = Correlation(ByMac(Next1(r).mac), Next1(r))
  PROVE  FoundCurrent(r)'
<1>1. PICK o : o = Next1(r)
  OBVIOUS
<1>2. Next1(r)' = o
  BY <1>1 DEF Next1
<1>3. PICK b : b = ByMac(o.mac)
  OBVIOUS
<1>4. ByMac(o.mac)' = b /\ Correlation(b, o)' = Correlation(b, o)
  BY <1>3, LookupsStay
<1>5. session'[r].step = "mac" => found'[r].mac = ByMac(Next1(r).mac)'
  <2>1. ByMac(Next1(r).mac)' = ByMac(o.mac)'
    BY <1>2
  <2> QED BY <1>1, <1>3, <1>4, <2>1
<1>6. session'[r].step = "correlated" =>
          found'[r] = Correlation(ByMac(Next1(r).mac), Next1(r))'
  <2>1. Correlation(ByMac(Next1(r).mac), Next1(r))' = Correlation(b, o)'
    BY <1>2, <1>4
  <2> QED BY <1>1, <1>3, <1>4, <2>1
<1> QED BY <1>5, <1>6 DEF FoundCurrent

\* A step that writes no row keeps.
LEMMA QuietKeeps == UNCHANGED rows => Keeps
BY DEF rows, Keeps

\* The commit of a refresh changes classes only.
LEMMA RefreshFacts ==
  ASSUME IdentityInv, NEW r \in Requests, CommitClasses(r)
  PROVE  /\ owner' = owner
         /\ \A a \in Assets : asset'[a].mac = asset[a].mac /\ asset'[a].state = asset[a].state
<1>1. ASSUME NEW a \in Assets
      PROVE  asset'[a].mac = asset[a].mac /\ asset'[a].state = asset[a].state
  <2> DEFINE old == loaded[r][a]
             new == [old EXCEPT !.class =
                        Class(old, collected[r][a].ports, collected[r][a].sources)]
  <2>1. old \in Row /\ asset[a] \in Row
    BY DEF IdentityInv, InventoryTypeOK
  <2>2. new.mac = old.mac /\ new.state = old.state
    BY <2>1 DEF Row
  <2>3. asset'[a] = IF collected[r][a].loaded THEN Flush(asset[a], old, new) ELSE asset[a]
    BY DEF CommitClasses
  <2> HIDE DEF old, new
  <2> QED BY <2>2, <2>3 DEF Flush
<1> QED BY <1>1 DEF CommitClasses

\* One case per kind of action.
LEMMA SettledStep ==
  IdentityInv /\ IdentityInv' /\ SerialInv /\ SettledInv /\ [InventoryNext]_inventoryVars
      => SettledInv'
<1> SUFFICES ASSUME IdentityInv, IdentityInv', SerialInv, SettledInv,
                    [InventoryNext]_inventoryVars
             PROVE  SettledInv'
  OBVIOUS
<1>0. serial' = serial
  BY StableStep
<1>1. SUFFICES ASSUME serial PROVE SettledInv'
  BY <1>0 DEF SettledInv
<1>2. /\ \A q \in Requests : FoundCurrent(q)
      /\ Identified(passive) => (settled => AllAbsorbed)
      /\ Identified(passive) => \A q \in Requests : Progress(q)
  BY <1>1 DEF SettledInv
<1>3. session \in [Requests -> Session]
  BY DEF IdentityInv, InventoryTypeOK
<1>4. Idle.step = "idle" /\ Idle.kind = "idle"
  BY DEF Idle
\* A request r moves, and the others are idle afterwards.
<1>5. ASSUME NEW r \in Requests, session[r] # Idle, passive' = passive, Keeps,
             \A q \in Requests : q # r => session'[q] = session[q],
             FoundCurrent(r)', Identified(passive) => Progress(r)',
             Identified(passive) /\ settled' => settled \/ AllAbsorbed
      PROVE  SettledInv'
  <2>1. \A q \in Requests : q # r => session'[q].kind = "idle" /\ session'[q].step = "idle"
    BY <1>1, <1>5, OthersIdle
  <2>2. ASSUME NEW q \in Requests PROVE FoundCurrent(q)'
    <3>1. CASE q = r
      BY <1>5, <3>1
    <3>2. CASE q # r
      BY <2>1, <3>2 DEF FoundCurrent
    <3> QED BY <3>1, <3>2
  <2>3. ASSUME NEW q \in Requests, Identified(passive) PROVE Progress(q)'
    <3>1. CASE q = r
      BY <1>5, <2>3, <3>1
    <3>2. CASE q # r
      BY <2>1, <3>2 DEF Progress
    <3> QED BY <3>1, <3>2
  <2>4. Identified(passive) /\ settled' => AllAbsorbed'
    BY <1>2, <1>5, AllStay
  <2>5. Identified(passive)' <=> Identified(passive)
    BY <1>5 DEF Identified
  <2> QED BY <2>2, <2>3, <2>4, <2>5 DEF SettledInv
<1>6. ASSUME NEW r \in Requests, NEW kind, NEW doc, Begin(r, kind, doc),
             kind = "passive" => doc = passive
      PROVE  SettledInv'
  <2>1. /\ session'[r] = [kind |-> kind, step |-> "open", doc |-> doc, todo |-> doc]
        /\ \A q \in Requests : q # r => session'[q] = Idle
        /\ UNCHANGED <<rows, passive, found, settled>>
    BY <1>1, <1>3, <1>6 DEF Begin, Alone
  <2>2. ASSUME NEW q \in Requests PROVE FoundCurrent(q)'
    BY <1>4, <2>1 DEF FoundCurrent
  <2>3. ASSUME NEW q \in Requests PROVE Progress(q)'
    <3>1. CASE q # r \/ kind # "passive"
      BY <1>4, <2>1, <3>1 DEF Progress
    <3>2. CASE q = r /\ kind = "passive"
      <4>1. /\ session'[q].doc = passive' /\ session'[q].step # "loaded"
            /\ session'[q].todo = passive'
        BY <1>6, <2>1, <3>2
      <4>2. ASSUME NEW o \in Observation PROVE Pending(q, o)' <=> Listed(o)'
        BY <4>1 DEF Pending, Listed
      <4> QED BY <4>1, <4>2 DEF Progress
    <3> QED BY <3>1, <3>2
  <2>4. Identified(passive) /\ settled' => AllAbsorbed'
    BY <1>2, <2>1, AllStay, QuietKeeps
  <2>5. Identified(passive)' <=> Identified(passive)
    BY <2>1 DEF Identified
  <2> QED BY <2>2, <2>3, <2>4, <2>5 DEF SettledInv
<1>7. ASSUME NEW r \in Requests, SkipHost(r) PROVE SettledInv'
  <2>1. /\ session[r].step = "open" /\ session[r] # Idle
        /\ session'[r].step = "open" /\ session'[r].kind = "scan"
        /\ \A q \in Requests : q # r => session'[q] = session[q]
        /\ UNCHANGED <<rows, passive, settled>>
    BY <1>3, <1>4, <1>7 DEF SkipHost, Session
  <2>2. FoundCurrent(r)' /\ Progress(r)'
    BY <2>1 DEF FoundCurrent, Progress
  <2> QED BY <1>5, <2>1, <2>2, QuietKeeps
<1>8. ASSUME NEW r \in Requests, CorrelateMac(r) \/ CorrelateAddresses(r) \/ ReadAll(r)
      PROVE  SettledInv'
  <2>1. /\ session[r].step \in {"open", "mac"} /\ session[r] # Idle
        /\ UNCHANGED <<rows, passive, settled>>
    BY <1>4, <1>8 DEF CorrelateMac, CorrelateAddresses, ReadAll
  <2>2. /\ session'[r].kind = session[r].kind /\ session'[r].todo = session[r].todo
        /\ session'[r].doc = session[r].doc
        /\ \A q \in Requests : q # r => session'[q] = session[q]
    <3>1. CASE CorrelateMac(r)
      BY <1>3, <3>1 DEF CorrelateMac, Session
    <3>2. CASE CorrelateAddresses(r)
      BY <1>3, <3>2 DEF CorrelateAddresses, Session
    <3>3. CASE ReadAll(r)
      BY <1>3, <3>3 DEF ReadAll, Session
    <3> QED BY <1>8, <3>1, <3>2, <3>3
  <2>3. asset' = asset /\ owner' = owner
    BY <2>1 DEF rows
  <2>4. FoundCurrent(r)' /\ (session'[r].step = "loaded" => session[r].todo = <<>>)
    <3>1. CASE CorrelateMac(r)
      <4>1. session'[r].step = "mac"
        BY <1>3, <3>1 DEF CorrelateMac, Session
      <4>2. found'[r].mac = ByMac(Next1(r).mac)
        BY <3>1 DEF CorrelateMac, Nothing, IdentityInv, InventoryTypeOK
      <4> QED BY <2>2, <2>3, <4>1, <4>2, FoundStays
    <3>2. CASE CorrelateAddresses(r)
      <4>1. session'[r].step = "correlated" /\ session[r].step = "mac"
        BY <1>3, <3>2 DEF CorrelateAddresses, Session
      <4>2. found'[r] = Correlation(ByMac(Next1(r).mac), Next1(r))
        BY <1>2, <3>2, <4>1 DEF CorrelateAddresses, FoundCurrent, IdentityInv, InventoryTypeOK
      <4> QED BY <2>2, <2>3, <4>1, <4>2, FoundStays
    <3>3. CASE ReadAll(r)
      <4>1. session'[r].step = "loaded" /\ session[r].todo = <<>>
        BY <1>3, <3>3 DEF ReadAll, Session
      <4> QED BY <4>1 DEF FoundCurrent
    <3> QED BY <1>8, <3>1, <3>2, <3>3
  <2>5. Keeps
    BY <2>1, QuietKeeps
  <2>6. Identified(passive) => Progress(r)'
    BY <1>2, <2>1, <2>2, <2>4, <2>5, ProgressStays
  <2> QED BY <1>5, <2>1, <2>2, <2>4, <2>5, <2>6
<1>9. ASSUME NEW r \in Requests, Close(r), session[r] # Idle, passive' = passive, Keeps,
             Identified(passive) /\ settled' => settled \/ AllAbsorbed
      PROVE  SettledInv'
  <2>1. session'[r] = Idle /\ \A q \in Requests : q # r => session'[q] = session[q]
    BY <1>3, <1>9 DEF Close
  <2>2. FoundCurrent(r)' /\ Progress(r)'
    BY <1>4, <2>1 DEF FoundCurrent, Progress
  <2> QED BY <1>5, <1>9, <2>1, <2>2
<1>10. ASSUME NEW r \in Requests, InsertRefused(r) \/ Abandon(r) \/ CommitScan(r)
       PROVE  SettledInv'
  <2>1. /\ Close(r) /\ session[r] # Idle /\ passive' = passive /\ settled' = settled
        /\ UNCHANGED rows
    BY <1>4, <1>10 DEF InsertRefused, Abandon, CommitScan
  <2> QED BY <1>9, <2>1, QuietKeeps
<1>11. ASSUME NEW r \in Requests, CommitClasses(r) PROVE SettledInv'
  <2>1. /\ Close(r) /\ session[r] # Idle /\ passive' = passive
        /\ session[r].step = "loaded"
        /\ settled' = IF session[r].kind = "passive" /\ session[r].doc = passive
                      THEN TRUE ELSE settled
    BY <1>4, <1>11 DEF CommitClasses
  <2>2. Keeps
    BY <1>11, RefreshFacts DEF Keeps
  <2>3. ASSUME Identified(passive), settled' PROVE settled \/ AllAbsorbed
    <3>1. CASE session[r].kind = "passive"
      <4>1. session[r].todo = <<>>
        BY <1>2, <2>1, <2>3, <3>1 DEF Progress
      <4>2. \A o \in Observation : ~Pending(r, o)
        BY <4>1 DEF Pending
      <4>3. \A o \in Observation : Listed(o) => Absorbed(o) \/ Pending(r, o)
        BY <1>2, <2>3, <3>1 DEF Progress
      <4> QED BY <4>2, <4>3 DEF AllAbsorbed
    <3>2. CASE session[r].kind # "passive"
      BY <2>1, <2>3, <3>2
    <3> QED BY <3>1, <3>2
  <2> QED BY <1>9, <2>1, <2>2, <2>3
<1>12. ASSUME NEW r \in Requests, UpsertIdentity(r) PROVE SettledInv'
  <2>1. /\ session[r].step = "correlated" /\ session[r] # Idle
        /\ session'[r].step = "open" /\ UNCHANGED <<passive, settled>>
        /\ \A q \in Requests : q # r => session'[q] = session[q]
    BY <1>3, <1>4, <1>12 DEF UpsertIdentity, Written, Session
  <2>2. FoundCurrent(r)'
    BY <2>1 DEF FoundCurrent
  <2>3. Identified(passive) => Progress(r)'
    BY <1>1, <1>2, <1>12, ProgressMade
  <2>4. Keeps
    BY <1>1, <1>12, WriteKeeps
  <2> QED BY <1>5, <2>1, <2>2, <2>3, <2>4
<1>13. ASSUME NEW r \in Requests, UpsertNmapHost(r) PROVE SettledInv'
  <2>1. /\ session[r].step = "correlated" /\ session[r] # Idle /\ settled' = FALSE
        /\ session'[r].step = "open" /\ session'[r].kind = "scan" /\ passive' = passive
        /\ \A q \in Requests : q # r => session'[q] = session[q]
    BY <1>3, <1>4, <1>13 DEF UpsertNmapHost, Written, Session
  <2>2. \A q \in Requests : session'[q].kind # "passive" /\ session'[q].step \in {"idle", "open"}
    BY <1>1, <2>1, OthersIdle
  <2>3. ASSUME NEW q \in Requests PROVE FoundCurrent(q)' /\ Progress(q)'
    BY <2>2 DEF FoundCurrent, Progress
  <2> QED BY <2>1, <2>3 DEF SettledInv
<1>14. ASSUME NEW d \in PassiveDocs, StorePassive(d) PROVE SettledInv'
  <2>1. settled' = FALSE /\ \A q \in Requests : session'[q] = Idle
    BY <1>1, <1>14 DEF StorePassive
  <2>2. ASSUME NEW q \in Requests PROVE FoundCurrent(q)' /\ Progress(q)'
    BY <1>4, <2>1 DEF FoundCurrent, Progress
  <2> QED BY <2>1, <2>2 DEF SettledInv
<1>15. ASSUME UNCHANGED inventoryVars PROVE SettledInv'
  <2>1. UNCHANGED <<rows, session, found, passive, settled>>
    BY <1>15 DEF inventoryVars
  <2>2. ASSUME NEW q \in Requests PROVE FoundCurrent(q)'
    <3>1. asset' = asset /\ owner' = owner /\ FoundCurrent(q)
      BY <1>2, <2>1 DEF rows
    <3> QED BY <2>1, <3>1, FoundStays DEF FoundCurrent
  <2>3. ASSUME NEW q \in Requests, Identified(passive) PROVE Progress(q)'
    <3>1. Progress(q) /\ Keeps
      BY <1>2, <2>1, <2>3, QuietKeeps
    <3>2. CASE session[q].kind = "passive"
      BY <2>1, <3>1, <3>2, ProgressStays DEF Progress
    <3>3. CASE session[q].kind # "passive"
      BY <2>1, <3>3 DEF Progress
    <3> QED BY <3>2, <3>3
  <2>4. Identified(passive) /\ settled' => AllAbsorbed'
    BY <1>2, <2>1, AllStay, QuietKeeps
  <2>5. Identified(passive)' <=> Identified(passive)
    BY <2>1 DEF Identified
  <2> QED BY <2>2, <2>3, <2>4, <2>5 DEF SettledInv
<1>16. ASSUME NEW r \in Requests,
              StartPassive(r) \/ (\E d \in ScanDocs : StartScan(r, d)) \/ StartRefresh(r)
       PROVE  SettledInv'
  BY <1>6, <1>16 DEF StartPassive, StartScan, StartRefresh
<1> QED BY <1>7, <1>8, <1>10, <1>11, <1>12, <1>13, <1>14, <1>15, <1>16 DEF InventoryNext

\* What a step does while the latest result is settled.
LEMMA ReadStepQuiet ==
  ASSUME IdentityInv, SerialInv, SettledInv, [InventoryNext]_inventoryVars,
         serial, settled, settled', Identified(passive)
  PROVE  /\ owner' = owner
         /\ \A a \in Assets : asset'[a].mac = asset[a].mac /\ asset'[a].state = asset[a].state
<1>1. AllAbsorbed /\ \A q \in Requests : FoundCurrent(q) /\ Progress(q)
  BY DEF SettledInv
<1>2. ASSUME NEW r \in Requests, UpsertIdentity(r)
      PROVE  /\ owner' = owner
             /\ \A a \in Assets : asset'[a].mac = asset[a].mac /\ asset'[a].state = asset[a].state
  <2>1. session[r].kind = "passive" /\ session[r].step = "correlated"
    BY <1>2 DEF UpsertIdentity, Written
  <2>2. PICK o \in Observation : o = Next1(r)
    BY <2>1, NextFacts DEF IdentityInv
  <2>3. session[r].todo \in Seq(Observation) /\ session[r].todo # <<>>
    BY <2>1 DEF IdentityInv, SessionShape
  <2>4. Pending(r, o)
    BY <2>2, <2>3 DEF Pending, Next1
  <2>5. Absorbed(o)
    BY <1>1, <2>1, <2>4 DEF Progress, AllAbsorbed
  <2> QED BY <1>1, <1>2, <2>2, <2>5, WriteAgain
<1>3. ASSUME NEW r \in Requests, UpsertNmapHost(r) PROVE FALSE
  BY <1>3 DEF UpsertNmapHost
<1>4. ASSUME NEW r \in Requests, NEW kind, NEW doc, Begin(r, kind, doc) PROVE rows' = rows
  BY <1>4 DEF Begin
<1>5. ASSUME NEW r \in Requests,
             \/ StartPassive(r) \/ (\E d \in ScanDocs : StartScan(r, d)) \/ StartRefresh(r)
             \/ SkipHost(r) \/ CorrelateMac(r) \/ CorrelateAddresses(r) \/ InsertRefused(r)
             \/ Abandon(r) \/ CommitScan(r) \/ ReadAll(r)
      PROVE  rows' = rows
  BY <1>4, <1>5 DEF StartPassive, StartScan, StartRefresh, SkipHost, CorrelateMac,
                    CorrelateAddresses, InsertRefused, Abandon, CommitScan, ReadAll
<1>6. ASSUME UNCHANGED inventoryVars \/ \E d \in PassiveDocs : StorePassive(d)
      PROVE  rows' = rows
  BY <1>6 DEF inventoryVars, StorePassive
<1>7. CASE rows' = rows
  BY <1>7 DEF rows
<1> QED BY <1>2, <1>3, <1>5, <1>6, <1>7, RefreshFacts DEF InventoryNext

\* The listing endpoints of the API, which ingest the latest passive result
\* each time, leave assets, states, MAC addresses and addresses as they are,
\* once it was ingested and until a scan or another result: every observation
\* that says whom it is about is absorbed by its first ingestion, whatever the
\* other observations of the result say (ingest_passive_from_audit,
\* _upsert_identity).
THEOREM ReadsAreReads == InventorySpec => ReadsChangeNothing
<1>1. InventoryInit => SettledInv
  <2> SUFFICES ASSUME InventoryInit PROVE SettledInv
    OBVIOUS
  <2>1. settled = FALSE /\ \A r \in Requests : session[r].kind = "idle" /\ session[r].step = "idle"
    BY DEF InventoryInit, Idle
  <2>2. \A r \in Requests : FoundCurrent(r) /\ Progress(r)
    BY <2>1 DEF FoundCurrent, Progress
  <2> QED BY <2>1, <2>2 DEF SettledInv
<1>2. IdentityInv /\ SerialInv /\ SettledInv /\ [InventoryNext]_inventoryVars =>
        [serial /\ settled /\ settled' /\ Identified(passive) =>
          /\ owner' = owner
          /\ \A a \in Assets : /\ asset'[a].mac = asset[a].mac
                               /\ asset'[a].state = asset[a].state]_inventoryVars
  BY ReadStepQuiet
<1> QED BY <1>1, <1>2, SettledStep, SerialAlways, PTL DEF InventorySpec, ReadsChangeNothing
=============================================================================
