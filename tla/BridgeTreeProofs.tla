-------------------------- MODULE BridgeTreeProofs -------------------------
(***************************************************************************)
(* What BridgeTree promises, for every machine whose buses are numbered as *)
(* PCI numbers them and for any number of scans: the tree keeps its shape, *)
(* a hub is seen exactly when it is there, and every device hangs below    *)
(* the innermost bridge above it.                                          *)
(***************************************************************************)
EXTENDS BridgeTree, FiniteSetTheorems, TLAPS

Others == DOMAIN bridges \ {Host}

----------------------------------------------------------------------------
\* Facts about lists.

\* A list may be taken for one over a larger set.
LEMMA SeqGrows ==
  ASSUME NEW S, NEW T, S \subseteq T
  PROVE  Seq(S) \subseteq Seq(T)
OBVIOUS

\* Putting an element in front moves the others by one.
LEMMA Prepended ==
  ASSUME NEW S, NEW s \in Seq(S), NEW x \in S
  PROVE  /\ <<x>> \o s \in Seq(S)
         /\ Len(<<x>> \o s) = Len(s) + 1
         /\ (<<x>> \o s)[1] = x
         /\ \A i \in 1 .. Len(s) : (<<x>> \o s)[i + 1] = s[i]
OBVIOUS

\* Putting one behind leaves the others where they are.
LEMMA Appended ==
  ASSUME NEW S, NEW s \in Seq(S), NEW x \in S
  PROVE  /\ Append(s, x) \in Seq(S)
         /\ Len(Append(s, x)) = Len(s) + 1
         /\ Append(s, x)[Len(s) + 1] = x
         /\ \A i \in 1 .. Len(s) : Append(s, x)[i] = s[i]
OBVIOUS

\* sort_them lists the devices of the scan in order, each of them once.
LEMMA SortedList ==
  ASSUME NEW T, IsFiniteSet(T), NEW S \in SUBSET T, NEW list \in Sorted(S)
  PROVE  /\ list \in Seq(T)
         /\ S = {list[i] : i \in DOMAIN list}
         /\ \A i, j \in DOMAIN list : i < j => Precedes(list[i], list[j])
<1>1. Cardinality(S) \in Nat
  BY FS_Subset, FS_CardinalityType
<1>2. list \in [1 .. Cardinality(S) -> S]
  BY DEF Sorted
<1>3. list \in Seq(S)
  BY <1>1, <1>2
<1>4. QED
  BY <1>2, <1>3, SeqGrows DEF Sorted

----------------------------------------------------------------------------
(***************************************************************************)
(* Types.                                                                  *)
(***************************************************************************)

\* A bus number fits in the fields of a bridge.
LEMMA BusNumbersFit == \A i \in BusNumber : i \in 0 .. Ones
<1>1. 255 <= Ones /\ Ones \in Int
  BY DEF Ones
<1> HIDE DEF Ones
<1>2. ASSUME NEW i \in 0 .. 255 PROVE i \in 0 .. Ones
  BY <1>1
<1>3. QED
  BY <1>2 DEF BusNumber

\* The numbers of a device are numbers of buses.
LEMMA TopologyNumbers ==
  ASSUME TypeOK
  PROVE  \A d \in topology : d.bus \in 0 .. 255 /\ d.sec \in 0 .. 255 /\ d.sub \in 0 .. 255
<1>1. topology \subseteq Device
  BY DEF TypeOK
<1>2. ASSUME NEW d \in Device
      PROVE  d.bus \in 0 .. 255 /\ d.sec \in 0 .. 255 /\ d.sub \in 0 .. 255
  BY DEF Device, BusNumber
<1>3. QED
  BY <1>1, <1>2

\* What TypeOK says of the lengths and the elements of the lists.
Shape ==
  /\ Len(bridges) \in Nat /\ Len(bridges) >= 1 /\ DOMAIN bridges = 1 .. Len(bridges)
  /\ Len(chain) \in Nat /\ Len(chain) >= 1 /\ DOMAIN chain = 1 .. Len(chain)
  /\ Len(devices) \in Nat /\ DOMAIN devices = 1 .. Len(devices)
  /\ DOMAIN child = DOMAIN bridges /\ DOMAIN buses = DOMAIN bridges
  /\ \A i \in DOMAIN chain : chain[i] \in DOMAIN bridges
  /\ \A i \in DOMAIN devices : devices[i] \in topology /\ devices[i] \in Device
  /\ \A b \in DOMAIN bridges : bridges[b] \in StructBridge
  /\ \A b \in DOMAIN bridges : child[b] \in Seq(Others) /\ buses[b] \in Seq(Bus)
  /\ \A b \in Latest : b \in Others

\* What Shape says follows from the types alone.
LEMMA Facts == TypeOK => Shape
<1> SUFFICES ASSUME TypeOK PROVE Shape
  OBVIOUS
<1> HIDE DEF StructBridge, Bus, Device
<1>1. /\ Len(chain) \in Nat /\ Len(chain) >= 1 /\ DOMAIN chain = 1 .. Len(chain)
      /\ \A i \in DOMAIN chain : chain[i] \in DOMAIN bridges
      /\ Host \in DOMAIN bridges
  <2>1. chain \in Seq(DOMAIN bridges) /\ chain # <<>> /\ chain[1] = Host
    BY DEF TypeOK
  <2>2. Len(chain) \in Nat /\ Len(chain) >= 1 /\ DOMAIN chain = 1 .. Len(chain)
    BY <2>1
  <2>3. \A i \in DOMAIN chain : chain[i] \in DOMAIN bridges
    BY <2>1
  <2>4. QED
    BY <2>1, <2>2, <2>3
<1>2. /\ Len(bridges) \in Nat /\ DOMAIN bridges = 1 .. Len(bridges)
      /\ \A b \in DOMAIN bridges : bridges[b] \in StructBridge
  BY DEF TypeOK
<1>3. /\ Len(devices) \in Nat /\ DOMAIN devices = 1 .. Len(devices)
      /\ \A i \in DOMAIN devices : devices[i] \in topology /\ devices[i] \in Device
  <2>1. devices \in Seq(topology) /\ topology \subseteq Device
    BY DEF TypeOK
  <2>2. QED
    BY <2>1
<1>4. DOMAIN child = DOMAIN bridges /\ \A b \in DOMAIN bridges : child[b] \in Seq(Others)
  <2>1. child \in Seq(Seq(Others)) /\ Len(child) = Len(bridges)
    BY DEF TypeOK, Others
  <2>2. QED
    BY <1>2, <2>1
<1>5. DOMAIN buses = DOMAIN bridges /\ \A b \in DOMAIN bridges : buses[b] \in Seq(Bus)
  <2>1. buses \in Seq(Seq(Bus)) /\ Len(buses) = Len(bridges)
    BY DEF TypeOK
  <2>2. QED
    BY <1>2, <2>1
<1>6. \A b \in Latest : b \in Others
  BY <1>1 DEF Latest, Others
<1>7. QED
  BY <1>1, <1>2, <1>3, <1>4, <1>5, <1>6 DEF Host, Shape

\* The start, with host_bridge alone, is well typed.
LEMMA InitTypes == Init => TypeOK
<1> SUFFICES ASSUME Init PROVE TypeOK
  OBVIOUS
<1>1. topology \subseteq Device /\ WellNumbered(topology)
  BY TopologiesAssumption DEF Init
<1>2. HostBridge \in StructBridge
  BY MaxScansAssumption DEF HostBridge, StructBridge, NoDevice, Device, BusNumber, Ones
<1>3. bridges \in Seq(StructBridge) /\ Len(bridges) = 1
  BY <1>2 DEF Init
<1>4. child \in Seq(Seq(DOMAIN bridges \ {Host})) /\ Len(child) = 1
  BY DEF Init
<1>5. buses \in Seq(Seq(Bus)) /\ Len(buses) = 1
  BY DEF Init
<1>6. Latest = {}
  BY DEF Init, Latest, Host
<1>7. QED
  BY <1>1, <1>3, <1>4, <1>5, <1>6, MaxScansAssumption DEF Init, TypeOK, StructBridge, Host

\* A scan lists devices of the machine and begins the chain anew.
LEMMA ScanTypes == TypeOK /\ IsFiniteSet(topology) /\ Scan => TypeOK'
<1> SUFFICES ASSUME TypeOK, IsFiniteSet(topology), Scan PROVE TypeOK'
  OBVIOUS
<1>1. devices' \in Seq(topology)
  BY SortedList DEF Scan
<1>2. chain' \in Seq(DOMAIN bridges) /\ chain' # <<>> /\ chain'[1] = Host
  BY Facts DEF Scan, Host, Shape
<1>3. Latest' = {}
  BY DEF Scan, Latest
<1>4. scans' \in 0 .. MaxScans
  BY MaxScansAssumption DEF Scan, TypeOK
<1>5. UNCHANGED <<topology, bridges, child, buses, at>> /\ pc' = "bridges" /\ k' = 1
  BY DEF Scan, tree
<1>6. Bus' = Bus
  BY <1>5 DEF Bus, Entry
<1>7. QED
  BY <1>1, <1>2, <1>3, <1>4, <1>5, <1>6 DEF TypeOK

\* What is there when the devices are the same.
LEMMA SameDevices ==
  ASSUME UNCHANGED <<topology, devices>>
  PROVE  Bus' = Bus /\ Present' = Present
BY DEF Bus, Entry, Present

\* A new bridge is a well formed one of this scan, with a number of its own.
LEMMA MakeBridgeTypes == TypeOK /\ MakeBridge => TypeOK'
<1> SUFFICES ASSUME TypeOK, MakeBridge PROVE TypeOK'
  OBVIOUS
<1>0. Shape
  BY Facts
<1>1. UNCHANGED <<topology, scans, devices, pc, at>> /\ k' = k + 1
  BY DEF MakeBridge
<1>2. Bus' = Bus /\ Present' = Present
  BY <1>1, SameDevices
<1>3. CASE IsBridge(devices[k])
  <2> DEFINE n == Len(bridges) + 1
  <2> HIDE DEF n
  <2>0. n = Len(bridges) + 1 /\ n \in Nat /\ n > 1
    BY <1>0 DEF n, Shape
  <2>1. k \in DOMAIN devices /\ devices[k] \in Present /\ devices[k] \in Device
    <3>1. k \in Nat \ {0} /\ k <= Len(devices)
      BY DEF MakeBridge, TypeOK
    <3>2. /\ Len(devices) \in Nat /\ DOMAIN devices = 1 .. Len(devices)
          /\ \A i \in DOMAIN devices : devices[i] \in Device
      BY <1>0 DEF Shape
    <3>3. k \in DOMAIN devices
      BY <3>1, <3>2
    <3>4. QED
      BY <3>2, <3>3 DEF Present
  <2>2. Bridge(devices[k]) \in StructBridge
    <3>1. scans \in 0 .. MaxScans
      BY DEF TypeOK
    <3>2. \A d \in Device : d.bus \in BusNumber /\ d.sec \in BusNumber /\ d.sub \in BusNumber
      BY DEF Device
    <3>3. \A i \in BusNumber : i \in 0 .. Ones
      BY BusNumbersFit
    <3>4. PICK d \in Device : d = devices[k]
      BY <2>1
    <3>5. d.bus \in 0 .. Ones /\ d.sec \in BusNumber /\ d.sub \in 0 .. Ones
      BY <3>2, <3>3
    <3>6. Bridge(d) \in StructBridge
      BY <3>1, <3>5 DEF Bridge, StructBridge
    <3>7. QED
      BY <3>4, <3>6
  <2>3. /\ bridges' = Append(bridges, Bridge(devices[k])) /\ chain' = Append(chain, n)
        /\ child' = Append(child, <<>>) /\ buses' = Append(buses, <<>>)
    BY <1>3 DEF MakeBridge, n
  <2>4. /\ bridges' \in Seq(StructBridge) /\ Len(bridges') = n /\ DOMAIN bridges' = 1 .. n
        /\ bridges'[n] = Bridge(devices[k])
        /\ \A b \in DOMAIN bridges : b \in DOMAIN bridges' /\ bridges'[b] = bridges[b]
    <3>1. bridges \in Seq(StructBridge)
      BY DEF TypeOK
    <3>2. QED
      BY <2>0, <2>2, <2>3, <3>1, Appended
  <2>5. child' \in Seq(Seq(DOMAIN bridges' \ {Host})) /\ Len(child') = Len(bridges')
    <3>1. child \in Seq(Seq(DOMAIN bridges \ {Host})) /\ Len(child) = Len(bridges)
      BY DEF TypeOK
    <3>2. DOMAIN bridges \ {Host} \subseteq DOMAIN bridges' \ {Host}
      BY <2>4
    <3>3. child \in Seq(Seq(DOMAIN bridges' \ {Host}))
      BY <3>1, <3>2, SeqGrows
    <3>4. QED
      BY <2>0, <2>3, <2>4, <3>1, <3>3
  <2>6. buses' \in Seq(Seq(Bus)) /\ Len(buses') = Len(bridges')
    <3>1. buses \in Seq(Seq(Bus)) /\ Len(buses) = Len(bridges)
      BY DEF TypeOK
    <3>2. QED
      BY <2>0, <2>3, <2>4, <3>1
  <2>7. /\ chain' \in Seq(DOMAIN bridges') /\ Len(chain') = Len(chain) + 1
        /\ chain'[Len(chain) + 1] = n /\ \A i \in DOMAIN chain : chain'[i] = chain[i]
    <3>1. chain \in Seq(DOMAIN bridges)
      BY DEF TypeOK
    <3>2. chain \in Seq(DOMAIN bridges') /\ n \in DOMAIN bridges'
      BY <2>0, <2>4, <3>1, SeqGrows
    <3>3. QED
      BY <2>3, <3>2, Appended
  <2>8. chain' # <<>> /\ chain'[1] = Host
    <3>1. chain[1] = Host /\ 1 \in DOMAIN chain
      BY <1>0 DEF TypeOK, Shape
    <3>2. QED
      BY <1>0, <2>7, <3>1 DEF Shape
  <2>9. Latest' = Latest \cup {n}
    <3>1. DOMAIN chain' = DOMAIN chain \cup {Len(chain) + 1}
      BY <1>0, <2>7 DEF Shape
    <3>2. QED
      BY <2>0, <2>7, <3>1 DEF Latest, Host
  <2>10. \A b \in Latest' : /\ bridges'[b].dev \in Present /\ IsBridge(bridges'[b].dev)
                            /\ bridges'[b].scan = scans
    <3>1. bridges'[n].dev = devices[k] /\ bridges'[n].scan = scans
      BY <2>4 DEF Bridge
    <3>2. \A b \in Latest : bridges'[b] = bridges[b]
      BY <1>0, <2>4 DEF Others, Shape
    <3>3. QED
      BY <1>3, <2>1, <2>9, <3>1, <3>2 DEF TypeOK
  <2>11. at \in DOMAIN bridges'
    BY <2>4 DEF TypeOK
  <2>12. k' \in Nat \ {0}
    <3>1. k \in Nat \ {0}
      BY DEF TypeOK
    <3>2. QED
      BY <1>1, <3>1
  <2>13. QED
    BY <1>1, <1>2, <2>4, <2>5, <2>6, <2>7, <2>8, <2>10, <2>11, <2>12 DEF TypeOK
<1>4. CASE ~IsBridge(devices[k])
  <2>1. UNCHANGED <<bridges, child, buses, chain>>
    BY <1>4 DEF MakeBridge, tree
  <2>2. Latest' = Latest
    BY <2>1 DEF Latest
  <2>3. k' \in Nat \ {0}
    <3>1. k \in Nat \ {0}
      BY DEF TypeOK
    <3>2. QED
      BY <1>1, <3>1
  <2>4. QED
    BY <1>1, <1>2, <2>1, <2>2, <2>3 DEF TypeOK
<1>5. QED
  BY <1>3, <1>4

\* The bridges of this scan stay the same as long as the chain does.
LEMMA SameLatest ==
  ASSUME UNCHANGED <<chain, devices>>
  PROVE  Latest' = Latest /\ Present' = Present /\ DOMAIN chain' = DOMAIN chain
BY DEF Latest, Present

----------------------------------------------------------------------------
(***************************************************************************)
(* The invariant.                                                          *)
(***************************************************************************)

\* The devices looked at for bridges, the bridges linked, numbered up to this
\* one, and the devices put on their buses.
Made == IF pc = "bridges" THEN k - 1 ELSE Len(devices)
Linked ==
  IF pc = "bridges" THEN Len(bridges) - Len(chain) + 1
  ELSE IF pc = "link" THEN Len(bridges) - Len(chain) + (IF k = 1 THEN 1 ELSE k - 1)
  ELSE Len(bridges)
Placed == IF pc = "insert" THEN k - 1 ELSE IF pc = "poll" THEN Len(devices) ELSE 0

\* No loop runs past its end.
LoopInv ==
  /\ pc \in {"bridges", "insert"} => k <= Len(devices) + 1
  /\ pc \in {"link", "buses"} => k <= Len(chain) + 1

\* The scan has all of what is above a device, in order.
ScanInv ==
  /\ IsFiniteSet(topology) /\ Closed(Present)
  /\ \A i, j \in DOMAIN devices : i < j => Precedes(devices[i], devices[j])

\* A struct bridge says what its device says.
BridgesInv ==
  /\ bridges[Host] = HostBridge
  /\ \A b \in Others :
       /\ bridges[b].dev \in topology /\ IsBridge(bridges[b].dev)
       /\ bridges[b].primary = bridges[b].dev.bus
       /\ bridges[b].secondary = bridges[b].dev.sec
       /\ bridges[b].subordinate = bridges[b].dev.sub

\* The chain has the bridges of this scan, which were made last, in the order
\* of its devices.
ChainInv ==
  /\ Len(chain) <= Len(bridges)
  /\ \A i \in 2 .. Len(chain) : chain[i] = Len(bridges) - Len(chain) + i
  /\ \A i \in 2 .. Len(chain) : \E m \in 1 .. Made : bridges[chain[i]].dev = devices[m]
  /\ \A i, j \in 2 .. Len(chain) : i < j => Precedes(bridges[chain[i]].dev, bridges[chain[j]].dev)
  /\ \A m \in 1 .. Made : IsBridge(devices[m]) => \E b \in Latest : bridges[b].dev = devices[m]

\* The tree is flat: host_bridge spans subordinate - primary = 0 buses, so that
\* it is the best parent of every bridge, and has the youngest in front.
ChildInv ==
  /\ child[Host] = [i \in 1 .. Linked - 1 |-> Linked + 1 - i]
  /\ \A b \in Others : child[b] = <<>>

\* No bridge leads to a bus of host_bridge, of whatever scan.
HostInv ==
  \A i \in DOMAIN buses[Host] : \A e \in topology :
    IsBridge(e) => ~(e.sec <= buses[Host][i].number /\ buses[Host][i].number <= e.sub)

\* insert_dev goes down to the innermost bridge above the device.
AtInv ==
  at # Host => /\ pc = "insert" /\ k <= Len(devices) /\ at \in Latest
               /\ Above(devices[k]) # {} /\ bridges[at].dev = ParentOf(devices[k])

\* A bridge of this scan has no bus before the third loop, one without devices
\* after it, and from then on no bus without devices but the last.
BusesBegin ==
  \A i \in 2 .. Len(chain) :
    /\ pc \in {"bridges", "link"} \/ (pc = "buses" /\ i >= k) => buses[chain[i]] = <<>>
    /\ pc = "buses" /\ i < k => Len(buses[chain[i]]) = 1 /\ buses[chain[i]][1].devs = <<>>
    /\ pc \in {"insert", "poll"} =>
         /\ Len(buses[chain[i]]) >= 1
         /\ \A j \in 1 .. Len(buses[chain[i]]) - 1 : buses[chain[i]][j].devs # <<>>

\* Entry x is of a device put below bridge b, which is its parent.
Belongs(x, b) ==
  \E m \in 1 .. Placed : /\ x = [dev |-> devices[m], scan |-> scans]
                         /\ Above(devices[m]) # {} /\ bridges[b].dev = ParentOf(devices[m])

\* What hangs below the bridges of this scan belongs there, in order.
EntriesInv ==
  \A b \in Latest : \A i \in DOMAIN buses[b] :
    /\ InOrder(buses[b][i])
    /\ \A j \in DOMAIN buses[b][i].devs : Belongs(buses[b][i].devs[j], b)

\* And what has been put on its bus hangs where it belongs.
PlacedInv ==
  \A m \in 1 .. Placed : Above(devices[m]) # {} =>
    \E b \in Latest : bridges[b].dev = ParentOf(devices[m]) /\ HangsBelow(devices[m], b)

TreeInv ==
  /\ LoopInv /\ ScanInv /\ BridgesInv /\ ChainInv /\ ChildInv
  /\ HostInv /\ AtInv /\ BusesBegin /\ EntriesInv /\ PlacedInv

BridgeTreeInv == TypeOK /\ TreeInv

\* There is nothing below host_bridge at the start.
LEMMA InitInv == Init => TreeInv
<1> SUFFICES ASSUME Init PROVE TreeInv
  OBVIOUS
<1>1. Len(bridges) = 1 /\ DOMAIN bridges = {1} /\ Len(chain) = 1 /\ Len(devices) = 0
  BY DEF Init
<1>2. Others = {} /\ Latest = {} /\ Present = {} /\ Linked = 1 /\ Made = 0 /\ Placed = 0
  BY <1>1 DEF Init, Others, Host, Latest, Present, Linked, Made, Placed
<1>3. LoopInv
  BY DEF Init, LoopInv
<1>4. ScanInv
  BY <1>1, <1>2, TopologiesAssumption DEF Init, ScanInv, Closed
<1>5. BridgesInv
  BY <1>2 DEF Init, BridgesInv, Host
<1>6. ChainInv
  BY <1>1, <1>2 DEF Init, ChainInv
<1>7. ChildInv
  BY <1>2 DEF Init, ChildInv, Host
<1>8. HostInv /\ AtInv /\ BusesBegin
  BY <1>1 DEF Init, HostInv, AtInv, BusesBegin, Host
<1>9. EntriesInv /\ PlacedInv
  BY <1>2 DEF EntriesInv, PlacedInv
<1>10. QED
  BY <1>3, <1>4, <1>5, <1>6, <1>7, <1>8, <1>9 DEF TreeInv

\* A scan leaves what it finds in host_bridge, and no bridge to hang it below.
LEMMA ScanStep == BridgeTreeInv /\ Scan => TreeInv'
<1> SUFFICES ASSUME BridgeTreeInv, Scan PROVE TreeInv'
  OBVIOUS
<1>0. Shape /\ IsFiniteSet(topology) /\ at = Host
  BY Facts DEF BridgeTreeInv, TreeInv, ScanInv, AtInv, Scan
<1>1. /\ UNCHANGED <<topology, bridges, child, buses, at>> /\ pc = "poll"
      /\ pc' = "bridges" /\ k' = 1 /\ Len(chain') = 1
  BY DEF Scan, tree
<1>2. Latest' = {} /\ Made' = 0 /\ Placed' = 0 /\ Linked' = Linked /\ Others' = Others
  BY <1>0, <1>1 DEF Scan, Latest, Made, Placed, Linked, Others, Shape
<1>3. LoopInv'
  <2>1. Len(devices') \in Nat
    <3>1. devices' \in Seq(topology)
      BY <1>0, SortedList DEF Scan
    <3>2. QED
      BY <3>1
  <2>2. QED
    BY <1>1, <2>1 DEF LoopInv
<1>4. ScanInv'
  <2>1. PICK S \in SUBSET topology : Closed(S) /\ devices' \in Sorted(S)
    BY DEF Scan
  <2>2. /\ Present' = S
        /\ \A i, j \in DOMAIN devices' : i < j => Precedes(devices'[i], devices'[j])
    BY <1>0, <2>1, SortedList DEF Present
  <2>3. QED
    BY <1>0, <1>1, <2>1, <2>2 DEF ScanInv, Closed
<1>5. BridgesInv'
  BY <1>1, <1>2 DEF BridgeTreeInv, TreeInv, BridgesInv
<1>6. ChainInv'
  BY <1>0, <1>1, <1>2 DEF ChainInv, Shape
<1>7. ChildInv'
  BY <1>1, <1>2 DEF BridgeTreeInv, TreeInv, ChildInv
<1>8. HostInv' /\ AtInv' /\ BusesBegin'
  BY <1>0, <1>1 DEF BridgeTreeInv, TreeInv, HostInv, AtInv, BusesBegin
<1>9. EntriesInv' /\ PlacedInv'
  BY <1>2 DEF EntriesInv, PlacedInv
<1>10. QED
  BY <1>3, <1>4, <1>5, <1>6, <1>7, <1>8, <1>9 DEF TreeInv

\* A new bridge goes last on the chain, behind those whose devices precede its own.
LEMMA MakeBridgeStep == BridgeTreeInv /\ MakeBridge => TreeInv'
<1> SUFFICES ASSUME BridgeTreeInv, MakeBridge PROVE TreeInv'
  OBVIOUS
<1> DEFINE n == Len(bridges)
           len == Len(chain)
<1>0. Shape /\ TypeOK /\ TreeInv
  BY Facts DEF BridgeTreeInv
<1>1. /\ UNCHANGED <<topology, scans, devices, pc, at>>
      /\ pc = "bridges" /\ k' = k + 1 /\ k \in 1 .. Len(devices) /\ k \in Nat
  BY <1>0 DEF MakeBridge, TypeOK, Shape
<1>2. Made = k - 1 /\ Made' = k /\ Placed' = 0 /\ at = Host
  BY <1>0, <1>1 DEF Made, Placed, TreeInv, AtInv
<1>3. LoopInv' /\ ScanInv' /\ AtInv'
  BY <1>0, <1>1, <1>2 DEF LoopInv, ScanInv, AtInv, TreeInv, Present, Closed, Shape
<1>4. PlacedInv'
  BY <1>2 DEF PlacedInv
<1>5. CASE IsBridge(devices[k])
  <2>0. n \in Nat /\ len \in Nat /\ n >= 1 /\ len >= 1 /\ len <= n
    BY <1>0 DEF Shape, TreeInv, ChainInv
  <2>1. /\ bridges' = Append(bridges, Bridge(devices[k])) /\ chain' = Append(chain, n + 1)
        /\ child' = Append(child, <<>>) /\ buses' = Append(buses, <<>>)
    BY <1>5 DEF MakeBridge
  <2> HIDE DEF n, len
  <2>2. /\ Len(bridges') = n + 1 /\ DOMAIN bridges' = 1 .. n + 1
        /\ bridges'[n + 1] = Bridge(devices[k]) /\ \A b \in 1 .. n : bridges'[b] = bridges[b]
    BY <1>0, <2>0, <2>1 DEF TypeOK, n
  <2>3. /\ Len(chain') = len + 1
        /\ chain'[len + 1] = n + 1 /\ \A i \in 1 .. len : chain'[i] = chain[i]
    BY <1>0, <2>0, <2>1 DEF TypeOK, len
  <2>4. child'[n + 1] = <<>> /\ \A b \in 1 .. n : child'[b] = child[b]
    <3>1. child \in Seq(Seq(DOMAIN bridges \ {Host})) /\ Len(child) = n
      BY <1>0 DEF TypeOK, n
    <3>2. QED
      BY <2>0, <2>1, <3>1, Appended
  <2>5. buses'[n + 1] = <<>> /\ \A b \in 1 .. n : buses'[b] = buses[b]
    <3>1. buses \in Seq(Seq(Bus)) /\ Len(buses) = n
      BY <1>0 DEF TypeOK, n
    <3>2. QED
      BY <2>0, <2>1, <3>1, Appended
  <2>6. Others' = Others \cup {n + 1} /\ Others = 2 .. n /\ n + 1 \notin Others
    <3>1. DOMAIN bridges = 1 .. n
      BY <1>0 DEF Shape, n
    <3>2. QED
      BY <2>0, <2>2, <3>1 DEF Others, Host
  <2>7. Latest' = Latest \cup {n + 1} /\ Latest \subseteq Others
    <3>1. DOMAIN chain = 1 .. len
      BY <1>0 DEF Shape, len
    <3>2. DOMAIN chain' = 1 .. len + 1
      BY <2>1, <2>3, <3>1, <1>0, Appended DEF TypeOK, len
    <3>3. Latest \subseteq Others
      BY <1>0 DEF Shape
    <3>4. QED
      BY <2>0, <2>3, <3>1, <3>2, <3>3 DEF Latest, Host
  <2>8. bridges'[n + 1].dev = devices[k] /\ devices[k] \in topology
    BY <1>0, <1>1, <2>2 DEF Bridge, Shape
  <2>9. BridgesInv'
    <3>1. bridges'[Host] = HostBridge
      BY <1>0, <2>0, <2>2 DEF TreeInv, BridgesInv, Host
    <3>2. \A b \in Others : bridges'[b] = bridges[b]
      BY <2>2, <2>6
    <3>3. /\ bridges'[n + 1].primary = devices[k].bus
          /\ bridges'[n + 1].secondary = devices[k].sec
          /\ bridges'[n + 1].subordinate = devices[k].sub
      BY <2>2 DEF Bridge
    <3>4. QED
      BY <1>0, <1>1, <1>5, <2>6, <2>8, <3>1, <3>2, <3>3 DEF TreeInv, BridgesInv
  <2>10. ChainInv'
    <3>1. /\ \A i \in 2 .. len : chain[i] = n - len + i /\ chain[i] \in 1 .. n
          /\ \A i \in 2 .. len : \E m \in 1 .. k - 1 : bridges[chain[i]].dev = devices[m]
      <4>1. ChainInv /\ Made = k - 1
        BY <1>0, <1>2 DEF TreeInv
      <4>2. len <= n /\ \A i \in 2 .. len : chain[i] = n - len + i
        BY <4>1 DEF ChainInv, n, len
      <4>3. \A i \in 2 .. len : chain[i] \in 1 .. n
        BY <2>0, <4>2
      <4>4. \A i \in 2 .. len : \E m \in 1 .. k - 1 : bridges[chain[i]].dev = devices[m]
        BY <4>1 DEF ChainInv, len
      <4>5. QED
        BY <4>2, <4>3, <4>4
    <3>2. \A i \in 2 .. len + 1 : chain'[i] = (n + 1) - (len + 1) + i
      <4>1. SUFFICES ASSUME NEW i \in 2 .. len + 1 PROVE chain'[i] = (n + 1) - (len + 1) + i
        OBVIOUS
      <4>2. CASE i \in 2 .. len
        <5>1. chain[i] = n - len + i /\ chain'[i] = chain[i]
          BY <2>0, <2>3, <3>1, <4>2
        <5>2. QED
          BY <2>0, <4>2, <5>1
      <4>3. CASE i = len + 1
        BY <2>0, <2>3, <4>3
      <4>4. QED
        BY <2>0, <4>1, <4>2, <4>3
    <3>3. \A i \in 2 .. len : bridges'[chain'[i]] = bridges[chain[i]]
      BY <2>0, <2>2, <2>3, <3>1
    <3>4. \A i \in 2 .. len + 1 : \E m \in 1 .. k : bridges'[chain'[i]].dev = devices[m]
      BY <1>1, <2>0, <2>3, <2>8, <3>1, <3>3
    <3>5. \A i, j \in 2 .. len + 1 :
            i < j => Precedes(bridges'[chain'[i]].dev, bridges'[chain'[j]].dev)
      <4>1. SUFFICES ASSUME NEW i \in 2 .. len + 1, NEW j \in 2 .. len + 1, i < j
                     PROVE  Precedes(bridges'[chain'[i]].dev, bridges'[chain'[j]].dev)
        OBVIOUS
      <4>2. CASE j \in 2 .. len
        <5>1. i \in 2 .. len
          BY <2>0, <4>1, <4>2
        <5>2. Precedes(bridges[chain[i]].dev, bridges[chain[j]].dev)
          BY <1>0, <4>1, <4>2, <5>1 DEF TreeInv, ChainInv, len
        <5>3. QED
          BY <3>3, <4>2, <5>1, <5>2
      <4>3. CASE j = len + 1
        <5>1. i \in 2 .. len
          BY <2>0, <4>1, <4>3
        <5>2. PICK m \in 1 .. k - 1 : bridges'[chain'[i]].dev = devices[m]
          BY <3>1, <3>3, <5>1
        <5>3. Precedes(devices[m], devices[k])
          <6>1. m \in DOMAIN devices /\ k \in DOMAIN devices /\ m < k
            BY <1>0, <1>1, <5>2 DEF Shape
          <6>2. QED
            BY <1>0, <6>1 DEF TreeInv, ScanInv
        <5>4. QED
          BY <2>3, <2>8, <4>3, <5>2, <5>3
      <4>4. QED
        BY <2>0, <4>2, <4>3
    <3>6. \A m \in 1 .. k : IsBridge(devices[m]) => \E b \in Latest' : bridges'[b].dev = devices[m]
      <4>1. \A b \in Latest : bridges'[b] = bridges[b]
        BY <2>2, <2>6, <2>7
      <4>2. \A m \in 1 .. k - 1 :
              IsBridge(devices[m]) => \E b \in Latest : bridges[b].dev = devices[m]
        BY <1>0, <1>2 DEF TreeInv, ChainInv
      <4>3. \A m \in 1 .. k : m \in 1 .. k - 1 \/ m = k
        BY <1>1
      <4>4. QED
        BY <2>7, <2>8, <4>1, <4>2, <4>3
    <3>7. Len(bridges') = n + 1 /\ Len(chain') = len + 1 /\ len + 1 <= n + 1
      BY <2>0, <2>2, <2>3
    <3>8. QED
      BY <1>1, <1>2, <3>2, <3>4, <3>5, <3>6, <3>7 DEF ChainInv
  <2>11. ChildInv'
    <3>1. Linked' = Linked
      BY <1>1, <2>0, <2>2, <2>3 DEF Linked, n, len
    <3>2. child'[Host] = child[Host]
      BY <2>0, <2>4 DEF Host
    <3>3. \A b \in Others : child'[b] = child[b]
      BY <2>4, <2>6
    <3>4. QED
      BY <1>0, <2>4, <2>6, <3>1, <3>2, <3>3 DEF TreeInv, ChildInv
  <2>12. HostInv'
    <3>1. buses'[Host] = buses[Host]
      BY <2>0, <2>5 DEF Host
    <3>2. QED
      BY <1>0, <1>1, <3>1 DEF TreeInv, HostInv
  <2>13. \A i \in 2 .. len + 1 : buses'[chain'[i]] = <<>>
    <3>1. \A i \in 2 .. len : chain[i] \in 1 .. n /\ buses[chain[i]] = <<>>
      BY <1>0, <1>1, <2>0 DEF TreeInv, ChainInv, BusesBegin, n, len
    <3>2. QED
      BY <2>0, <2>3, <2>5, <3>1
  <2>14. BusesBegin'
    BY <1>1, <2>3, <2>13 DEF BusesBegin
  <2>15. EntriesInv'
    <3>1. \A b \in Latest' : \E i \in 2 .. len + 1 : b = chain'[i]
      BY <1>0, <2>0, <2>3, <2>7 DEF Latest, TypeOK, Shape, len
    <3>2. QED
      BY <2>13, <3>1 DEF EntriesInv
  <2>16. QED
    BY <1>3, <1>4, <2>9, <2>10, <2>11, <2>12, <2>14, <2>15 DEF TreeInv
<1>6. CASE ~IsBridge(devices[k])
  <2>1. UNCHANGED <<bridges, child, buses, chain>>
    BY <1>6 DEF MakeBridge, tree
  <2>2. Latest' = Latest /\ Others' = Others /\ Linked' = Linked
    BY <1>1, <2>1 DEF Latest, Others, Linked
  <2>3. BridgesInv' /\ ChildInv' /\ HostInv' /\ BusesBegin'
    BY <1>0, <1>1, <2>1, <2>2 DEF TreeInv, BridgesInv, ChildInv, HostInv, BusesBegin
  <2>4. ChainInv'
    <3>1. \A m \in 1 .. k : m \in 1 .. k - 1 \/ m = k
      BY <1>1
    <3>2. \A m \in 1 .. k - 1 : m \in 1 .. k
      BY <1>1
    <3>3. QED
      BY <1>0, <1>1, <1>2, <1>6, <2>1, <2>2, <3>1, <3>2 DEF TreeInv, ChainInv
  <2>5. EntriesInv'
    <3>1. \A b \in Latest : buses[b] = <<>>
      BY <1>0, <1>1 DEF TreeInv, BusesBegin, Latest, TypeOK, Shape
    <3>2. QED
      BY <2>1, <2>2, <3>1 DEF EntriesInv
  <2>6. QED
    BY <1>3, <1>4, <2>3, <2>4, <2>5 DEF TreeInv
<1>7. QED
  BY <1>5, <1>6

\* The other bridges of the chain, by their places.
LEMMA OnChain ==
  ASSUME TypeOK, ChainInv
  PROVE  /\ chain[1] = Host
         /\ \A i \in 2 .. Len(chain) : chain[i] \in Others /\ chain[i] \in Latest
         /\ \A b \in Latest : \E i \in 2 .. Len(chain) : b = chain[i]
<1>1. Shape
  BY Facts
<1>2. chain[1] = Host
  BY DEF TypeOK
<1>3. ASSUME NEW i \in 2 .. Len(chain) PROVE chain[i] \in Others /\ chain[i] \in Latest
  <2>1. i \in DOMAIN chain /\ chain[i] \in DOMAIN bridges
    BY <1>1, <1>3 DEF Shape
  <2>2. chain[i] = Len(bridges) - Len(chain) + i /\ Len(chain) <= Len(bridges)
    BY <1>3 DEF ChainInv
  <2>3. chain[i] # Host
    BY <1>1, <1>3, <2>2 DEF Host, Shape
  <2>4. QED
    BY <2>1, <2>3 DEF Others, Latest
<1>4. ASSUME NEW b \in Latest PROVE \E i \in 2 .. Len(chain) : b = chain[i]
  <2>1. PICK i \in DOMAIN chain : b = chain[i]
    BY <1>4 DEF Latest
  <2>2. b # Host
    BY <1>4 DEF Latest
  <2>3. i \in 2 .. Len(chain)
    BY <1>1, <1>2, <2>1, <2>2 DEF Shape
  <2>4. QED
    BY <2>1, <2>3
<1>5. QED
  BY <1>2, <1>3, <1>4

\* A span is a number.
LEMMA SpanIsNat == \A x, y \in 0 .. 255 : Unsigned(x + Ones + 1 - y) \in Nat
<1>1. \A n \in Nat : n % (Ones + 1) \in Nat
  BY DEF Ones
<1>2. \A x, y \in 0 .. 255 : x + Ones + 1 - y \in Nat
  BY DEF Ones
<1>3. QED
  BY <1>1, <1>2, Zenon DEF Unsigned

\* host_bridge has a span of none.
LEMMA NoSpan == Unsigned(Ones + Ones + 1 - Ones) = 0
BY DEF Unsigned, Ones

\* host_bridge is the best parent of every bridge but itself, which has none.
LEMMA BestIsHost ==
  ASSUME TypeOK, BridgesInv, ChainInv, NEW i \in DOMAIN chain
  PROVE  Best(chain[i]) = IF i = 1 THEN {} ELSE {1}
<1>1. /\ Shape /\ chain[1] = Host /\ 1 \in DOMAIN chain
      /\ \A j \in DOMAIN chain \ {1} : chain[j] \in Others
  BY Facts, OnChain DEF Shape
<1>2. \A b \in Others : /\ bridges[b].primary \in 0 .. 255 /\ bridges[b].subordinate \in 0 .. 255
                        /\ bridges[b].secondary \in 0 .. 255
  <2>1. \A d \in topology : d.bus \in 0 .. 255 /\ d.sec \in 0 .. 255 /\ d.sub \in 0 .. 255
    BY TopologyNumbers
  <2>2. QED
    BY <2>1 DEF BridgesInv
<1>3. /\ bridges[Host].primary = Ones /\ bridges[Host].secondary = 0
      /\ bridges[Host].subordinate = Ones
  BY DEF BridgesInv, HostBridge
<1>4. CASE i = 1
  <2>1. \A j \in DOMAIN chain : chain[j] # Host => ~Covers(chain[j], Ones)
    BY <1>1, <1>2 DEF Covers, Ones
  <2>2. Parents(chain[i]) = {}
    BY <1>1, <1>3, <1>4, <2>1 DEF Parents
  <2>3. QED
    BY <1>4, <2>2 DEF Best
<1>5. CASE i # 1
  <2>1. chain[i] \in Others
    BY <1>1, <1>5
  <2>2. 1 \in Parents(chain[i])
    <3>1. chain[1] # chain[i]
      BY <1>1, <2>1 DEF Others
    <3>2. Covers(Host, bridges[chain[i]].primary)
      <4>1. PICK x \in 0 .. 255 : x = bridges[chain[i]].primary
        BY <1>2, <2>1
      <4>2. x \in 0 .. Ones
        BY BusNumbersFit DEF BusNumber
      <4>3. 0 <= x /\ x <= Ones
        BY <4>2
      <4>4. QED
        BY <1>3, <4>1, <4>3 DEF Covers
    <3>3. QED
      BY <1>1, <3>1, <3>2 DEF Parents
  <2>3. Span(Host) = 0
    BY <1>3, NoSpan DEF Span
  <2>4. \A j \in DOMAIN chain : Span(chain[j]) \in Nat
    <3>1. \A b \in Others : Span(b) \in Nat
      BY <1>2, SpanIsNat, Zenon DEF Span
    <3>2. QED
      BY <1>1, <2>3, <3>1
  <2>5. \A j \in Parents(chain[i]) : j \in DOMAIN chain /\ j \in Nat /\ j >= 1
    BY <1>1 DEF Parents, Shape
  <2> HIDE DEF Span
  <2>6. 1 \in Best(chain[i])
    BY <1>1, <2>2, <2>3, <2>4, <2>5 DEF Best
  <2>7. \A j \in Best(chain[i]) : j = 1
    BY <1>1, <2>2, <2>3, <2>4, <2>5 DEF Best
  <2>8. QED
    BY <1>5, <2>6, <2>7
<1>6. QED
  BY <1>4, <1>5

\* A turn of the second loop makes the bridge the first child of host_bridge.
LEMMA LinkTurn ==
  ASSUME TypeOK, TreeInv, Link
  PROVE  /\ UNCHANGED <<topology, scans, devices, bridges, buses, chain, pc, at>>
         /\ pc = "link" /\ k' = k + 1 /\ k \in 1 .. Len(chain)
         /\ k = 1 => UNCHANGED child
         /\ k # 1 => child' = [child EXCEPT ![Host] = <<chain[k]>> \o @]
<1>1. k \in DOMAIN chain /\ k \in 1 .. Len(chain) /\ chain[1] = Host
  <2>1. Len(chain) \in Nat /\ DOMAIN chain = 1 .. Len(chain)
    BY Facts DEF Shape
  <2>2. k \in Nat \ {0} /\ chain[1] = Host
    BY DEF TypeOK
  <2>3. k <= Len(chain)
    BY DEF Link
  <2>4. QED
    BY <2>1, <2>2, <2>3
<1>2. Best(chain[k]) = IF k = 1 THEN {} ELSE {1}
  BY <1>1, BestIsHost DEF TreeInv
<1>3. k = 1 => UNCHANGED child
  BY <1>2 DEF Link
<1>4. k # 1 => child' = [child EXCEPT ![Host] = <<chain[k]>> \o @]
  BY <1>1, <1>2 DEF Link, LinkFirst
<1>5. QED
  BY <1>1, <1>3, <1>4 DEF Link

\* Linking gives a bridge a child that is not host_bridge.
LEMMA LinkTypes == BridgeTreeInv /\ Link => TypeOK'
<1> SUFFICES ASSUME TypeOK, TreeInv, Link PROVE TypeOK'
  BY DEF BridgeTreeInv
<1>0. Shape
  BY Facts
<1>1. /\ UNCHANGED <<topology, scans, devices, bridges, buses, chain, pc, at>>
      /\ k' = k + 1 /\ k \in 1 .. Len(chain)
  BY LinkTurn
<1>2. Bus' = Bus /\ Present' = Present /\ Latest' = Latest
  BY <1>1, SameDevices, SameLatest
<1>3. child \in Seq(Seq(Others)) /\ Len(child) = Len(bridges) /\ Host \in DOMAIN child
  BY <1>0 DEF TypeOK, Others, Shape, Host
<1>4. child' \in Seq(Seq(Others)) /\ Len(child') = Len(bridges)
  <2>1. CASE k = 1
    BY <1>3, <2>1, LinkTurn
  <2>2. CASE k # 1
    <3>1. chain[k] \in Others
      BY <1>1, <2>2, OnChain DEF TreeInv, Shape
    <3>2. <<chain[k]>> \o child[Host] \in Seq(Others)
      BY <1>3, <3>1, Prepended
    <3>3. child' = [child EXCEPT ![Host] = <<chain[k]>> \o child[Host]]
      BY <2>2, LinkTurn
    <3>4. QED
      BY <1>3, <3>2, <3>3
  <2>3. QED
    BY <2>1, <2>2
<1>5. k' \in Nat \ {0}
  <2>1. PICK n \in Nat : n = k
    BY DEF TypeOK
  <2>2. n + 1 \in Nat \ {0}
    OBVIOUS
  <2>3. QED
    BY <1>1, <2>1, <2>2
<1>6. QED
  BY <1>1, <1>2, <1>4, <1>5 DEF TypeOK, Others

\* Every bridge becomes the first child of host_bridge when it is linked.
LEMMA LinkStep == BridgeTreeInv /\ Link => TreeInv'
<1> SUFFICES ASSUME TypeOK, TreeInv, Link PROVE TreeInv'
  BY DEF BridgeTreeInv
<1> DEFINE n == Len(bridges)
           len == Len(chain)
<1>0. Shape
  BY Facts
<1>1. /\ UNCHANGED <<topology, scans, devices, bridges, buses, chain, pc, at>>
      /\ pc = "link" /\ k' = k + 1 /\ k \in 1 .. len
  BY LinkTurn
<1>2. /\ Latest' = Latest /\ Present' = Present /\ Others' = Others
      /\ Made' = Made /\ Placed = 0 /\ Placed' = 0
  BY <1>1, SameLatest DEF Others, Made, Placed
<1>3. n \in Nat /\ len \in Nat /\ len >= 1 /\ len <= n
  BY <1>0 DEF Shape, TreeInv, ChainInv
<1>4. LoopInv' /\ ScanInv' /\ BridgesInv' /\ HostInv'
  BY <1>1, <1>2, <1>3 DEF TreeInv, LoopInv, ScanInv, Closed, BridgesInv, HostInv
<1>5. ChainInv'
  BY <1>1, <1>2 DEF TreeInv, ChainInv
<1>6. AtInv' /\ BusesBegin'
  BY <1>1 DEF TreeInv, AtInv, BusesBegin
<1>7. PlacedInv'
  BY <1>2 DEF PlacedInv
<1>8. EntriesInv'
  <2>1. \A b \in Latest : buses[b] = <<>>
    BY <1>1, OnChain DEF TreeInv, BusesBegin
  <2>2. QED
    BY <1>1, <1>2, <2>1 DEF EntriesInv
<1>9. ChildInv'
  <2>1. CASE k = 1
    <3>1. Linked' = Linked
      BY <1>1, <1>3, <2>1 DEF Linked
    <3>2. QED
      BY <1>2, <2>1, <3>1, LinkTurn DEF TreeInv, ChildInv
  <2>2. CASE k # 1
    <3> DEFINE l == Linked
    <3>1. Linked = n - len + k - 1 /\ Linked' = n - len + k
      BY <1>1, <1>3, <2>2 DEF Linked
    <3>2. chain[k] = n - len + k
      BY <1>1, <2>2 DEF TreeInv, ChainInv
    <3> HIDE DEF n, len
    <3>3. l \in Nat /\ l >= 1 /\ Linked' = l + 1 /\ chain[k] = l + 1
      BY <1>1, <1>3, <2>2, <3>1, <3>2
    <3>4. child' = [child EXCEPT ![Host] = <<chain[k]>> \o @]
      BY <2>2, LinkTurn
    <3>5. Host \in DOMAIN child /\ Host \notin Others
      BY <1>0 DEF Shape, Host, Others
    <3> HIDE DEF l
    <3>6. child'[Host] = <<l + 1>> \o child[Host]
      BY <3>3, <3>4, <3>5
    <3>7. child[Host] = [i \in 1 .. l - 1 |-> l + 1 - i]
      BY DEF TreeInv, ChildInv, l
    <3>8. child'[Host] = [i \in 1 .. l |-> l + 2 - i]
      BY <3>3, <3>6, <3>7
    <3>9. \A b \in Others : child'[b] = <<>>
      BY <3>4, <3>5 DEF TreeInv, ChildInv
    <3>10. child'[Host] = [i \in 1 .. Linked' - 1 |-> Linked' + 1 - i]
      BY <3>3, <3>8
    <3>11. QED
      BY <1>2, <3>9, <3>10 DEF ChildInv
  <2>3. QED
    BY <2>1, <2>2
<1>10. QED
  BY <1>4, <1>5, <1>6, <1>7, <1>8, <1>9 DEF TreeInv

\* Going on to the next loop changes nothing that has a type.
LEMMA LoopEndsTypes ==
  ASSUME TypeOK, NEW loop, NEW next \in {"poll", "link", "buses", "insert"}, NEW length,
         LoopEnds(loop, next, length)
  PROVE  TypeOK'
<1>1. /\ UNCHANGED <<topology, scans, devices, bridges, child, buses, chain, at>>
      /\ pc' = next /\ k' = 1
  BY DEF LoopEnds, tree
<1>2. Bus' = Bus /\ Present' = Present /\ Latest' = Latest
  BY <1>1, SameDevices, SameLatest
<1>3. QED
  BY <1>1, <1>2 DEF TypeOK

\* When a loop ends the next finds what it needs.
LEMMA LoopEndsStep ==
  ASSUME BridgeTreeInv,
         \/ LoopEnds("bridges", "link", Len(devices))
         \/ LoopEnds("link", "buses", Len(chain))
         \/ LoopEnds("buses", "insert", Len(chain))
         \/ LoopEnds("insert", "poll", Len(devices))
  PROVE  TreeInv'
<1>0. TypeOK /\ TreeInv /\ Shape
  BY Facts DEF BridgeTreeInv
<1>1. UNCHANGED <<topology, scans, devices, bridges, child, buses, chain, at>> /\ k' = 1
  BY DEF LoopEnds, tree
<1>2. Latest' = Latest /\ Present' = Present /\ Others' = Others
  BY <1>1, SameLatest DEF Others
<1>3. \/ pc = "bridges" /\ pc' = "link" /\ k = Len(devices) + 1
      \/ pc = "link" /\ pc' = "buses" /\ k = Len(chain) + 1
      \/ pc = "buses" /\ pc' = "insert" /\ k = Len(chain) + 1
      \/ pc = "insert" /\ pc' = "poll" /\ k = Len(devices) + 1
  <2>1. k \in Nat /\ Len(devices) \in Nat /\ Len(chain) \in Nat
    BY <1>0 DEF TypeOK, Shape
  <2>2. /\ pc \in {"bridges", "insert"} => k <= Len(devices) + 1
        /\ pc \in {"link", "buses"} => k <= Len(chain) + 1
    BY <1>0 DEF TreeInv, LoopInv
  <2>3. QED
    BY <2>1, <2>2 DEF LoopEnds
<1>4. Len(devices) \in Nat /\ Len(chain) \in Nat /\ Len(chain) >= 1 /\ Len(bridges) \in Nat
  BY <1>0 DEF Shape
<1>5. Made' = Made /\ Linked' = Linked /\ Placed' = Placed
  BY <1>1, <1>3, <1>4 DEF Made, Linked, Placed
<1>6. LoopInv'
  BY <1>1, <1>3, <1>4 DEF LoopInv
<1>7. ScanInv' /\ BridgesInv' /\ ChainInv' /\ ChildInv' /\ HostInv'
  BY <1>0, <1>1, <1>2, <1>5
  DEF TreeInv, ScanInv, Closed, BridgesInv, ChainInv, ChildInv, HostInv
<1>8. AtInv'
  BY <1>0, <1>1, <1>3, <1>4 DEF TreeInv, AtInv
<1>9. BusesBegin'
  <2>1. SUFFICES ASSUME NEW i \in 2 .. Len(chain) PROVE BusesBegin!(i)'
    BY <1>1 DEF BusesBegin
  <2>2. BusesBegin!(i)
    BY <1>0 DEF TreeInv, BusesBegin
  <2> DEFINE own == buses[chain[i]]
  <2>3. own' = own /\ i \in Nat /\ i >= 1 /\ i <= Len(chain)
    BY <1>1, <1>4
  <2>4. CASE pc = "bridges" \/ pc = "link"
    <3>1. own = <<>>
      BY <2>2, <2>4
    <3>2. pc' = "link" \/ (pc' = "buses" /\ i >= k')
      BY <1>1, <1>3, <2>3, <2>4
    <3>3. QED
      BY <1>1, <1>3, <2>3, <2>4, <3>1, <3>2
  <2>5. CASE pc = "buses"
    <3>1. pc' = "insert" /\ i < k
      BY <1>3, <1>4, <2>3, <2>5
    <3>2. Len(own) = 1
      BY <2>2, <2>5, <3>1
    <3> HIDE DEF own
    <3>3. Len(own') >= 1 /\ \A j \in 1 .. Len(own') - 1 : own'[j].devs # <<>>
      BY <2>3, <3>2
    <3>4. QED
      BY <3>1, <3>3 DEF own
  <2>6. CASE pc = "insert"
    BY <1>1, <1>3, <2>2, <2>6
  <2>7. QED
    BY <1>3, <2>4, <2>5, <2>6
<1>10. \A d : Above(d)' = Above(d) /\ ParentOf(d)' = ParentOf(d)
  BY <1>2 DEF Above, ParentOf
<1>11. EntriesInv'
  <2>1. \A x, b : Belongs(x, b)' = Belongs(x, b)
    BY <1>1, <1>5, <1>10 DEF Belongs
  <2>2. QED
    BY <1>0, <1>1, <1>2, <2>1 DEF TreeInv, EntriesInv
<1>12. PlacedInv'
  BY <1>0, <1>1, <1>2, <1>5, <1>10 DEF TreeInv, PlacedInv, HangsBelow
<1>13. QED
  BY <1>6, <1>7, <1>8, <1>9, <1>11, <1>12 DEF TreeInv

\* In new, bridge b has one bus more, in front.
HasNewBus(new, b, number, devs) ==
  /\ new \in Seq(Seq(Bus)) /\ Len(new) = Len(buses)
  /\ \A c \in DOMAIN buses \ {b} : new[c] = buses[c]
  /\ new[b] \in Seq(Bus) /\ Len(new[b]) = Len(buses[b]) + 1
  /\ new[b][1] = [number |-> number, devs |-> devs]
  /\ \A i \in 1 .. Len(buses[b]) : new[b][i + 1] = buses[b][i]

\* new_bus
LEMMA BusAdded ==
  ASSUME TypeOK, NEW b \in DOMAIN buses, NEW number \in BusNumber, NEW devs \in Seq(Entry),
         NEW new, new = NewBus(b, number, devs)
  PROVE  HasNewBus(new, b, number, devs)
<1> DEFINE bus == [number |-> number, devs |-> devs]
<1>1. bus \in Bus /\ buses \in Seq(Seq(Bus)) /\ buses[b] \in Seq(Bus)
  BY Facts DEF Bus, Shape, TypeOK
<1> HIDE DEF bus
<1>2. new = [buses EXCEPT ![b] = <<bus>> \o buses[b]]
  BY DEF NewBus, bus
<1>3. /\ <<bus>> \o buses[b] \in Seq(Bus) /\ Len(<<bus>> \o buses[b]) = Len(buses[b]) + 1
      /\ (<<bus>> \o buses[b])[1] = bus
      /\ \A i \in 1 .. Len(buses[b]) : (<<bus>> \o buses[b])[i + 1] = buses[b][i]
  BY <1>1, Prepended
<1>4. QED
  BY <1>1, <1>2, <1>3 DEF bus, HasNewBus

\* A turn of the third loop gives one bridge a bus without devices: a bridge of
\* this scan its first, host_bridge bus 0 unless it has it.
LEMMA AddSecondaryTurn ==
  ASSUME TypeOK, TreeInv, AddSecondary
  PROVE  /\ UNCHANGED <<topology, scans, devices, bridges, child, chain, pc, at>>
         /\ pc = "buses" /\ k' = k + 1 /\ k \in 1 .. Len(chain)
         /\ buses' \in Seq(Seq(Bus)) /\ Len(buses') = Len(buses)
         /\ \A c \in DOMAIN buses \ {chain[k]} : buses'[c] = buses[c]
         /\ k # 1 => Len(buses'[chain[k]]) = 1 /\ buses'[chain[k]][1].devs = <<>>
         /\ k = 1 => \A i \in DOMAIN buses'[Host] :
              \/ buses'[Host][i].number = 0
              \/ \E j \in DOMAIN buses[Host] : buses'[Host][i] = buses[Host][j]
<1> DEFINE b == chain[k]
<1>0. Shape
  BY Facts
<1>1. /\ UNCHANGED <<topology, scans, devices, bridges, child, chain, pc, at>>
      /\ pc = "buses" /\ k' = k + 1 /\ k \in 1 .. Len(chain)
  BY <1>0 DEF AddSecondary, TypeOK, Shape
<1>2. b \in DOMAIN buses /\ buses \in Seq(Seq(Bus)) /\ buses[b] \in Seq(Bus)
  BY <1>0, <1>1 DEF Shape, TypeOK
<1>3. bridges[b].secondary \in BusNumber
  BY <1>0, <1>2 DEF Shape, StructBridge
<1>4. (k # 1 => buses[b] = <<>>) /\ (k = 1 => b = Host /\ bridges[b].secondary = 0)
  BY <1>1, OnChain DEF TreeInv, BusesBegin, BridgesInv, HostBridge
<1>5. CASE FindBus(b, bridges[b].secondary) # {}
  <2>1. buses' = buses
    BY <1>5 DEF AddSecondary
  <2>2. k = 1
    BY <1>4, <1>5 DEF FindBus
  <2>3. QED
    BY <1>1, <1>2, <2>1, <2>2
<1>6. CASE FindBus(b, bridges[b].secondary) = {}
  <2>1. buses' = NewBus(b, bridges[b].secondary, <<>>)
    BY <1>6 DEF AddSecondary
  <2>2. <<>> \in Seq(Entry)
    OBVIOUS
  <2> HIDE DEF b
  <2>3. /\ buses' \in Seq(Seq(Bus)) /\ Len(buses') = Len(buses)
        /\ \A c \in DOMAIN buses \ {b} : buses'[c] = buses[c]
        /\ buses'[b] \in Seq(Bus) /\ Len(buses'[b]) = Len(buses[b]) + 1
        /\ buses'[b][1] = [number |-> bridges[b].secondary, devs |-> <<>>]
        /\ \A i \in 1 .. Len(buses[b]) : buses'[b][i + 1] = buses[b][i]
    <3>1. HasNewBus(buses', b, bridges[b].secondary, <<>>)
      BY <1>2, <1>3, <2>1, <2>2, BusAdded
    <3>2. QED
      BY <3>1 DEF HasNewBus
  <2>4. k # 1 => Len(buses'[b]) = 1 /\ buses'[b][1].devs = <<>>
    BY <1>4, <2>3
  <2>5. ASSUME k = 1, NEW i \in DOMAIN buses'[Host]
        PROVE  \/ buses'[Host][i].number = 0
               \/ \E j \in DOMAIN buses[Host] : buses'[Host][i] = buses[Host][j]
    <3>1. b = Host /\ bridges[b].secondary = 0
      BY <1>4, <2>5
    <3>2. DOMAIN buses'[Host] = 1 .. Len(buses[Host]) + 1
      BY <1>2, <2>3, <3>1
    <3>3. DOMAIN buses[Host] = 1 .. Len(buses[Host]) /\ Len(buses[Host]) \in Nat
      BY <1>2, <3>1
    <3>4. CASE i = 1
      BY <2>3, <3>1, <3>4
    <3>5. CASE i # 1
      <4>1. i - 1 \in 1 .. Len(buses[Host]) /\ (i - 1) + 1 = i
        BY <2>5, <3>2, <3>3, <3>5
      <4>2. buses'[Host][i] = buses[Host][i - 1]
        BY <2>3, <3>1, <4>1
      <4>3. QED
        BY <3>3, <4>1, <4>2
    <3>6. QED
      BY <3>4, <3>5
  <2>6. QED
    BY <1>1, <2>3, <2>4, <2>5 DEF b
<1>7. QED
  BY <1>5, <1>6

\* A secondary bus is well formed.
LEMMA AddSecondaryTypes == BridgeTreeInv /\ AddSecondary => TypeOK'
<1> SUFFICES ASSUME TypeOK, TreeInv, AddSecondary PROVE TypeOK'
  BY DEF BridgeTreeInv
<1>1. /\ UNCHANGED <<topology, scans, devices, bridges, child, chain, pc, at>>
      /\ k' = k + 1 /\ buses' \in Seq(Seq(Bus)) /\ Len(buses') = Len(buses)
  BY AddSecondaryTurn
<1>2. Bus' = Bus /\ Present' = Present /\ Latest' = Latest
  BY <1>1, SameDevices, SameLatest
<1>3. k' \in Nat \ {0}
  BY <1>1 DEF TypeOK
<1>4. QED
  BY <1>1, <1>2, <1>3 DEF TypeOK

\* A bridge of this scan gets one bus and no device on it.
LEMMA AddSecondaryStep == BridgeTreeInv /\ AddSecondary => TreeInv'
<1> SUFFICES ASSUME TypeOK, TreeInv, AddSecondary PROVE TreeInv'
  BY DEF BridgeTreeInv
<1>0. Shape
  BY Facts
<1>1. /\ UNCHANGED <<topology, scans, devices, bridges, child, chain, pc, at>>
      /\ pc = "buses" /\ k' = k + 1 /\ k \in 1 .. Len(chain) /\ k \in Nat
      /\ DOMAIN buses' = DOMAIN buses /\ \A b \in DOMAIN buses' : buses'[b] \in Seq(Bus)
  BY <1>0, AddSecondaryTurn DEF Shape
<1>2. /\ Latest' = Latest /\ Present' = Present /\ Others' = Others
      /\ Made' = Made /\ Linked' = Linked /\ Placed' = 0
  BY <1>1, SameLatest DEF Others, Made, Linked, Placed
<1>3. LoopInv' /\ ScanInv' /\ BridgesInv' /\ AtInv'
  BY <1>0, <1>1, <1>2 DEF TreeInv, LoopInv, ScanInv, Closed, BridgesInv, AtInv, Shape
<1>4. ChainInv' /\ ChildInv'
  BY <1>1, <1>2 DEF TreeInv, ChainInv, ChildInv
<1>5. HostInv'
  <2>1. CASE k = 1
    <3>1. \A e \in topology : IsBridge(e) => ~(e.sec <= 0 /\ 0 <= e.sub)
      <4>1. \A e \in topology : e.bus \in 0 .. 255 /\ e.sec \in 0 .. 255
        BY TopologyNumbers
      <4>2. \A e \in topology : IsBridge(e) => e.bus < e.sec
        BY DEF TypeOK, WellNumbered
      <4>3. QED
        BY <4>1, <4>2
    <3>2. \A i \in DOMAIN buses'[Host] :
            \/ buses'[Host][i].number = 0
            \/ \E j \in DOMAIN buses[Host] : buses'[Host][i] = buses[Host][j]
      BY <2>1, AddSecondaryTurn
    <3>3. HostInv
      BY DEF TreeInv
    <3>4. QED
      BY <1>1, <3>1, <3>2, <3>3 DEF HostInv
  <2>2. CASE k # 1
    <3>1. buses'[Host] = buses[Host]
      <4>1. chain[k] # Host
        BY <1>1, <2>2, OnChain DEF TreeInv, Others
      <4>2. Host \in DOMAIN buses
        BY <1>0 DEF Shape, Host
      <4>3. QED
        BY <4>1, <4>2, AddSecondaryTurn
    <3>2. QED
      BY <1>1, <3>1 DEF TreeInv, HostInv
  <2>3. QED
    BY <2>1, <2>2
<1>6. BusesBegin'
  <2>1. SUFFICES ASSUME NEW i \in 2 .. Len(chain)
                 PROVE  /\ i >= k + 1 => buses'[chain[i]] = <<>>
                        /\ i < k + 1 =>
                             Len(buses'[chain[i]]) = 1 /\ buses'[chain[i]][1].devs = <<>>
    BY <1>1 DEF BusesBegin
  <2>2. /\ i >= k => buses[chain[i]] = <<>>
        /\ i < k => Len(buses[chain[i]]) = 1 /\ buses[chain[i]][1].devs = <<>>
    BY <1>1 DEF TreeInv, BusesBegin
  <2>3. i \in Nat /\ i # 1 /\ chain[i] \in DOMAIN buses
    BY <1>0 DEF Shape
  <2>4. CASE i = k
    BY <1>1, <2>3, <2>4, AddSecondaryTurn
  <2>5. CASE i # k
    <3>1. chain[i] # chain[k]
      <4>1. CASE k = 1
        BY <4>1, OnChain DEF TreeInv, Others
      <4>2. CASE k # 1
        BY <1>0, <1>1, <2>3, <2>5, <4>2 DEF TreeInv, ChainInv, Shape
      <4>3. QED
        BY <4>1, <4>2
    <3>2. buses'[chain[i]] = buses[chain[i]]
      BY <2>3, <3>1, AddSecondaryTurn
    <3>3. QED
      BY <1>1, <2>2, <2>3, <2>5, <3>2
  <2>6. QED
    BY <2>4, <2>5
<1>7. EntriesInv'
  <2>1. SUFFICES ASSUME NEW b \in Latest, NEW i \in DOMAIN buses'[b]
                 PROVE  buses'[b][i].devs = <<>>
    BY <1>2 DEF EntriesInv, InOrder
  <2>2. PICK j \in 2 .. Len(chain) : b = chain[j]
    BY OnChain DEF TreeInv
  <2>3. \/ buses'[b] = <<>>
        \/ Len(buses'[b]) = 1 /\ buses'[b][1].devs = <<>>
    BY <1>1, <1>6, <2>2 DEF BusesBegin
  <2>4. buses'[b] \in Seq(Bus)
    BY <1>0, <1>1 DEF Shape, Others
  <2>5. QED
    BY <2>1, <2>3, <2>4
<1>8. PlacedInv'
  BY <1>2 DEF PlacedInv
<1>9. QED
  BY <1>3, <1>4, <1>5, <1>6, <1>7, <1>8 DEF TreeInv

----------------------------------------------------------------------------
(***************************************************************************)
(* Where insert_dev goes.                                                  *)
(***************************************************************************)

\* The fields of a device are numbers.
LEMMA FieldsAreNumbers ==
  ASSUME NEW d \in Device
  PROVE  d.bus \in Nat /\ d.fn \in Nat /\ d.sec \in Nat /\ d.sub \in Nat
BY DEF Device, BusNumber

\* Of the bridges above one device, the one with the highest secondary bus is
\* the parent: no two have the same.
LEMMA ParentIs ==
  ASSUME TypeOK, NEW d \in Device, NEW e \in Above(d), \A f \in Above(d) : f.sec <= e.sec
  PROVE  ParentOf(d) = e
<1>1. \A f \in Above(d) : f \in topology /\ f \in Device /\ IsBelow(d, f) /\ IsBridge(f)
  <2>1. Shape
    BY Facts
  <2>2. QED
    BY <2>1 DEF Above, Present, IsBelow, Shape
<1>2. ASSUME NEW f \in Above(d), f.sec = e.sec PROVE f = e
  <2>0. SUFFICES ASSUME f # e PROVE FALSE
    OBVIOUS
  <2>1. /\ IsBelow(f, e) => e.sec < f.sec
        /\ IsBelow(e, f) => f.sec < e.sec
        /\ ~IsBelow(f, e) /\ ~IsBelow(e, f) => f.sub < e.sec \/ e.sub < f.sec
    BY <1>1, <2>0 DEF TypeOK, WellNumbered
  <2>2. f.sec <= f.sub /\ e.sec <= e.sub
    BY <1>1 DEF TypeOK, WellNumbered
  <2>3. f.sec \in Nat /\ f.sub \in Nat /\ e.sec \in Nat /\ e.sub \in Nat
    BY <1>1, FieldsAreNumbers
  <2>4. QED
    BY <1>2, <2>1, <2>2, <2>3
<1>3. \A f \in Above(d) : f.sec \in Nat
  BY <1>1, FieldsAreNumbers
<1>4. \A f \in Above(d) : (\A g \in Above(d) : g.sec <= f.sec) <=> f = e
  <2>1. ASSUME NEW f \in Above(d), e.sec <= f.sec PROVE f.sec = e.sec
    <3>1. f.sec \in Nat /\ e.sec \in Nat /\ f.sec <= e.sec
      BY <1>3
    <3>2. QED
      BY <2>1, <3>1
  <2>2. QED
    BY <1>2, <2>1
<1>5. QED
  BY <1>4 DEF ParentOf, Innermost

\* A struct bridge covers what is below its device.
LEMMA CoversWhatIsBelow ==
  ASSUME BridgesInv, NEW b \in Others, NEW d
  PROVE  Covers(b, d.bus) <=> IsBelow(d, bridges[b].dev)
BY DEF BridgesInv, Covers, IsBelow

\* While devices are put on their buses, each bridge above one is on the chain.
LEMMA AboveIsLatest ==
  ASSUME TypeOK, TreeInv, pc = "insert", NEW d, NEW e \in Above(d)
  PROVE  \E b \in Latest : bridges[b].dev = e
<1>1. PICK m \in DOMAIN devices : e = devices[m]
  BY DEF Above, Present
<1>2. m \in 1 .. Made /\ IsBridge(devices[m])
  BY <1>1, Facts DEF Made, Shape, Above, IsBelow
<1>3. QED
  BY <1>1, <1>2 DEF TreeInv, ChainInv

\* The children of host_bridge are all the bridges ever made, youngest first.
LEMMA AllAreChildren ==
  ASSUME TypeOK, TreeInv, pc = "insert"
  PROVE  /\ DOMAIN child[Host] = 1 .. Len(bridges) - 1
         /\ \A i \in DOMAIN child[Host] : child[Host][i] = Len(bridges) + 1 - i
         /\ \A i \in DOMAIN child[Host] : child[Host][i] \in Others
         /\ \A b \in Others : Len(bridges) + 1 - b \in DOMAIN child[Host]
<1>1. Len(bridges) \in Nat /\ Len(bridges) >= 1 /\ Others = 2 .. Len(bridges)
  BY Facts DEF Shape, Others, Host
<1>2. Linked = Len(bridges)
  BY DEF Linked
<1>3. child[Host] = [i \in 1 .. Len(bridges) - 1 |-> Len(bridges) + 1 - i]
  BY <1>2 DEF TreeInv, ChildInv
<1>4. QED
  BY <1>1, <1>3

\* The bridges of this scan are those made last.
LEMMA LatestAreLast ==
  ASSUME TypeOK, ChainInv
  PROVE  /\ Latest = {b \in Others : b > Len(bridges) + 1 - Len(chain)}
         /\ \A b, c \in Latest : b < c => Precedes(bridges[b].dev, bridges[c].dev)
<1> DEFINE n == Len(bridges)
           len == Len(chain)
<1>1. n \in Nat /\ len \in Nat /\ len >= 1 /\ Others = 2 .. n /\ len <= n
  BY Facts DEF Shape, Others, Host, ChainInv
<1>2. \A i \in 2 .. len : chain[i] = n - len + i /\ chain[i] \in Latest
  BY OnChain DEF ChainInv
<1>3. \A b \in Latest : \E i \in 2 .. len : b = chain[i]
  BY OnChain
<1>4. \A i, j \in 2 .. len : i < j => Precedes(bridges[chain[i]].dev, bridges[chain[j]].dev)
  BY DEF ChainInv
<1> HIDE DEF n, len
<1>5. \A b \in Latest : b \in Others /\ b > n + 1 - len
  BY <1>1, <1>2, <1>3
<1>6. \A b \in Others : b > n + 1 - len => b \in Latest
  <2>1. SUFFICES ASSUME NEW b \in Others, b > n + 1 - len PROVE b \in Latest
    OBVIOUS
  <2>2. b - n + len \in 2 .. len /\ n - len + (b - n + len) = b
    BY <1>1, <2>1
  <2>3. QED
    BY <1>2, <2>2
<1>7. ASSUME NEW b \in Latest, NEW c \in Latest, b < c
      PROVE  Precedes(bridges[b].dev, bridges[c].dev)
  <2>1. PICK i \in 2 .. len : b = chain[i]
    BY <1>3
  <2>2. PICK j \in 2 .. len : c = chain[j]
    BY <1>3
  <2>3. i < j
    BY <1>1, <1>2, <1>7, <2>1, <2>2
  <2>4. QED
    BY <1>4, <2>1, <2>2, <2>3
<1>8. QED
  BY <1>5, <1>6, <1>7 DEF n, len

\* A device that insert_dev puts on a bus of host_bridge has no bridge above.
LEMMA HostHasTheRest ==
  ASSUME TypeOK, TreeInv, pc = "insert", NEW d \in Present, Stops(Host, d.bus)
  PROVE  Above(d) = {}
<1> SUFFICES ASSUME NEW e \in Above(d) PROVE FALSE
  OBVIOUS
<1>1. PICK b \in Latest : bridges[b].dev = e
  BY AboveIsLatest
<1>2. b \in Others /\ Covers(b, d.bus)
  BY <1>1, CoversWhatIsBelow, Facts DEF Above, TreeInv, Shape
<1>3. CASE FindBus(Host, d.bus) # {}
  <2>1. PICK i \in DOMAIN buses[Host] : buses[Host][i].number = d.bus
    BY <1>3 DEF FindBus
  <2>2. e \in topology /\ IsBridge(e) /\ e.sec <= d.bus /\ d.bus <= e.sub
    BY Facts DEF Above, Present, IsBelow, Shape
  <2>3. QED
    BY <2>1, <2>2 DEF TreeInv, HostInv
<1>4. CASE Below(Host, d.bus) = {}
  <2>1. /\ Len(bridges) + 1 - b \in DOMAIN child[Host]
        /\ child[Host][Len(bridges) + 1 - b] = b
    <3>1. Len(bridges) \in Nat /\ b \in Nat
      BY <1>2, Facts DEF Others, Shape
    <3>2. Len(bridges) + 1 - (Len(bridges) + 1 - b) = b
      BY <3>1
    <3>3. QED
      BY <1>2, <3>2, AllAreChildren
  <2>2. QED
    BY <1>2, <1>4, <2>1 DEF Below
<1>5. QED
  BY <1>3, <1>4 DEF Stops

\* Where it goes down to is the parent.
LEMMA DescendsToParent ==
  ASSUME TypeOK, TreeInv, pc = "insert", NEW d \in Present, NEW i \in Below(Host, d.bus),
         \A j \in Below(Host, d.bus) : i <= j
  PROVE  /\ child[Host][i] \in Latest /\ Above(d) # {}
         /\ bridges[child[Host][i]].dev = ParentOf(d)
<1> DEFINE c == child[Host][i]
           e == bridges[c].dev
<1>1. Shape /\ d \in Device /\ d \in topology
  BY Facts DEF Shape, Present
<1>2. c \in Others /\ Covers(c, d.bus) /\ i \in DOMAIN child[Host]
  BY AllAreChildren DEF Below
<1>3. e \in topology /\ IsBelow(d, e)
  BY <1>2, CoversWhatIsBelow DEF TreeInv, BridgesInv
<1>4. e \in Above(d)
  BY <1>1, <1>3 DEF TreeInv, ScanInv, Closed, Above
<1> HIDE DEF e, c
<1>5. \A b \in Others : Covers(b, d.bus) => b <= c
  <2>1. SUFFICES ASSUME NEW b \in Others, Covers(b, d.bus) PROVE b <= c
    OBVIOUS
  <2>2. Len(bridges) \in Nat /\ b \in Nat /\ i \in Nat /\ Len(bridges) + 1 - b \in Nat
    <3>1. Len(bridges) \in Nat /\ Others = 2 .. Len(bridges)
      BY <1>1 DEF Others, Shape, Host
    <3>2. i \in 1 .. Len(bridges) - 1
      BY <1>2, AllAreChildren
    <3>3. QED
      BY <2>1, <3>1, <3>2
  <2>3. /\ Len(bridges) + 1 - b \in DOMAIN child[Host]
        /\ child[Host][Len(bridges) + 1 - b] = b
    <3>1. Len(bridges) + 1 - (Len(bridges) + 1 - b) = b
      BY <2>2
    <3>2. QED
      BY <2>1, <3>1, AllAreChildren
  <2>4. Len(bridges) + 1 - b \in Below(Host, d.bus)
    BY <2>1, <2>3 DEF Below
  <2>5. i <= Len(bridges) + 1 - b
    BY <2>4
  <2>6. c = Len(bridges) + 1 - i
    BY <1>2, AllAreChildren DEF c
  <2>7. QED
    BY <2>2, <2>5, <2>6
<1>6. \A f \in Above(d) : \E b \in Latest : bridges[b].dev = f /\ b \in Others /\ b <= c
  BY <1>1, <1>5, AboveIsLatest, CoversWhatIsBelow DEF Shape, Above, TreeInv
<1>7. c \in Latest
  <2>1. PICK b \in Latest : b \in Others /\ b <= c
    BY <1>4, <1>6
  <2>2. Len(bridges) \in Nat /\ Len(chain) \in Nat /\ b \in Nat /\ c \in Nat
    BY <1>1, <1>2, <2>1 DEF Others, Shape
  <2>3. QED
    BY <1>2, <2>1, <2>2, LatestAreLast DEF TreeInv
<1>8. ASSUME NEW f \in Above(d) PROVE f.sec <= e.sec
  <2>1. PICK b \in Latest : bridges[b].dev = f /\ b \in Others /\ b <= c
    BY <1>6
  <2>2. f \in topology /\ f \in Device /\ IsBelow(d, f) /\ IsBridge(f) /\ IsBridge(e)
    BY <1>1, <1>3 DEF Above, Present, IsBelow, Shape
  <2>3. /\ f.bus \in Nat /\ f.sec \in Nat /\ f.sub \in Nat
        /\ e.bus \in Nat /\ e.sec \in Nat /\ e.sub \in Nat
        /\ d.bus \in Nat
    BY <1>1, <1>3, <2>2, FieldsAreNumbers DEF TypeOK
  <2>4. CASE b = c
    BY <2>1, <2>3, <2>4 DEF e
  <2>5. CASE b < c /\ f # e
    <3>1. Precedes(f, e)
      BY <1>7, <2>1, <2>5, LatestAreLast DEF TreeInv, e
    <3>2. f.bus <= e.bus
      BY <2>3, <3>1 DEF Precedes
    <3>3. /\ e.bus < e.sec
          /\ IsBelow(e, f) => f.sec < e.sec
          /\ ~IsBelow(f, e) /\ ~IsBelow(e, f) => f.sub < e.sec \/ e.sub < f.sec
      BY <1>3, <2>2, <2>5 DEF TypeOK, WellNumbered
    <3>4. e.sec <= d.bus /\ d.bus <= e.sub /\ f.sec <= d.bus /\ d.bus <= f.sub
      BY <1>3, <2>2 DEF IsBelow
    <3>5. ~IsBelow(f, e)
      BY <2>3, <3>2, <3>3 DEF IsBelow
    <3>6. QED
      BY <2>3, <3>3, <3>4, <3>5
  <2>6. CASE f = e
    BY <2>3, <2>6
  <2>7. QED
    <3>1. b \in Nat /\ c \in Nat
      BY <1>1, <1>2, <2>1 DEF Others, Shape
    <3>2. QED
      BY <2>1, <2>4, <2>5, <2>6, <3>1
<1>9. QED
  BY <1>1, <1>4, <1>7, <1>8, ParentIs DEF c, e

\* insert_dev goes down once, from host_bridge to a bridge of this scan: the
\* others have no children.
LEMMA DescendTurn ==
  ASSUME TypeOK, TreeInv, Descend
  PROVE  /\ UNCHANGED <<topology, scans, devices, bridges, child, buses, chain, pc, k>>
         /\ pc = "insert" /\ k \in DOMAIN devices /\ devices[k] \in Present
         /\ at' \in Latest /\ Above(devices[k]) # {} /\ bridges[at'].dev = ParentOf(devices[k])
<1>1. /\ UNCHANGED <<topology, scans, devices, bridges, child, buses, chain, pc, k>>
      /\ pc = "insert" /\ k <= Len(devices)
  BY DEF Descend, tree
<1>2. k \in DOMAIN devices /\ devices[k] \in Present
  <2>1. k \in Nat \ {0}
    BY DEF TypeOK
  <2>2. Len(devices) \in Nat /\ DOMAIN devices = 1 .. Len(devices)
    BY Facts DEF Shape
  <2>3. k \in DOMAIN devices
    BY <1>1, <2>1, <2>2
  <2>4. QED
    BY <2>3 DEF Present
<1>3. PICK i \in Below(at, devices[k].bus) :
        /\ \A j \in Below(at, devices[k].bus) : i <= j
        /\ at' = child[at][i]
  BY DEF Descend
<1>4. at = Host
  BY <1>3 DEF Below, TreeInv, ChildInv, Others, TypeOK
<1>5. QED
  BY <1>1, <1>2, <1>3, <1>4, DescendsToParent

\* insert_dev goes down to a bridge that exists.
LEMMA DescendTypes == BridgeTreeInv /\ Descend => TypeOK'
<1> SUFFICES ASSUME TypeOK, TreeInv, Descend PROVE TypeOK'
  BY DEF BridgeTreeInv
<1>1. /\ UNCHANGED <<topology, scans, devices, bridges, child, buses, chain, pc, k>>
      /\ at' \in Latest
  BY DescendTurn
<1>2. Bus' = Bus /\ Present' = Present /\ Latest' = Latest
  BY <1>1, SameDevices, SameLatest
<1>3. at' \in DOMAIN bridges
  BY <1>1, Facts DEF Shape, Others
<1>4. QED
  BY <1>1, <1>2, <1>3 DEF TypeOK

\* The bridge it goes down to is the innermost above the device.
LEMMA DescendStep == BridgeTreeInv /\ Descend => TreeInv'
<1> SUFFICES ASSUME TypeOK, TreeInv, Descend PROVE TreeInv'
  BY DEF BridgeTreeInv
<1>1. /\ UNCHANGED <<topology, scans, devices, bridges, child, buses, chain, pc, k>>
      /\ pc = "insert" /\ k \in DOMAIN devices
      /\ at' \in Latest /\ Above(devices[k]) # {} /\ bridges[at'].dev = ParentOf(devices[k])
  BY DescendTurn
<1>2. /\ Latest' = Latest /\ Present' = Present /\ Others' = Others
      /\ Made' = Made /\ Linked' = Linked /\ Placed' = Placed
  BY <1>1, SameLatest DEF Others, Made, Linked, Placed
<1>3. \A d : Above(d)' = Above(d) /\ ParentOf(d)' = ParentOf(d)
  BY <1>2 DEF Above, ParentOf
<1>4. LoopInv' /\ ScanInv' /\ BridgesInv' /\ ChainInv' /\ ChildInv' /\ HostInv' /\ BusesBegin'
  BY <1>1, <1>2
  DEF TreeInv, LoopInv, ScanInv, Closed, BridgesInv, ChainInv, ChildInv, HostInv, BusesBegin
<1>5. AtInv'
  BY <1>1, <1>2, <1>3, Facts DEF AtInv, Shape
<1>6. \A x, b : Belongs(x, b)' = Belongs(x, b)
  BY <1>1, <1>2, <1>3 DEF Belongs
<1>7. EntriesInv'
  BY <1>1, <1>2, <1>3, <1>6 DEF TreeInv, EntriesInv, HangsBelow
<1>8. PlacedInv'
  BY <1>1, <1>2, <1>3, <1>6 DEF TreeInv, PlacedInv, HangsBelow
<1>9. QED
  BY <1>4, <1>5, <1>7, <1>8 DEF TreeInv

----------------------------------------------------------------------------
(***************************************************************************)
(* What insert_dev does.                                                   *)
(***************************************************************************)

\* The entry it makes, and what it is put behind: a bus of the bridge or a new
\* one.
Inserted == [dev |-> devices[k], scan |-> scans]
WasThere(old, u) == u.devs = <<>> \/ \E j \in DOMAIN old : u = old[j]

\* The buses of a bridge before and after: each is an old one, or the entry's
\* with the entry at its end; what was on one still is; and none but the last
\* is empty if none was.
InsertedWell(old, new, bus) ==
  /\ Len(new) >= 1
  /\ \A i \in DOMAIN new :
       \/ \E j \in DOMAIN old : new[i] = old[j]
       \/ \E u \in Bus : /\ WasThere(old, u)
                         /\ new[i] = [number |-> bus, devs |-> Append(u.devs, Inserted)]
  /\ \E i \in DOMAIN new : \E j \in DOMAIN new[i].devs : new[i].devs[j] = Inserted
  /\ \A i \in DOMAIN old : \A j \in DOMAIN old[i].devs :
       \E m \in DOMAIN new : j \in DOMAIN new[m].devs /\ new[m].devs[j] = old[i].devs[j]
  /\ (\A i \in 1 .. Len(old) - 1 : old[i].devs # <<>>) =>
       \A i \in 1 .. Len(new) - 1 : new[i].devs # <<>>

\* insert_dev puts the device on one bus of one bridge, as InsertedWell says.
LEMMA InsertsWell ==
  ASSUME TypeOK, InsertDev
  PROVE  /\ buses' \in Seq(Seq(Bus)) /\ Len(buses') = Len(buses)
         /\ \A c \in DOMAIN buses \ {at} : buses'[c] = buses[c]
         /\ InsertedWell(buses[at], buses'[at], devices[k].bus)
<1> DEFINE bus == devices[k].bus
           old == buses[at]
           new == buses'[at]
<1>0. Shape
  BY Facts
<1>1. k \in DOMAIN devices /\ devices[k] \in topology /\ devices[k] \in Device
  BY <1>0 DEF InsertDev, TypeOK, Shape
<1>2. bus \in BusNumber /\ Inserted \in Entry
  BY <1>1 DEF Device, Inserted, Entry, TypeOK
<1>3. at \in DOMAIN buses /\ buses \in Seq(Seq(Bus)) /\ old \in Seq(Bus) /\ old = buses[at]
  BY <1>0 DEF TypeOK, Shape
<1>4. DOMAIN old = 1 .. Len(old) /\ Len(old) \in Nat
  BY <1>3
<1>5. \A i \in DOMAIN old : old[i] \in Bus /\ old[i].devs \in Seq(Entry)
  <2>1. \A u \in Bus : u.devs \in Seq(Entry)
    BY DEF Bus
  <2>2. \A i \in DOMAIN old : old[i] \in Bus
    BY <1>3
  <2>3. QED
    BY <2>1, <2>2
<1> HIDE DEF bus, old
<1>6. CASE FindBus(at, bus) = {} /\ buses' = NewBus(at, bus, <<Inserted>>)
  <2>1. <<Inserted>> \in Seq(Entry)
    BY <1>2
  <2>2. HasNewBus(buses', at, bus, <<Inserted>>)
    BY <1>2, <1>3, <1>6, <2>1, BusAdded
  <2>3. /\ buses' \in Seq(Seq(Bus)) /\ Len(buses') = Len(buses)
        /\ \A c \in DOMAIN buses \ {at} : buses'[c] = buses[c]
        /\ new \in Seq(Bus) /\ Len(new) = Len(old) + 1
        /\ new[1] = [number |-> bus, devs |-> <<Inserted>>]
        /\ \A i \in 1 .. Len(old) : new[i + 1] = old[i]
    BY <1>3, <2>2 DEF HasNewBus
  <2> HIDE DEF new
  <2>4. DOMAIN new = 1 .. Len(old) + 1
    BY <1>4, <2>3
  <2>5. \A i \in DOMAIN new : i = 1 \/ (i - 1 \in DOMAIN old /\ new[i] = old[i - 1])
    <3>1. SUFFICES ASSUME NEW i \in DOMAIN new, i # 1
                   PROVE  i - 1 \in DOMAIN old /\ new[i] = old[i - 1]
      OBVIOUS
    <3>2. i - 1 \in 1 .. Len(old) /\ (i - 1) + 1 = i
      BY <1>4, <2>4, <3>1
    <3>3. QED
      BY <1>4, <2>3, <3>2
  <2>6. \E u \in Bus : /\ WasThere(old, u)
                       /\ new[1] = [number |-> bus, devs |-> Append(u.devs, Inserted)]
    <3>1. [number |-> bus, devs |-> <<>>] \in Bus
      BY <1>2 DEF Bus
    <3>2. Append(<<>>, Inserted) = <<Inserted>>
      OBVIOUS
    <3>3. QED
      BY <2>3, <3>1, <3>2 DEF WasThere
  <2>7. \A i \in DOMAIN new :
          \/ \E j \in DOMAIN old : new[i] = old[j]
          \/ \E u \in Bus : /\ WasThere(old, u)
                            /\ new[i] = [number |-> bus, devs |-> Append(u.devs, Inserted)]
    BY <2>5, <2>6
  <2>8. 1 \in DOMAIN new /\ 1 \in DOMAIN new[1].devs /\ new[1].devs[1] = Inserted
    BY <1>4, <2>3, <2>4
  <2>9. \A i \in DOMAIN old : i + 1 \in DOMAIN new /\ new[i + 1] = old[i]
    BY <1>4, <2>3, <2>4
  <2>10. (\A i \in 1 .. Len(old) - 1 : old[i].devs # <<>>) =>
           \A i \in 1 .. Len(new) - 1 : new[i].devs # <<>>
    <3>1. SUFFICES ASSUME \A i \in 1 .. Len(old) - 1 : old[i].devs # <<>>,
                          NEW i \in 1 .. Len(old)
                   PROVE  new[i].devs # <<>>
      BY <1>4, <2>3
    <3>2. CASE i = 1
      <4>1. <<Inserted>> # <<>> /\ new[1].devs = <<Inserted>>
        BY <2>3
      <4>2. QED
        BY <3>2, <4>1
    <3>3. CASE i # 1
      <4>1. i - 1 \in 1 .. Len(old) - 1 /\ i \in DOMAIN new
        BY <1>4, <2>4, <3>3
      <4>2. QED
        BY <2>5, <3>1, <3>3, <4>1
    <3>4. QED
      BY <3>2, <3>3
  <2>11. Len(new) >= 1
    BY <1>4, <2>3
  <2>12. InsertedWell(old, new, bus)
    BY <2>7, <2>8, <2>9, <2>10, <2>11 DEF InsertedWell
  <2>13. QED
    BY <2>3, <2>12 DEF new, old, bus
<1>7. CASE \E i \in FindBus(at, bus) :
             buses' = [buses EXCEPT ![at][i] =
                         [number |-> bus, devs |-> Append(buses[at][i].devs, Inserted)]]
  <2>1. PICK p \in FindBus(at, bus) :
             buses' = [buses EXCEPT ![at][p] =
                         [number |-> bus, devs |-> Append(buses[at][p].devs, Inserted)]]
    BY <1>7
  <2>2. p \in DOMAIN old /\ old[p].devs \in Seq(Entry) /\ old[p] \in Bus
    BY <1>3, <1>5 DEF FindBus
  <2> DEFINE put == [number |-> bus, devs |-> Append(old[p].devs, Inserted)]
  <2>3. /\ put \in Bus /\ put.devs = Append(old[p].devs, Inserted) /\ put.devs \in Seq(Entry)
        /\ Len(put.devs) = Len(old[p].devs) + 1 /\ put.devs[Len(old[p].devs) + 1] = Inserted
        /\ \A j \in 1 .. Len(old[p].devs) : put.devs[j] = old[p].devs[j]
    BY <1>2, <2>2, Appended DEF Bus
  <2>4. buses' = [buses EXCEPT ![at] = [old EXCEPT ![p] = put]]
    BY <1>3, <2>1
  <2> HIDE DEF put
  <2>5. [old EXCEPT ![p] = put] \in Seq(Bus)
    BY <1>3, <2>2, <2>3
  <2>6. /\ buses' \in Seq(Seq(Bus)) /\ Len(buses') = Len(buses)
        /\ \A c \in DOMAIN buses \ {at} : buses'[c] = buses[c]
        /\ new = [old EXCEPT ![p] = put]
    BY <1>3, <2>4, <2>5
  <2> HIDE DEF new
  <2>7. /\ DOMAIN new = DOMAIN old /\ Len(new) = Len(old) /\ new[p] = put
        /\ \A i \in DOMAIN old \ {p} : new[i] = old[i]
    BY <1>3, <1>4, <2>2, <2>6
  <2>8. \A i \in DOMAIN new :
          \/ \E j \in DOMAIN old : new[i] = old[j]
          \/ \E u \in Bus : /\ WasThere(old, u)
                            /\ new[i] = [number |-> bus, devs |-> Append(u.devs, Inserted)]
    <3>1. WasThere(old, old[p])
      BY <1>3, <2>2 DEF WasThere
    <3>2. QED
      BY <2>2, <2>7, <3>1 DEF put
  <2>9. Len(old[p].devs) \in Nat /\ DOMAIN old[p].devs = 1 .. Len(old[p].devs)
    BY <2>2
  <2>10. DOMAIN put.devs = 1 .. Len(old[p].devs) + 1
    BY <2>3
  <2>11. \E i \in DOMAIN new : \E j \in DOMAIN new[i].devs : new[i].devs[j] = Inserted
    <3>1. Len(old[p].devs) + 1 \in DOMAIN put.devs
      BY <2>9, <2>10
    <3>2. QED
      BY <2>2, <2>3, <2>7, <3>1
  <2>12. \A i \in DOMAIN old : \A j \in DOMAIN old[i].devs :
           i \in DOMAIN new /\ j \in DOMAIN new[i].devs /\ new[i].devs[j] = old[i].devs[j]
    <3>1. \A j \in DOMAIN old[p].devs : j \in DOMAIN put.devs /\ put.devs[j] = old[p].devs[j]
      BY <2>3, <2>9, <2>10
    <3>2. QED
      BY <2>7, <3>1
  <2>13. put.devs # <<>>
    BY <2>3, <2>9
  <2>14. (\A i \in 1 .. Len(old) - 1 : old[i].devs # <<>>) =>
           \A i \in 1 .. Len(new) - 1 : new[i].devs # <<>>
    <3>1. \A i \in 1 .. Len(old) - 1 : i \in DOMAIN old
      BY <1>4
    <3>2. QED
      BY <2>7, <2>13, <3>1
  <2>15. Len(new) >= 1
    BY <1>4, <2>2, <2>7
  <2>16. InsertedWell(old, new, bus)
    BY <2>8, <2>11, <2>12, <2>14, <2>15 DEF InsertedWell
  <2>17. QED
    BY <2>6, <2>16 DEF new, old, bus
<1>8. QED
  BY <1>6, <1>7 DEF InsertDev, bus, Inserted

\* The tree is well formed with the device in it.
LEMMA InsertDevTypes == BridgeTreeInv /\ InsertDev => TypeOK'
<1> SUFFICES ASSUME TypeOK, InsertDev PROVE TypeOK'
  BY DEF BridgeTreeInv
<1>1. /\ UNCHANGED <<topology, scans, devices, bridges, child, chain, pc>>
      /\ k' = k + 1 /\ at' = Host
  BY DEF InsertDev
<1>2. buses' \in Seq(Seq(Bus)) /\ Len(buses') = Len(buses)
  BY InsertsWell
<1>3. Bus' = Bus /\ Present' = Present /\ Latest' = Latest
  BY <1>1, SameDevices, SameLatest
<1>4. k' \in Nat \ {0} /\ at' \in DOMAIN bridges
  BY <1>1, Facts DEF TypeOK, Shape, Host
<1>5. QED
  BY <1>1, <1>2, <1>3, <1>4 DEF TypeOK

\* A device behind those that precede it keeps a bus in order.
LEMMA OrderKept ==
  ASSUME NEW u, NEW v, NEW x \in Entry, u.devs \in Seq(Entry), v.devs = Append(u.devs, x),
         InOrder(u), \A i \in DOMAIN u.devs : Precedes(u.devs[i].dev, x.dev)
  PROVE  InOrder(v)
<1> DEFINE s == u.devs
           t == v.devs
<1>1. /\ s \in Seq(Entry) /\ t = Append(s, x)
      /\ \A i \in 1 .. Len(s) - 1 : Precedes(s[i].dev, s[i + 1].dev)
      /\ \A i \in DOMAIN s : Precedes(s[i].dev, x.dev)
  BY DEF InOrder
<1>2. SUFFICES \A i \in 1 .. Len(t) - 1 : Precedes(t[i].dev, t[i + 1].dev)
  BY DEF InOrder
<1> HIDE DEF s, t
<1>3. /\ Len(s) \in Nat /\ DOMAIN s = 1 .. Len(s) /\ Len(t) = Len(s) + 1
      /\ t[Len(s) + 1] = x /\ \A i \in 1 .. Len(s) : t[i] = s[i]
  BY <1>1, Appended
<1>n. PICK n \in Nat : n = Len(s)
  BY <1>3
<1>4. ASSUME NEW i \in 1 .. Len(t) - 1 PROVE Precedes(t[i].dev, t[i + 1].dev)
  <2>1. i \in 1 .. n /\ Len(t) = n + 1
    BY <1>3, <1>n
  <2>2. CASE i = n
    BY <1>1, <1>3, <1>n, <2>1, <2>2
  <2>3. CASE i # n
    <3>1. i \in 1 .. n - 1 /\ i + 1 \in 1 .. n
      BY <2>1, <2>3
    <3>2. Precedes(s[i].dev, s[i + 1].dev)
      BY <1>1, <1>n, <3>1
    <3>3. t[i] = s[i] /\ t[i + 1] = s[i + 1]
      BY <1>3, <1>n, <2>1, <3>1
    <3>4. QED
      BY <3>2, <3>3
  <2>4. QED
    BY <2>2, <2>3
<1>5. QED
  BY <1>4

\* The device goes below its parent, behind those that precede it.
LEMMA InsertDevStep == BridgeTreeInv /\ InsertDev => TreeInv'
<1> SUFFICES ASSUME TypeOK, TreeInv, InsertDev PROVE TreeInv'
  BY DEF BridgeTreeInv
<1>0. Shape
  BY Facts
<1>i. k \in DOMAIN devices /\ devices[k] \in topology /\ devices[k] \in Device
  BY <1>0 DEF InsertDev, TypeOK, Shape
<1>d. PICK d \in Device : d = devices[k]
  BY <1>i
<1>a. PICK a \in DOMAIN buses : a = at
  BY <1>0 DEF TypeOK, Shape
<1> DEFINE old == buses[a]
           new == buses'[a]
<1>1. /\ UNCHANGED <<topology, scans, devices, bridges, child, chain, pc>>
      /\ k' = k + 1 /\ at' = Host /\ pc = "insert" /\ k <= Len(devices)
      /\ Stops(a, d.bus)
  BY <1>a, <1>d DEF InsertDev
<1>2. k \in Nat /\ k >= 1 /\ k \in DOMAIN devices /\ d \in Present /\ d \in topology
  BY <1>0, <1>d, <1>i DEF TypeOK, Shape, Present
<1>3. /\ Latest' = Latest /\ Present' = Present /\ Others' = Others
      /\ Made' = Made /\ Linked' = Linked /\ Placed = k - 1 /\ Placed' = k
  BY <1>1, <1>2, SameLatest DEF Others, Made, Linked, Placed
<1>4. \A e : Above(e)' = Above(e) /\ ParentOf(e)' = ParentOf(e)
  BY <1>3 DEF Above, ParentOf
<1>5. /\ buses' \in Seq(Seq(Bus)) /\ Len(buses') = Len(buses)
      /\ \A c \in DOMAIN buses \ {a} : buses'[c] = buses[c]
      /\ InsertedWell(old, new, d.bus)
  BY <1>a, <1>d, InsertsWell
<1>6. Host \in DOMAIN buses /\ (a = Host \/ (a \in Latest /\ a # Host))
  BY <1>0, <1>a DEF TypeOK, Shape, Host, TreeInv, AtInv
<1>7. a = Host => Above(d) = {}
  BY <1>1, <1>2, <1>a, <1>d, HostHasTheRest
<1>8. a # Host => Above(d) # {} /\ bridges[a].dev = ParentOf(d)
  BY <1>a, <1>d DEF TreeInv, AtInv
<1> HIDE DEF old, new
<1>9. LoopInv' /\ ScanInv' /\ BridgesInv' /\ ChainInv' /\ ChildInv' /\ AtInv'
  <2>1. LoopInv'
    BY <1>0, <1>1, <1>2 DEF LoopInv, Shape
  <2>2. QED
    BY <2>1, <1>1, <1>3
    DEF TreeInv, ScanInv, Closed, BridgesInv, ChainInv, ChildInv, AtInv
<1>10. HostInv'
  <2>1. CASE a # Host
    <3>1. buses'[Host] = buses[Host]
      BY <1>5, <1>6, <2>1 DEF Host
    <3>2. QED
      BY <1>1, <3>1 DEF TreeInv, HostInv
  <2>2. CASE a = Host
    <3>1. \A e \in topology : IsBridge(e) => ~(e.sec <= d.bus /\ d.bus <= e.sub)
      BY <1>2, <1>7, <2>2 DEF TreeInv, ScanInv, Closed, Above, IsBelow
    <3>2. \A i \in DOMAIN new : \/ \E j \in DOMAIN old : new[i] = old[j]
                                \/ new[i].number = d.bus
      BY <1>5 DEF InsertedWell
    <3>3. HostInv
      BY DEF TreeInv
    <3>4. QED
      BY <1>1, <2>2, <3>1, <3>2, <3>3 DEF HostInv, old, new
  <2>3. QED
    BY <2>1, <2>2
<1>11. BusesBegin'
  <2>1. SUFFICES ASSUME NEW i \in 2 .. Len(chain)
                 PROVE  /\ Len(buses'[chain[i]]) >= 1
                        /\ \A j \in 1 .. Len(buses'[chain[i]]) - 1 : buses'[chain[i]][j].devs # <<>>
    BY <1>1 DEF BusesBegin
  <2>2. /\ Len(buses[chain[i]]) >= 1
        /\ \A j \in 1 .. Len(buses[chain[i]]) - 1 : buses[chain[i]][j].devs # <<>>
    BY <1>1 DEF TreeInv, BusesBegin
  <2>3. CASE chain[i] = a
    BY <1>5, <2>2, <2>3 DEF InsertedWell, old, new
  <2>4. CASE chain[i] # a
    <3>1. chain[i] \in DOMAIN buses
      BY <1>0 DEF Shape
    <3>2. QED
      BY <1>5, <2>2, <2>4, <3>1
  <2>5. QED
    BY <2>3, <2>4
<1>12. \A x, b : Belongs(x, b) => Belongs(x, b)'
  <2>1. \A m \in 1 .. k - 1 : m \in 1 .. k
    BY <1>2
  <2>2. QED
    BY <1>1, <1>3, <1>4, <2>1 DEF Belongs
<1>13. EntriesInv'
  <2>1. SUFFICES ASSUME NEW b \in Latest, NEW i \in DOMAIN buses'[b]
                 PROVE  /\ InOrder(buses'[b][i])
                        /\ \A x : (\E j \in DOMAIN buses'[b][i].devs : x = buses'[b][i].devs[j])
                                  => Belongs(x, b)'
    <3>1. SUFFICES ASSUME NEW b \in Latest, NEW i \in DOMAIN buses'[b]
                   PROVE  /\ InOrder(buses[b][i])'
                          /\ \A j \in DOMAIN buses'[b][i].devs : Belongs(buses[b][i].devs[j], b)'
      BY <1>3 DEF EntriesInv
    <3>2. InOrder(buses[b][i])'
      BY <2>1 DEF InOrder
    <3>3. ASSUME NEW j \in DOMAIN buses'[b][i].devs PROVE Belongs(buses[b][i].devs[j], b)'
      <4>1. PICK x : x = buses'[b][i].devs[j]
        OBVIOUS
      <4>2. Belongs(x, b)'
        BY <2>1, <4>1
      <4>3. QED
        BY <4>1, <4>2 DEF Belongs
    <3>4. QED
      BY <3>2, <3>3
  <2>2. EntriesInv /\ b \in DOMAIN buses
    BY <1>0 DEF TreeInv, Shape, Others
  <2>3. CASE b # a
    BY <1>5, <1>12, <2>1, <2>2, <2>3 DEF EntriesInv
  <2>4. CASE b = a /\ \E j \in DOMAIN old : new[i] = old[j]
    BY <1>12, <2>1, <2>2, <2>4 DEF EntriesInv, old, new
  <2>5. CASE b = a /\ \E u \in Bus :
               WasThere(old, u) /\ new[i] = [number |-> d.bus, devs |-> Append(u.devs, Inserted)]
    <3>1. PICK u \in Bus :
               WasThere(old, u) /\ new[i] = [number |-> d.bus, devs |-> Append(u.devs, Inserted)]
      BY <2>5
    <3>2. new[i].devs = Append(u.devs, Inserted)
      BY <3>1
    <3>3. Inserted \in Entry /\ Inserted.dev = d
      BY <1>2, <1>d DEF Inserted, Entry, TypeOK
    <3>4. u.devs \in Seq(Entry)
      BY DEF Bus
    <3>5. InOrder(u) /\ \A j \in DOMAIN u.devs : Belongs(u.devs[j], b)
      <4>1. CASE u.devs = <<>>
        BY <4>1 DEF InOrder
      <4>2. CASE \E j \in DOMAIN old : u = old[j]
        BY <2>2, <2>5, <4>2 DEF EntriesInv, old
      <4>3. QED
        BY <3>1, <4>1, <4>2 DEF WasThere
    <3>6. \A j \in DOMAIN u.devs : Precedes(u.devs[j].dev, Inserted.dev)
      <4>1. SUFFICES ASSUME NEW j \in DOMAIN u.devs PROVE Precedes(u.devs[j].dev, d)
        BY <3>3
      <4>2. PICK m \in 1 .. k - 1 : u.devs[j] = [dev |-> devices[m], scan |-> scans]
        BY <1>3, <3>5 DEF Belongs
      <4>3. m \in DOMAIN devices /\ m < k
        BY <1>0, <1>1, <1>2, <4>2 DEF Shape
      <4>4. Precedes(devices[m], devices[k])
        BY <1>2, <4>3 DEF TreeInv, ScanInv
      <4>5. QED
        BY <1>d, <4>2, <4>4
    <3>7. InOrder(new[i])
      BY <3>2, <3>3, <3>4, <3>5, <3>6, OrderKept
    <3>8. \A x : x = Inserted => Belongs(x, b)'
      <4>1. k \in 1 .. Placed'
        BY <1>2, <1>3
      <4>2. a # Host
        BY <2>5 DEF Latest
      <4>3. QED
        BY <1>1, <1>4, <1>8, <1>d, <2>5, <4>1, <4>2 DEF Belongs, Inserted
    <3>9. ASSUME NEW x, NEW j \in DOMAIN new[i].devs, x = new[i].devs[j] PROVE Belongs(x, b)'
      <4>1. Len(u.devs) \in Nat /\ DOMAIN u.devs = 1 .. Len(u.devs)
        BY <3>4
      <4>2. /\ DOMAIN new[i].devs = 1 .. Len(u.devs) + 1
            /\ new[i].devs[Len(u.devs) + 1] = Inserted
            /\ \A m \in 1 .. Len(u.devs) : new[i].devs[m] = u.devs[m]
        BY <3>2, <3>3, <3>4, Appended
      <4>3. j \in DOMAIN u.devs \/ j = Len(u.devs) + 1
        BY <3>9, <4>1, <4>2
      <4>4. QED
        BY <1>12, <3>5, <3>8, <3>9, <4>1, <4>2, <4>3
    <3>10. QED
      BY <2>5, <3>7, <3>9 DEF new
  <2>6. QED
    BY <1>5, <2>1, <2>3, <2>4, <2>5 DEF InsertedWell, new
<1>14. \A x, b : b \in DOMAIN buses /\ HangsBelow(x, b) => HangsBelow(x, b)'
  <2>1. SUFFICES ASSUME NEW x, NEW b \in DOMAIN buses, HangsBelow(x, b) PROVE HangsBelow(x, b)'
    OBVIOUS
  <2>2. CASE b # a
    BY <1>1, <1>5, <2>1, <2>2 DEF HangsBelow
  <2>3. CASE b = a
    <3>0. PICK i \in DOMAIN old : \E n \in DOMAIN old[i].devs :
                                    old[i].devs[n] = [dev |-> x, scan |-> scans]
      BY <2>1, <2>3 DEF HangsBelow, old
    <3>1. PICK j \in DOMAIN old[i].devs : old[i].devs[j] = [dev |-> x, scan |-> scans]
      BY <3>0
    <3>2. PICK m \in DOMAIN new : j \in DOMAIN new[m].devs /\ new[m].devs[j] = old[i].devs[j]
      BY <1>5, <3>1 DEF InsertedWell
    <3>3. QED
      BY <1>1, <2>3, <3>1, <3>2 DEF HangsBelow, new
  <2>4. QED
    BY <2>2, <2>3
<1>15. PlacedInv'
  <2>1. SUFFICES ASSUME NEW m \in 1 .. k, Above(devices[m]) # {}
                 PROVE  \E b \in Latest : bridges[b].dev = ParentOf(devices[m])
                                          /\ HangsBelow(devices[m], b)'
    BY <1>1, <1>3, <1>4 DEF PlacedInv
  <2>2. CASE m = k
    <3>1. a \in Latest /\ bridges[a].dev = ParentOf(d)
      BY <1>6, <1>7, <1>8, <1>d, <2>1, <2>2
    <3>2. PICK i \in DOMAIN new : \E n \in DOMAIN new[i].devs : new[i].devs[n] = Inserted
      BY <1>5 DEF InsertedWell
    <3>3. HangsBelow(d, a)'
      BY <1>1, <1>d, <3>2 DEF HangsBelow, Inserted, new
    <3>4. HangsBelow(devices[m], a)'
      BY <1>1, <1>d, <2>2, <3>3 DEF HangsBelow
    <3>5. QED
      BY <1>d, <2>2, <3>1, <3>4
  <2>3. CASE m # k
    <3>1. m \in 1 .. k - 1
      BY <1>2, <2>1, <2>3
    <3>2. PICK b \in Latest : bridges[b].dev = ParentOf(devices[m]) /\ HangsBelow(devices[m], b)
      BY <1>3, <2>1, <3>1 DEF TreeInv, PlacedInv
    <3>3. b \in DOMAIN buses
      BY <1>0 DEF Shape, Others
    <3>4. PICK x : x = devices[m]
      OBVIOUS
    <3>5. HangsBelow(x, b)'
      BY <1>14, <3>2, <3>3, <3>4
    <3>6. HangsBelow(devices[m], b)'
      BY <1>1, <3>4, <3>5 DEF HangsBelow
    <3>7. QED
      BY <3>2, <3>6
  <2>4. QED
    BY <2>2, <2>3
<1>16. QED
  BY <1>9, <1>10, <1>11, <1>13, <1>15 DEF TreeInv

----------------------------------------------------------------------------

\* The invariant is inductive: every turn of every loop keeps it.
LEMMA BridgeTreeStep == BridgeTreeInv /\ [Next]_vars => BridgeTreeInv'
<1> SUFFICES ASSUME BridgeTreeInv, [Next]_vars PROVE TypeOK' /\ TreeInv'
  BY DEF BridgeTreeInv
<1>0. TypeOK /\ TreeInv
  BY DEF BridgeTreeInv
<1>1. CASE Scan
  BY <1>0, <1>1, ScanTypes, ScanStep DEF TreeInv, ScanInv
<1>2. CASE MakeBridge
  BY <1>0, <1>2, MakeBridgeTypes, MakeBridgeStep
<1>3. CASE Link
  BY <1>3, LinkTypes, LinkStep
<1>4. CASE AddSecondary
  BY <1>4, AddSecondaryTypes, AddSecondaryStep
<1>5. CASE Descend
  BY <1>5, DescendTypes, DescendStep
<1>6. CASE InsertDev
  BY <1>6, InsertDevTypes, InsertDevStep
<1>7. CASE \/ LoopEnds("bridges", "link", Len(devices))
           \/ LoopEnds("link", "buses", Len(chain))
           \/ LoopEnds("buses", "insert", Len(chain))
           \/ LoopEnds("insert", "poll", Len(devices))
  BY <1>0, <1>7, LoopEndsTypes, LoopEndsStep
<1>8. CASE UNCHANGED vars
  <2>1. UNCHANGED <<topology, scans, devices, bridges, child, buses, chain, pc, k, at>>
    BY <1>8 DEF vars, tree
  <2>2. /\ Bus' = Bus /\ Present' = Present /\ Latest' = Latest /\ Others' = Others
        /\ Made' = Made /\ Linked' = Linked /\ Placed' = Placed
    BY <2>1, SameDevices, SameLatest DEF Others, Made, Linked, Placed
  <2>3. TypeOK'
    BY <1>0, <2>1, <2>2 DEF TypeOK
  <2>4. \A d : Above(d)' = Above(d) /\ ParentOf(d)' = ParentOf(d)
    BY <2>2 DEF Above, ParentOf
  <2>5. LoopInv' /\ ScanInv' /\ BridgesInv' /\ ChainInv' /\ ChildInv' /\ HostInv' /\ BusesBegin'
    BY <1>0, <2>1, <2>2
    DEF TreeInv, LoopInv, ScanInv, Closed, BridgesInv, ChainInv, ChildInv, HostInv, BusesBegin
  <2>6. AtInv'
    BY <1>0, <2>1, <2>2, <2>4 DEF TreeInv, AtInv
  <2>7. \A x, b : Belongs(x, b)' = Belongs(x, b)
    BY <2>1, <2>2, <2>4 DEF Belongs
  <2>8. EntriesInv' /\ PlacedInv'
    BY <1>0, <2>1, <2>2, <2>4, <2>7 DEF TreeInv, EntriesInv, PlacedInv, HangsBelow
  <2>9. QED
    BY <2>3, <2>5, <2>6, <2>8 DEF TreeInv
<1>9. QED
  BY <1>1, <1>2, <1>3, <1>4, <1>5, <1>6, <1>7, <1>8 DEF Next

\* It holds after any number of scans and turns.
LEMMA BridgeTreeInvariant == Spec => []BridgeTreeInv
<1>1. Init => BridgeTreeInv
  BY InitTypes, InitInv DEF BridgeTreeInv
<1>2. QED
  BY <1>1, BridgeTreeStep, PTL DEF Spec

\* After any number of scans the structures the tree is made of are well formed
\* and the chain has the bridges of the latest scan only.
THEOREM BridgeTreeTypeCorrect == Spec => []TypeOK
<1>1. BridgeTreeInv => TypeOK
  BY DEF BridgeTreeInv
<1>2. QED
  BY <1>1, BridgeTreeInvariant, PTL

\* What has been put on its bus, when all have been, is what was found.
LEMMA HangsBelowFromInv == BridgeTreeInv => HangsBelowItsParent
<1> SUFFICES ASSUME BridgeTreeInv, pc = "poll" PROVE HangsBelowItsParent
  BY DEF HangsBelowItsParent
<1>1. ASSUME NEW d \in Present, Above(d) # {}
      PROVE  \E b \in Latest : bridges[b].dev = ParentOf(d) /\ HangsBelow(d, b)
  <2>1. PICK m \in DOMAIN devices : d = devices[m]
    BY DEF Present
  <2>2. m \in 1 .. Placed
    BY Facts DEF Placed, BridgeTreeInv, Shape
  <2>3. QED
    BY <1>1, <2>1, <2>2 DEF BridgeTreeInv, TreeInv, PlacedInv
<1>2. QED
  BY <1>1 DEF HangsBelowItsParent, BridgeTreeInv, TreeInv, EntriesInv

\* When grow_tree returns, every device with a bridge above it hangs below its
\* parent of this scan, and the buses of these bridges are in order.
THEOREM DevicesHangBelowParents == Spec => []HangsBelowItsParent
BY HangsBelowFromInv, BridgeTreeInvariant, PTL

\* No bus of a bridge is without devices but the one the third loop made, while
\* it is alone.
LEMMA HubSeenFromInv == BridgeTreeInv => HubSeenExactly
<1> SUFFICES ASSUME BridgeTreeInv, pc = "poll", NEW b \in Latest
             PROVE  HubAlive(b) <=> \E d \in Present : Above(d) # {} /\ ParentOf(d) = bridges[b].dev
  BY DEF HubSeenExactly
<1>0. TypeOK /\ TreeInv /\ Shape /\ b \in DOMAIN buses /\ buses[b] \in Seq(Bus)
  BY Facts DEF BridgeTreeInv, Shape, Others
<1>1. Len(buses[b]) >= 1 /\ \A j \in 1 .. Len(buses[b]) - 1 : buses[b][j].devs # <<>>
  BY <1>0, OnChain DEF TreeInv, BusesBegin
<1>2. 1 \in DOMAIN buses[b] /\ DOMAIN buses[b] = 1 .. Len(buses[b]) /\ Len(buses[b]) \in Nat
  BY <1>0, <1>1
<1>3. ASSUME HubAlive(b)
      PROVE  \E d \in Present : Above(d) # {} /\ ParentOf(d) = bridges[b].dev
  <2>1. buses[b][1].devs \in Seq(Entry) /\ buses[b][1].devs # <<>>
    <3>1. buses[b][1] \in Bus
      BY <1>0, <1>2
    <3>2. buses[b][1].devs \in Seq(Entry)
      BY <3>1 DEF Bus
    <3>3. QED
      BY <1>3, <3>2 DEF HubAlive
  <2>2. 1 \in DOMAIN buses[b][1].devs
    BY <2>1
  <2>3. Belongs(buses[b][1].devs[1], b)
    BY <1>0, <1>2, <2>2 DEF TreeInv, EntriesInv
  <2>4. PICK m \in 1 .. Len(devices) : Above(devices[m]) # {} /\ bridges[b].dev = ParentOf(devices[m])
    BY <2>3 DEF Belongs, Placed
  <2>5. devices[m] \in Present
    BY <1>0, <2>4 DEF Present, Shape
  <2>6. QED
    BY <2>4, <2>5
<1>4. ASSUME NEW d \in Present, Above(d) # {}, ParentOf(d) = bridges[b].dev
      PROVE  HubAlive(b)
  <2>1. PICK c \in Latest : bridges[c].dev = ParentOf(d) /\ HangsBelow(d, c)
    BY <1>4, HangsBelowFromInv DEF HangsBelowItsParent
  <2>2. c = b
    <3>1. b < c => Precedes(bridges[b].dev, bridges[c].dev)
      BY <1>0, LatestAreLast DEF TreeInv
    <3>2. c < b => Precedes(bridges[c].dev, bridges[b].dev)
      BY <1>0, LatestAreLast DEF TreeInv
    <3>3. ~Precedes(bridges[b].dev, bridges[b].dev)
      <4>1. bridges[b].dev \in Device
        BY <1>0 DEF TreeInv, BridgesInv, TypeOK, Shape
      <4>2. QED
        BY <4>1, FieldsAreNumbers DEF Precedes
    <3>4. b \in Nat /\ c \in Nat
      BY <1>0 DEF Shape, Others
    <3>5. QED
      BY <1>4, <2>1, <3>1, <3>2, <3>3, <3>4
  <2>3. PICK i \in DOMAIN buses[b] : \E j \in DOMAIN buses[b][i].devs : TRUE
    BY <2>1, <2>2 DEF HangsBelow
  <2>4. buses[b][i].devs # <<>>
    BY <2>3
  <2>5. CASE Len(buses[b]) = 1
    <3>1. i = 1
      BY <1>2, <2>5
    <3>2. QED
      BY <2>4, <3>1 DEF HubAlive
  <2>6. CASE Len(buses[b]) # 1
    <3>0. PICK n \in Nat : n = Len(buses[b])
      BY <1>2
    <3>1. Len(buses[b]) >= 1
      BY <1>1
    <3>2. n # 1 /\ n >= 1
      BY <2>6, <3>0, <3>1
    <3>3. 1 \in 1 .. n - 1
      BY <3>2
    <3>4. QED
      BY <1>1, <3>0, <3>3 DEF HubAlive
  <2>7. QED
    BY <2>5, <2>6
<1>5. QED
  BY <1>3, <1>4

\* pci_is_hub_alive: a hub is seen behind a bridge exactly when the scan found a
\* device whose parent the bridge is, whatever earlier scans have left.
THEOREM HubsSeenExactly == Spec => []HubSeenExactly
BY HubSeenFromInv, BridgeTreeInvariant, PTL
============================================================================
