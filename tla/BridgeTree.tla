---------------------------- MODULE BridgeTree -----------------------------
(***************************************************************************)
(* The bus tree each poll builds from the devices it scanned: sort_them of *)
(* src/src/adna.c and grow_tree of src/src/ls-tree.c, one action per turn  *)
(* of a loop.                                                              *)
(*                                                                         *)
(* The list of devices and the chain of bridges are made anew by every     *)
(* scan, but host_bridge is a global whose children and buses are never    *)
(* reset: the bridges of earlier scans stay below it, behind those of this *)
(* scan, and its own buses keep the devices of earlier scans.              *)
(*                                                                         *)
(* A device is what the scan reads of it: its bus, its device and function *)
(* number in one number, and for a bridge the range of buses below it.     *)
(* One PCI domain is modelled.                                             *)
(***************************************************************************)
EXTENDS Naturals, Sequences, FiniteSets

CONSTANTS
  Topologies,  \* sets of recognised devices that one machine may hold
  MaxScans     \* bound on the scans of a run

BusNumber == 0 .. 255
Device == [bus : BusNumber, fn : BusNumber, sec : BusNumber, sub : BusNumber]

IsBridge(d) == d.sec # 0

\* Device d is somewhere below bridge e.
IsBelow(d, e) == IsBridge(e) /\ e.sec <= d.bus /\ d.bus <= e.sub

\* How the kernel or the firmware numbers buses, depth first: what is below a
\* bridge has a higher number, a bridge below another has its range within
\* that other's, and the ranges of bridges that are not are disjoint.
WellNumbered(T) ==
  /\ \A d \in T : IsBridge(d) => d.bus < d.sec /\ d.sec <= d.sub
  /\ \A d, e \in T : d.bus = e.bus /\ d.fn = e.fn => d = e
  /\ \A d, e \in T : IsBridge(d) /\ IsBridge(e) /\ d # e =>
       /\ IsBelow(d, e) => e.sec < d.sec /\ d.sub <= e.sub
       /\ ~IsBelow(d, e) /\ ~IsBelow(e, d) => d.sub < e.sec \/ e.sub < d.sec

ASSUME TopologiesAssumption ==
  \A T \in Topologies : T \subseteq Device /\ IsFiniteSet(T) /\ WellNumbered(T)
ASSUME MaxScansAssumption == MaxScans \in Nat

VARIABLES
  topology,  \* the recognised devices of this machine
  scans,     \* number of scans so far
  devices,   \* first_dev: the devices of the latest scan, sorted
  bridges,   \* every struct bridge ever allocated; the first is host_bridge
  child,     \* for each of them its children, as indices, in list order
  buses,     \* and its buses
  chain,     \* host_bridge.chain: indices of the bridges of the latest scan
  pc,        \* the loop being run; "poll" between two runs of grow_tree
  k,         \* how far it has come in devices or chain
  at         \* the bridge insert_dev is called with

tree == <<bridges, child, buses>>
vars == <<topology, scans, devices, tree, chain, pc, k, at>>

\* ~0 and the modulus of unsigned arithmetic, of 16 bits instead of 32.
Ones == 65535
Unsigned(n) == n % (Ones + 1)

Host == 1
NoDevice == [bus |-> 0, fn |-> 0, sec |-> 0, sub |-> 0]
HostBridge == [dev |-> NoDevice, scan |-> 0, primary |-> Ones, secondary |-> 0, subordinate |-> Ones]

\* struct bridge; primary is the bus the bridge sits on.
Bridge(d) ==
  [dev |-> d, scan |-> scans, primary |-> d.bus, secondary |-> d.sec, subordinate |-> d.sub]

Covers(b, bus) == bridges[b].secondary <= bus /\ bus <= bridges[b].subordinate

\* find_bus
FindBus(b, bus) ==
  {i \in DOMAIN buses[b] : /\ buses[b][i].number = bus
                           /\ \A j \in 1 .. i - 1 : buses[b][j].number # bus}

\* new_bus: a bus goes in front of those its bridge already has.
NewBus(b, bus, devs) == [buses EXCEPT ![b] = <<[number |-> bus, devs |-> devs]>> \o @]

\* compare_them, within one domain.
Precedes(d, e) == d.bus < e.bus \/ (d.bus = e.bus /\ d.fn < e.fn)

\* sort_them
Sorted(S) ==
  {list \in [1 .. Cardinality(S) -> S] :
     /\ \A d \in S : \E i \in DOMAIN list : list[i] = d
     /\ \A i, j \in DOMAIN list : i < j => Precedes(list[i], list[j])}

\* What is below a missing bridge is missing too: the kernel removes the
\* devices behind a port before the port.
Closed(S) == \A d \in S : \A e \in topology : IsBelow(d, e) => e \in S

\* A faulty variant: the chain is not begun anew.
ScanKeepsChain ==
  /\ pc = "poll" /\ scans < MaxScans
  /\ scans' = scans + 1
  /\ \E S \in SUBSET topology : Closed(S) /\ devices' \in Sorted(S)
  /\ pc' = "bridges" /\ k' = 1
  /\ UNCHANGED <<topology, tree, chain, at>>

\* scan_devices (a device in sysfs whose config space can be read), sort_them
\* and the start of grow_tree.
Scan ==
  /\ pc = "poll" /\ scans < MaxScans
  /\ scans' = scans + 1
  /\ \E S \in SUBSET topology : Closed(S) /\ devices' \in Sorted(S)
  /\ chain' = <<Host>> /\ pc' = "bridges" /\ k' = 1
  /\ UNCHANGED <<topology, tree, at>>

\* "Build list of bridges"
MakeBridge ==
  /\ pc = "bridges" /\ k <= Len(devices)
  /\ IF IsBridge(devices[k])
     THEN /\ bridges' = Append(bridges, Bridge(devices[k]))
          /\ child' = Append(child, <<>>) /\ buses' = Append(buses, <<>>)
          /\ chain' = Append(chain, Len(bridges) + 1)
     ELSE UNCHANGED <<tree, chain>>
  /\ k' = k + 1
  /\ UNCHANGED <<topology, scans, devices, pc, at>>

Span(b) == Unsigned(bridges[b].subordinate + Ones + 1 - bridges[b].primary)

\* The positions on the chain of what may be the parent of b, and of these the
\* first with the narrowest span.
Parents(b) == {i \in DOMAIN chain : chain[i] # b /\ Covers(chain[i], bridges[b].primary)}
Best(b) ==
  {i \in Parents(b) :
     \A j \in Parents(b) : /\ Span(chain[i]) <= Span(chain[j])
                           /\ Span(chain[i]) = Span(chain[j]) => i <= j}

\* A faulty variant: the youngest child goes last.
LinkLast(best, b) == [child EXCEPT ![best] = Append(@, b)]

\* b->next = best->child; best->child = b.
LinkFirst(best, b) == [child EXCEPT ![best] = <<b>> \o @]

\* "Create a bridge tree"
Link ==
  /\ pc = "link" /\ k <= Len(chain)
  /\ IF Best(chain[k]) = {} THEN UNCHANGED child
     ELSE \E i \in Best(chain[k]) : child' = LinkFirst(chain[i], chain[k])
  /\ k' = k + 1
  /\ UNCHANGED <<topology, scans, devices, bridges, buses, chain, pc, at>>

\* "Insert secondary bus for each bridge"
AddSecondary ==
  /\ pc = "buses" /\ k <= Len(chain)
  /\ buses' = IF FindBus(chain[k], bridges[chain[k]].secondary) # {} THEN buses
              ELSE NewBus(chain[k], bridges[chain[k]].secondary, <<>>)
  /\ k' = k + 1
  /\ UNCHANGED <<topology, scans, devices, bridges, child, chain, pc, at>>

\* A faulty variant: the end of the range is not looked at.
BelowUnbounded(b, bus) == {i \in DOMAIN child[b] : bridges[child[b][i]].secondary <= bus}

\* The children of b that the search for a bus may go down to.
Below(b, bus) == {i \in DOMAIN child[b] : Covers(child[b][i], bus)}

Stops(b, bus) == FindBus(b, bus) # {} \/ Below(b, bus) = {}

\* insert_dev calls itself for the first of them.
Descend ==
  /\ pc = "insert" /\ k <= Len(devices) /\ ~Stops(at, devices[k].bus)
  /\ \E i \in Below(at, devices[k].bus) :
       /\ \A j \in Below(at, devices[k].bus) : i <= j
       /\ at' = child[at][i]
  /\ UNCHANGED <<topology, scans, devices, tree, chain, pc, k>>

\* "Create bus structs and link devices": insert_dev puts the device behind
\* those of its bus.  An entry of a bus names the device's scan.
InsertDev ==
  LET bus   == devices[k].bus
      entry == [dev |-> devices[k], scan |-> scans]
  IN  /\ pc = "insert" /\ k <= Len(devices) /\ Stops(at, bus)
      /\ \/ /\ FindBus(at, bus) = {}
            /\ buses' = NewBus(at, bus, <<entry>>)
         \/ \E i \in FindBus(at, bus) :
              buses' = [buses EXCEPT ![at][i] =
                          [number |-> bus, devs |-> Append(buses[at][i].devs, entry)]]
      /\ k' = k + 1 /\ at' = Host
      /\ UNCHANGED <<topology, scans, devices, bridges, child, chain, pc>>

LoopEnds(loop, next, length) ==
  /\ pc = loop /\ k > length
  /\ pc' = next /\ k' = 1
  /\ UNCHANGED <<topology, scans, devices, tree, chain, at>>

Init ==
  /\ topology \in Topologies
  /\ scans = 0 /\ devices = <<>> /\ chain = <<Host>>
  /\ bridges = <<HostBridge>> /\ child = << <<>> >> /\ buses = << <<>> >>
  /\ pc = "poll" /\ k = 1 /\ at = Host

Next ==
  \/ Scan
  \/ MakeBridge \/ LoopEnds("bridges", "link", Len(devices))
  \/ Link \/ LoopEnds("link", "buses", Len(chain))
  \/ AddSecondary \/ LoopEnds("buses", "insert", Len(chain))
  \/ Descend \/ InsertDev \/ LoopEnds("insert", "poll", Len(devices))

Spec == Init /\ [][Next]_vars

----------------------------------------------------------------------------

Present == {devices[i] : i \in DOMAIN devices}

\* pci_is_hub_alive: d->bridge->first_bus->first_dev != NULL.
HubAlive(b) == buses[b][1].devs # <<>>

\* The reference: the innermost recognised bridge with device d below it.
Above(d) == {e \in Present : IsBelow(d, e)}
Innermost(S) == CHOOSE e \in S : \A f \in S : f.sec <= e.sec
ParentOf(d) == Innermost(Above(d))

Latest == {chain[i] : i \in DOMAIN chain} \ {Host}

StructBridge == [dev : Device, scan : 0 .. MaxScans, primary : 0 .. Ones,
                 secondary : BusNumber, subordinate : 0 .. Ones]
Entry == [dev : topology, scan : 0 .. MaxScans]
Bus == [number : BusNumber, devs : Seq(Entry)]

\* The tree keeps its shape: struct bridge and struct bus; and the chain holds
\* the bridges of the latest scan.
TypeOK ==
  /\ topology \subseteq Device /\ WellNumbered(topology)
  /\ scans \in 0 .. MaxScans
  /\ devices \in Seq(topology)
  /\ bridges \in Seq(StructBridge)
  /\ child \in Seq(Seq(DOMAIN bridges \ {Host})) /\ Len(child) = Len(bridges)
  /\ buses \in Seq(Seq(Bus)) /\ Len(buses) = Len(bridges)
  /\ chain \in Seq(DOMAIN bridges) /\ chain # <<>> /\ chain[1] = Host
  /\ \A b \in Latest : /\ bridges[b].dev \in Present /\ IsBridge(bridges[b].dev)
                       /\ bridges[b].scan = scans
  /\ pc \in {"poll", "bridges", "link", "buses", "insert"}
  /\ k \in Nat \ {0} /\ at \in DOMAIN bridges

\* pci_is_hub_alive tells the truth in every poll: a hub is seen behind a
\* bridge exactly when a recognised device is below it and below no other
\* recognised bridge in between, whatever earlier scans left in host_bridge.
HubSeenExactly ==
  pc = "poll" =>
    \A b \in Latest :
      HubAlive(b) <=> \E d \in Present : Above(d) # {} /\ ParentOf(d) = bridges[b].dev

InOrder(u) == \A i \in 1 .. Len(u.devs) - 1 : Precedes(u.devs[i].dev, u.devs[i + 1].dev)

HangsBelow(d, b) ==
  \E i \in DOMAIN buses[b] : \E j \in DOMAIN buses[b][i].devs :
    buses[b][i].devs[j] = [dev |-> d, scan |-> scans]

\* save_to_adna_list takes the switch of a port from parent_bus and its hub
\* from the bridge's first bus: a device hangs below the right bridge of this
\* scan, never below one that an earlier scan left behind.  And insert_dev:
\* "Simple insertion at the end _does_ guarantee the correct order" holds below
\* the bridges of this scan.
HangsBelowItsParent ==
  pc = "poll" =>
    /\ \A d \in Present : Above(d) # {} =>
         \E b \in Latest : bridges[b].dev = ParentOf(d) /\ HangsBelow(d, b)
    /\ \A b \in Latest : \A i \in DOMAIN buses[b] : InOrder(buses[b][i])
============================================================================
