# A TLA+ model of the Adnacom hot-plug service

`adnacom-hp` is a daemon that watches the downstream ports of Adnacom PCIe
host cards and repairs the kernel's view of what is plugged behind them.  This
directory models it, together with the parts of libpci it runs on, in TLA+:
TLC checks small instances, and TLAPS proves the safety properties, all but one,
for every number of ports, slots and descriptors, every shape of bus tree and
chain of capabilities, any number of scans, and any arguments of a call.

Paths below are relative to the root of the repository: the daemon is in
`src/src/`, its copy of libpci in `src/lib/`.

    tlc -config MCHotplugHistory_safety.cfg MCHotplugHistory    # a run
    tlapm HotplugProofs.tla                                     # the proofs

`PROJECT.json` lists components, runs, hazards, findings and theorems, and maps
every definition that models code to the lines it stands for.

## 1. The system

### Components

| component | state it keeps | operations | status |
|---|---|---|---|
| daemon (`main.c`, `adna.c`, `common.c`) | `first_adna` (per port: `bIsD3`, `link_down_cnt`, `hub_down_cnt`), the interval timer, the pending SIGALRM, the tree of the poll | start-up scan, SIGALRM poll, remove, rescan, bounce, exit, restart | modelled: `Hotplug`, `HotplugHistory`, `PortLifecycle` |
| bus tree (`ls-tree.c`, scan and sort of `adna.c`) | `first_dev`, `host_bridge` with its children and buses, which outlive a scan | `scan_devices`, `sort_them`, `grow_tree`, `insert_dev` | modelled, but for `show_forest`, which nobody calls: `BridgeTree` |
| capability lists (`caps.c`, `pci_fill_info` of `access.c`) | `first_cap`, `last_cap`, `known_fields` of each device | fill, scan, find, rescan | modelled: `CapList` |
| configuration access (`sysfs.c`, `access.c`, `init.c`, `pread.h`) | `a->fd`, `fd_vpd`, `fd_rw`, `cached_dev`; cache and `known_fields` of a device | set up, read, write, VPD, fill in fields, allocate and free devices, clean up | partly: `SysfsAccess`; what sysfs's text files say is left out |
| device filters (`filter.c`) | a filter's seven fields | parse a slot or an id, match | modelled: `PciFilter` |
| generic functions (`generic.c`) | none | scan buses, split blocks, fill in addresses | partly: `Generic`; fields copied from one register are left out |
| other access methods (`proc.c`, `dump.c`, `i386-ports.c`, and those of FreeBSD, OpenBSD, NetBSD, AIX, Darwin, Hurd and SylixOS) | a descriptor each | detect, scan, read, write | partly: `Backends` has read and write; detection, device lists and the descriptors are left out |
| names (`names*.c`) | `id_hash` with `id_cache_status` and `id_load_failed`, the cache file | look up, load the list, read and flush the cache | partly: `PciNames`; the grammar of `pci.ids`, DNS packets and how an answer is put together from several names are left out |
| `setpci.c` | groups of operations, a process's own | parse, select devices, execute | modelled: `Setpci`; only code under `#if 0` (`adna.c:1181`) calls it |
| parameters (`params.c`) | list of settings | define, set, get | not modelled, see section 5 |
| register printing (`ls-caps.c`, `ls-ecaps.c`, `ls-vpd.c`, `ls-caps-vendor.c`, and `config_fetch`, `show_verbose` of `adna.c`) | the configuration block of a device with its present bytes, libpci's pointer into it, `bIsD3`, `PCI_COMMAND` | fetch, walk both lists of capabilities, run a printer for each, walk the vital product data | partly: `Show`, `CapPrinters`, `ExtCapPrinters`, `Registers`, `Vpd`; what is printed is left out |
| bus mapping (`ls-map.c`) | `bus_info`: per bus its bridges, `via`, `guestbook` | scan, map | modelled: `BusMap`; lspci's, not reached by the daemon |
| names of drivers (`ls-kernel.c`) | the position of an iteration | print | not modelled, see section 5 |
| installer, unit file, tests | none | | the unit has no `Restart=`; the tests are ignored stubs |

### How they interact

The daemon has one thread.  `main` scans once, arms a timer of 100 ms and
sleeps; everything else happens in the SIGALRM handler
`adna_timer_callback`, during which SIGALRM is blocked and at most one stays
pending.  A poll builds a new libpci access (`pci_alloc`, `pci_init`), lists
`/sys/bus/pci/devices`, reads the first 256 bytes of configuration space of every
recognised device (`pcidev_is_adnacom`) and its capabilities, grows the bus tree over them, and then visits the ports
recorded at start-up.  For each it reads the configuration block again to see
whether the link is up, asks the tree whether a recognised device is behind the
port, and acts:

| link | device behind it | action |
|---|---|---|
| up | no | stop the alarm, rescan the bus, sleep, start the alarm |
| down | yes | stop the alarm, remove the port, rescan, sleep, start the alarm |
| down | no, and a counter has reached ten | reset both counters, bounce the port in the switch's register 0x234 |
| otherwise | | count, nothing else |

The shared state is the kernel's (`/sys`), the switch's registers, which
survive the process, and the cables, which people move at any time.

### What is hard

* The poll decides on a tree and caches read at its start, while the cables and
  the kernel move, and a repair of an earlier port sleeps for seconds.
* Repairs change what the next poll finds; they must converge and not trigger
  each other for ever.
* The alarm is stopped and started by hand around the repairs.
* The process may end between any two system calls (`PRINT_ERROR` exits, and
  `die` does), leaving a port removed from sysfs or disabled in the switch.
* `host_bridge` is global: bridges of earlier scans stay in the tree and compete
  for the devices of this one.
* Descriptors are kept under the address of a `struct pci_dev`, which is freed
  and allocated again.
* A broken device's capability chain may loop or point anywhere.
* A printer reads registers from a buffer that holds only what was fetched, and
  that moves when it grows, while libpci keeps a pointer into it.
* Devices listed by a scan go before their files are read, and libpci ends the
  process over a file that is missing.

`PROJECT.json` lists these as hazards, each at its line, with the properties
that would catch it.

### What makes each component correct

* Daemon: only dead devices are removed or bounced; the alarm always runs when
  the daemon sleeps; a port is bounced at most once in ten samples; what the
  kernel has behind a port converges to what is plugged; when the cable rests
  the repairs of a plugged port end, and an empty port is only bounced, which it
  is for ever; what a crash left behind is undone by the next run.
* Bus tree: a hub is seen behind a bridge exactly when one is there; every
  device hangs below the right bridge of the latest scan.
* Capability lists: every reachable capability is listed, nothing else, and the
  first of an id is found.
* Configuration access: no descriptor is lost, none serves another device, and
  none opened for reading is used to write; a copy of registers is what the
  device holds until something else changes them; what a structure says of its
  device was all read from one device.
* Register printing: no register is read that was not fetched, nothing is
  shown twice, it ends; the write of `PCI_COMMAND` turns on the three enables and
  changes no other bit, but for undoing what changed since the scan.
* Bus map: a forest, whatever bus numbers the bridges hold; a bridge that is not on
  it is printed with what is wrong with it.  Vital product data:
  read within their bounds and summed over the right bytes.
* Access methods: each byte goes with its own register of the device that was
  asked for, or the call fails; the generic scan ends and lists devices once.
* Filters: parsing and matching agree with the documented syntax, and the filter
  the daemon makes of a port selects that port.
* Names: an id gets a name some source gave for it; what one lookup leaves in the
  hash does not spoil the others' sources; a lookup gives up after every source its
  flags allow, but for a local list that comes too late (section 3); the cache file survives
  every interruption; lookups end, but for a hidden entry.
* `setpci`: what the parser accepts can be done, a mask protects the other bits,
  and each device gets the operations its filters select.

## 2. Modules

| module | models |
|---|---|
| `PortLifecycle` | the abstract service: devices appear only behind ports that are plugged, and a live one goes only with its cable or an intervention |
| `Hotplug` | the daemon with the hardware and the kernel around it |
| `HotplugHistory` | `Hotplug` and two history variables: samples since the last bounce, unbroken down samples |
| `BridgeTree` | scans, sorting and the bus tree |
| `CapList` | capability lists of one device |
| `SysfsAccess` | descriptors, caches and known fields of libpci on sysfs |
| `PciFilter` | parsing and matching of filters, operators only |
| `Generic` | block splitting, the turns of a bus scan and base addresses over any access method, operators only |
| `Backends` | read and write of eleven access methods, operators only |
| `Setpci` | operations on registers, their groups and their execution, operators only |
| `BusMap` | lspci's map of buses and bridges, turn by turn, operators only |
| `Vpd` | the walk of vital product data and its checksum, turn by turn, operators only |
| `LibpciCalls` | calls of such operators, with their arguments and results: in one step, or in one per turn of the scan, the map and the walk |
| `PciNames` | lookups of names in the local list, the cache file, udev's database and the DNS |
| `Registers` | the offsets and ids of `header.h` that printers use |
| `CapPrinters`, `ExtCapPrinters` | what each printer of a capability reads, in which order and after which fetches, operators only |
| `Show` | one device from scan to the last printer, with its configuration block |
| `HotplugProofs` (with `HotplugHistory`), `BridgeTreeProofs`, `CapListProofs`, `SysfsAccessProofs`, `PciNamesProofs`, `ShowProofs`, `LibpciCallsProofs` | theorems and proofs, one module per component |
| `SetpciProofs` | lemmas that `LibpciCallsProofs` rests on: induction over natural numbers about sets and what a fold over a sequence computes, as first-order provers can apply them, and what the parsers and `exec_op` do |
| `MC...` | constants for TLC |

Every module starts with the constants and their assumptions, then one operator
or action per function, then the properties.  Operators whose comment calls them
*a faulty variant* are not part of the specification: each is a plausible bug in
the definition that follows it, kept to show that a property would notice.

### `Hotplug`

`pc` is where the process stands: `start`, `idle` (main sleeps), `exited`, or a
step of the handler.  The handler is split exactly where somebody else can see
an effect or interfere: the scan, the sample of each port, the write to
`remove`, the write to `rescan`, the end of the sleep with the alarm started
again, the two register writes of a bounce.

| action | code |
|---|---|
| `StartMonitoring`, `StartFindsNothing`, `StartCrashes` | `main` up to `sleep`, with `adna_pci_process` and `save_to_adna_list`; the crash is the null capability in `count_downstream` |
| `TimerFires`, `Deliver` | the timer raises SIGALRM; the handler starts when main sleeps |
| `Scan` | `adna_pci_process` in the handler |
| `SampleLinkCameUp`, `SampleLinkWentDown`, `SampleDownLong`, `SampleQuiet` | the four outcomes of one turn of the loop in `adna_timer_callback`, with `refresh_device_cache`, `pci_dl_active` and `pci_is_hub_alive` |
| `Remove`, `RemoveFails`, `Rescan`, `Rearm` | `remove_downstream`, `rescan_pci`, `settimer100ms` |
| `Disable`, `Enable` | `disable_port`, `enable_port` through `pcimem` |
| `Finish` | `adna_pacc_cleanup` |
| `Die`, `Restart` | an exit or a signal at any step; the operator |
| `Plug`, `Unplug`, `OutsideRemove` | cables, and somebody else's write to a `remove` file |

`plugged` is the cable with a powered endpoint, `disabled` the switch's bit;
the link is up when a port is plugged and not disabled.  `hub` is what the
kernel has behind a port: nothing, a device that has kept its link since it was
enumerated (`live`), or one that has lost it (`stale`).  The kernel keeps a
device that loses its link, and a rescan brings ports back and enumerates what
is linked (the kernel's own hot-plug driver is not part of the model: the
service exists because these slots do not have it; nor are rescans by anybody but
the daemon, so that `RepairsOnlyDeadPorts` speaks of a machine where nobody else
rescans).  The counters are
saturated at `Threshold`: the code compares them with ten and nothing else.
`Foreign` ports have an endpoint that `adnatool_pci_devtbl` does not list;
`BitPort` says which port the one fixed register bit of a switch acts on.

`d3` is chosen freely at start-up: the power state a port is found in is not
predicted.  A port in `d3` is skipped for good.

### `BridgeTree`

One action is one turn of one of `grow_tree`'s loops, and `pc` is the loop:

| action | code |
|---|---|
| `Scan` | `scan_devices` and `sort_them`: any part of the machine's devices that is closed under what is above a device, sorted as `compare_them` does; the chain begins anew |
| `MakeBridge` | "Build list of bridges" |
| `Link` | "Create a bridge tree" |
| `AddSecondary` | "Insert secondary bus for each bridge" |
| `Descend`, `InsertDev` | `insert_dev`: a call of itself for a child, and the end of the recursion |
| `LoopEnds` | from one loop to the next |

`chain` is the latest scan's list of bridges, `bridges` all that were ever
allocated, since `host_bridge` is never emptied; an entry of a bus names the
scan of its device.  `Parents`, `Best` and `LinkFirst` reproduce the search for
the narrowest parent as it is: in unsigned arithmetic `host_bridge` has width 0
and always wins, so that all bridges are children of the host bridge, and it is
the order they are linked in that lets `insert_dev` find the innermost one.
`WellNumbered` is what is assumed of the machine: buses are numbered depth
first, as the kernel and the firmware do.

### `CapList`

A device's chains are chosen by `Init` among all functions from a few positions
to next pointers and ids, so loops and broken ids occur.  `nodes` holds the
capabilities ever allocated, `first` and `last` are `first_cap` and `last_cap`
as indices, `freed` what `pci_free_caps` gave back, `known` the fields counted
as known.

| action | code |
|---|---|
| `Request`, `FindCap` | the calls of a program: `pci_fill_info` and `pci_find_cap_nr` |
| `FreeCap`, `FreeEnd` | `pci_free_caps`, in a rescan |
| `ScanCaps` | `pci_scan_caps` |
| `TradTurn`, `TradEnd`, `ExtTurn`, `ExtEnd` | the two scans, turn by turn |
| `SearchTurn`, `SearchEnd` | the loop of `pci_find_cap_nr` |

`nested` says that the call is the one `pci_scan_ext_caps` makes for the PCI
Express capability while the scan around it is not over: the fields that scan
fills in are not yet known, so that the traditional capabilities are scanned, and
listed, once more.

### `SysfsAccess`

`node[s]` is the incarnation of the device in slot `s`, so a descriptor opened
for a device that has gone does not serve the next one in the same slot.
`slotOf` says for which device an address of a `struct pci_dev` is in use;
`AllocDev` may reuse any free address.  `DeviceChanges` is a register changed by the
device or the kernel itself, which `refresh_device_cache` is there to follow, and
`Store` lets a write fail, or a register with read-only or write-1-to-clear bits
keep something else than it was given.  `Setup` is `sysfs_setup` with both
outcomes of each `open`; `ReadConfig`, `ReadVpd`, `Refresh` and `WriteConfig`
are the calls above it with every way they can fail.  `FillInfo` is
`pci_fill_info` of a field: `FillMandatory` of one whose files must be readable -
every failure to open, read or parse one ends the process (`died`), for a device
that is there as well as for one that has gone - and `FillOptional` of one whose
file may be missing.  `filled` says which device a known field was read from.
Two histories say what the code cannot know: `departed` are structures whose
device went after they were made, `suspect` those whose copy may differ - the
device was exchanged or changed by itself, another structure wrote to it, or a
write failed, or stored something else, after `pci_write_data` had changed the
copy.

### `Show` and the printers

A printer is a sequence of steps: `Fetch` and `Try` for `config_fetch`, whose
failure ends it or the part up to the next `Try`; `Byte`, `Word`, `Long` for
reads; `Index` for a table indexed, or a shift counted, by a field of so many
bits; `PowerState`.  Where the code branches on a register, the operator is the
set of its sequences or has a parameter.  `Show` runs one step after the other
on the block: `extra` are the bytes present past the first 256, `bufsize` the
size, `cached` whether libpci's pointer is the current one.  What the device
answers - where its capabilities lie, what they link to, which entries they
have - is chosen when it is read.  `OutsideWritesCommand` is any other writer of
`PCI_COMMAND`, of which the model has the three enable bits and one that stands
for the others; `WriteCommand` stores each bit of what is written or leaves it.

### `PciFilter`

Filter strings are sequences of symbols: separators, the star and numbers as
tokens, each as `strtol` would read it.  `ParseSlot` and `ParseId` follow the
code field by field, with its early returns, which leave the fields before an
error set; `Match` is `pci_filter_match`.

### `Generic` and `Backends`

`Chunks` is the list of accesses `pci_generic_block_op` makes.  The recursion of
`pci_generic_scan_bus` is taken apart into its turns: `loops` is its stack, the
functions each call is still to come to, and `ScanRoot` begins at the next bus
the scan starts from - one, or several as on AIX and SylixOS - `ScanFunction` is
a turn of the innermost loop, which may call itself for the bus behind a bridge,
and `ScanReturn` the return.  `ScanTurn` of `LibpciCalls` takes one of them.
`Bases` decodes address registers, an address being the set of registers it is
made of.

Each method of `Backends` maps a request to its outcome: whether the call
succeeded, and which register, of which domain's device, was moved from or to
which byte.  No register has a value there: a byte taken from the wrong lane of
a long, or put past the end, is a wrong pair.  Two differences between the
methods are worth knowing: NetBSD's reads registers up to 4096 but writes only
up to 256, and `/proc` and SylixOS do not tell domains apart.  On `/proc`,
`proc_setup` first opens the name without the domain (`proc.c:126`), so a device
of another domain whose address also exists in domain 0 is exchanged for that
one; `DomainsAreKept` (a part of `TransfersAreExact`) says for every request whose
device answers, these two cases included.

### `Setpci`

Numbers have 32 bits here: an address is an integer in two's complement, which
is all the comparisons with 0x1000 and the wrapping sum need; values, masks and
registers are sets of bits, so that merging is set difference and union.
`Hex32` says what `parse_x32` makes of a literal and `Register` what
`parse_register` finds under a name; both are any functions of this kind.
`ParseOp` splits an argument as `parse_op` does, `ExecOp` is one operation on
one device, with `FindCapNr` for a capability, and `RunSetpci` the whole
command: parse everything, decide whether the bus must be scanned, and apply
group after group until an operation dies.

### `BusMap` and `Vpd`

`MapBus` is a turn of the loop of `map_bridges`, `MapBridge` one of the loop of
`do_map_bridges`, which signs the `guestbook` of the bus it is called for
(`Walk`), and `MapReturn` its return; `loops` holds for each call the bridges it
is still to come to and the range they should be in.  `Probed` are the functions
the filter of lspci lets `do_map_bus` read, and of these `scan_device` may refuse
any (`Scanned`).  `MapPrint` prints the summary: `map_bridge` never writes `b->bug`
and `do_map_bridges` writes it only in the bridges it does not go through, so for
the others `Printed` takes whatever was in that memory.  `VpdResource`, `VpdName`
and `VpdField` are the turns of the three loops of `cap_vpd`; `walk` is the
sequence of its reads and of the verdicts it prints; a length that does not fit,
or a read that fails, ends the loop the code leaves.

### `PciNames`

One process and one lookup at a time, in the turns of the loop in `id_lookup`.
`hash` has at most one entry for a key, as `pci_id_insert` leaves one that is
there alone; `status` is `id_cache_status` (not read, read, to be written).  An
entry says which source it came from, and which sources a lookup sees depends on
its flags (`Permitted`).

| action | code |
|---|---|
| `Lookup`, `LookupLoadsList`, `LookupFindsNoList` | `pci_lookup_name`, and `pci_load_name_list` when nothing is hashed yet |
| `FindName`, `GiveUp` | the ends of `id_lookup` |
| `ReadCache`, `SkipCache` | `pci_id_cache_load`, without and with `PCI_LOOKUP_REFRESH_CACHE` |
| `AskHwdb`, `NetAnswers`, `NetIsSilent` | `pci_id_hwdb_lookup`; `pci_id_net_lookup` with `pci_id_cache_dirty` |
| `WriteCache`, `Rename`, `RenameFails`, `FlushCrashes` | `pci_id_cache_flush` |
| `FreeNames` | `pci_free_name_list` with nothing to write |
| `Die`, `OtherRenames` | the process ends; another process replaces the file |

`loaded` and `alone` are histories: what was read from the cache, and whether a
refresh was asked for without the network.  `CacheKeepsWhatItRead` is about the
file: when a flush renames a temporary file that was written whole over it, the
lines this process read are in it, but for those of keys another source had
already answered for and of keys whose query of the DNS came back empty before.

## 3. Runs

| run | instance | question |
|---|---|---|
| `safety` | 2 ports on switches of their own, threshold 2, one fault of any kind | are repairs safe, paired with the alarm, rate-limited, and does the daemon implement `PortLifecycle` |
| `liveness` | 2 ports, one of them foreign, threshold 2, two faults, at most one of them a removal | does the loop converge, do repairs end, does the next run undo a bounce cut short |
| `tree` | all numberings of up to 3 bridges and an endpoint on 5 buses, 2 scans of any part, every turn of every loop | are hubs and parents found, and buses kept in order |
| `caps` | all chains on 2 + 2 positions, any order of requests and searches, rescans among them | are lists right for broken devices too, is the first of an id found |
| `access` | 2 slots, 2 addresses, 2 descriptors, 1 mandatory and 1 optional field, 2 appearances | are descriptors kept and used rightly, are copies true, are a structure's fields all of one device |
| `show` | both builds, capabilities of every id at the start and the end of the first 256 bytes and at 4092, any links between them, every shape a printer distinguishes | do the printers stay within what was fetched, do walks end and show nothing twice, what does the write of `PCI_COMMAND` undo |
| `calls` | slot and id filters of every shape, each part empty, a star, at or past its bound, or junk; 128 devices; filters cleared, initialised and neither; requests of 0 to 9 bytes around the first registers and around 64, 256 and 4096, for each method; 1125 sets of functions and bridges on three buses, from one root bus and from several; all kinds of registers for one, two and six base addresses; operations with every optional part present, missing, wrong or out of order, and command lines of up to four arguments for three devices; 27951 sets of bridges with any ranges of three buses, seen through no filter and through those of a bus, a slot and a function, with any of them refused; 3612 images of vital product data whose lengths fit, do not, or lie around the end of the address range; 594546 states | does parsing mean what the syntax says, and does a port's filter select that port only; do methods move the right bytes however they split; does the scan end and miss nothing; are 64-bit addresses paired rightly; does `setpci` do what it is told and no more; is the bus map a forest; is the product data's sum taken over the right bytes |
| `names` | 3 ids, each known to another pair of sources, 8 sets of flags, any order | do names keep to their sources, does the cache file survive, do lookups end |
| `flap`, `downlong`, `shared`, `startcrash` | the smallest instance that shows it | findings, below |

### Why the bounds are enough

Two ports are enough for one port's repair to delay, or change the kernel under,
the other's sample, and a foreign port for one that is repaired for ever; the
proofs cover any number for the safety part.  A threshold of two has a sample
that counts and one that bounces; with one, every down sample would bounce.
One fault is enough for every crash window (after each system call), since a
second one starts from a state a first one can reach too; in `liveness` two
allow a crash with a removal, which is the only way for a restart to find
nothing.  Cables are not bounded.

Two scans are enough for a tree with stale bridges.  Three bridges give the
shapes chain, siblings and both mixed; a fourth adds no new pair.

In `show` one capability of an id outside `Common` is enough: a second one finds
more bytes present than the first did, and a printer's reads only get safer with
more bytes; the ids of `Common`, which open the second walk or are skipped, are
unbounded.  Positions 252 and 4092 are the last in each space.  The address
range of the vital product data is cut to 320 bytes, so that a name of more than
the buffer's 256 leaves room for one resource on either side of the end.

Two positions give a chain that is empty, ends, loops on itself, loops over
both, starts anywhere or breaks.  `MaxNodes` is above what any two requests
allocate.

A block of nine bytes has every combination of the byte and the word before and
after its longs, with up to two longs; the positions reach every alignment and
cross every limit a method has.  Three buses with two bridges on the first give
buses with two parents, loops of every length up to three, and buses nobody
leads to.  Six base registers are what a device has.

Four arguments of `setpci` are enough for two groups, for two filters of one
group and for an operation after one that dies; the three devices have two
capabilities of an id, none, and one at an odd address.

In `names` every pair of sources has an id both know, so that each can be asked
after the other; the eight sets of flags leave out each source in turn, and any
number of lookups, flushes and restarts follow each other.

Two addresses, slots and descriptors give reuse of each while the other is
live; two descriptors are all the access can hold.  Fields do not influence each
other but through the exit of the process, so that one of each kind is enough.
Two appearances let a slot's device be exchanged, or two be there at a time.

### Fairness

`WF(Process or Poll)`: the kernel runs a runnable process.  `WF(TimerFires)`: an
armed timer fires.  Nothing is assumed of cables, faults or of `Restart`, as the
unit has no `Restart=`; every liveness property is therefore conditional on the
daemon staying alive and on the cable in question coming to rest.  `Converges`
also excepts a port somebody else has taken out of sysfs for good: the poll
passes over ports that the scan does not find.

In `PciNames`, `WF(Turn)`: the process is not stopped in the middle of a lookup;
its turns wait for nothing but the DNS, and `res_query` gives up in the end.
In `Show`, `WF(Process)`: the same; no step of it waits, and what else writes
`PCI_COMMAND` needs no fairness.

The loop `while (sleep(3) != 0)` in `main` could end only if three seconds
passed without an alarm, since an interrupted `sleep` returns the seconds left
and alarms come within the first one.  `TimerRunsWhileIdle` is what rules that
out; with it, `idle` never ends by itself and the model needs no exit from the
loop.

### Findings

* `flap` (`adna.c:1296`): `README.md` promises a rescan "whenever any downstream
  link status changes".  Levels are compared once per poll, so a link that drops
  and returns in between is not noticed and the kernel keeps the dead device.  In
  the trace the daemon sleeps between two polls, with the port's device live, when
  the cable is pulled and plugged again.
* `downlong` (`adna.c:1285`): "has been Down for 1s" is printed after ten down
  samples over the port's life, not ten in a row: nothing resets the counters
  when the port recovers.
* `shared` (`adna.c:229`): on a switch with several downstream ports the bounce
  acts on the port of bit 0, whichever port the message names.
* `startcrash` (`adna.c:299`): started while a recognised device is enumerated
  without a link, `count_downstream` dereferences a null capability.

Seen while modelling, and stated in the comments of the modules rather than as
runs of their own: buses of `host_bridge` itself mix devices of several scans,
so the comment in `insert_dev` that insertion at the end guarantees the order
does not hold for them (it does for the bridges of a scan, the second part of
`HangsBelowItsParent`); `pci_free_caps` leaves `last_cap` dangling, so after
`PCI_FILL_RESCAN`, which no program here asks for, the list stays empty while it
counts as known (`caps.c:101`, `Rescanned` of `CapList`);
traditional capabilities are listed twice when the extended ones are asked for
first, so that `pci_find_cap_nr` counts each twice (`caps.c:62`);
`pci_filter_parse_id` looks at the device part to decide on the class
part (`filter.c:112`); a port missing from sysfs at start-up is never monitored
by that process, even after its own rescan has brought it back (`adna.c:1165`),
which `Converges` excepts; every poll allocates devices, bridges and buses and
frees only some (`adna.c:388`).

In the daemon's build the fetch of `cap_pm` is compiled out, so that for a
capability at 0xfc it reads past what the scan read (`ls-caps.c:40`), which the
accessors call an "Internal bug" and exit over; `cap_ea`, not in the daemon's
build, goes by the flags of an entry where its size says otherwise
(`ls-caps.c:1589`).  `PrintersStayInBounds` excepts these two (`ReadsUnfetched`)
and the shifts by the scale of LTR and by the two sizes of a multicast capability, whose fields hold
more than the shift allows.  The byte `cap_vpd` reads of an empty RV field
belongs to the next one and is summed twice (`ls-vpd.c:179`).  `a->error`
ends the process over any mandatory file that cannot be opened, read or parsed,
that of a device unplugged between the scan and `pci_fill_info` among them
(`sysfs.c:305`); for `Hotplug` that is an exit like any other.

`id_lookup` never ends when an entry that its flags hide keeps the DNS's answer
from being inserted (`names.c:46`), which `LookupEnds` excepts; the local list is
never loaded once another source's entry has allocated the hash (`names.c:144`),
which `GivesUpAfterAllSources` excepts as `HashedWithoutList`; a flush after a
refresh without the network walks a hash that was never allocated
(`names-cache.c:150`), the only way `FlushFindsHash` leaves open; after a write
error the truncated file is renamed over the good one (`names-cache.c:171`) and
loses lines, which `CacheKeepsWhatItRead` excepts.

Of a bridge that is on the map, `map_bridges` may print a bug nobody found, as
`map_bridge` never writes `b->bug` (`ls-map.c:149`); `MapIsForest` is about the marks
of the other bridges.

`parse_op` adds an offset to an address before it checks the range, so that
`ffffff00+fff.b` means register 0xeff (`setpci.c:733`), which `SumWraps` in
`OpsFollowSyntax` excepts; of several values relative to a capability only the first is checked
against the end of the configuration space (`setpci.c:150`); the groups are
static, so that a second call of `setpci` in one process, as the code under
`#if 0` makes, would repeat the operations of the first.

## 4. Proofs

TLAPS checks the following for every value of the constants that satisfies the
assumptions in the modules (`NumPorts`, `Threshold` positive, `Foreign` a set of
ports, `BitPort` a function on ports; for `SysfsAccess`, `None` is no slot,
address, value, descriptor or field; for `PciNames` and `LibpciCalls` see below).

* `TypeCorrect`: `TypeOK` is inductive as it stands.  Its clause on `cur`, that a
  port is named exactly while one is being repaired, is what the others need.
* `TimerAlwaysRearmed`: `TimerRunsWhileIdle` is not inductive: the timer may be
  off while the handler repairs.  `TimerInv` says that it is off only before
  start-up, after an exit and between the sample and `Rearm`.
* `RepairsAreSafe`: `RepairInv` adds to `RepairsOnlyDeadPorts` that a port with a
  device is in sysfs, without which a removed port could come back with a live
  device while the handler still means to remove it.
* `DaemonImplementsLifecycle`: under the assumption `OwnSwitches` (every port has
  a switch of its own), every step of `Hotplug` maps to a step or a stutter of
  `PortLifecycle`, under the refinement mapping `Lifecycle == INSTANCE ... WITH`
  of `Hotplug`; `RepairInv` gives that a removal and a bounce hit only devices
  without a link.  Without `OwnSwitches` it is false: that is finding `shared`.
* `HistoryTypeCorrect`, `BouncesAreRateLimited`: `RateInv` says each counter of a port is at most the
  number of samples since its last bounce, so a counter at the threshold means
  that many samples.
* `AccessTypeCorrect`, `DescriptorsServeTheirDevice`, `CopiesAreTrue`,
  `FieldsAreOfOneDevice`, `WritesAreAuthorised`: from the one inductive
  invariant `IInv`.  Its heart is
  `Owned`: every open descriptor is for the slot of the live structure that
  `cached_dev` names, which `sysfs_cleanup_dev` must re-establish when that
  structure is freed.  `ModeIsRemembered` ties `fd_rw` to how the descriptor was
  opened.  `CopiesAreInUse` (no free structure has a copy) and `ListedAreThere` (a
  structure that is not in `departed` has its device) carry the other two.
* `BridgeTreeTypeCorrect`, `HubsSeenExactly`, `DevicesHangBelowParents`: from
  `TreeInv`, for every machine that is `WellNumbered` and any number of scans.
  Neither property is inductive, or even true in the middle of a scan; `TreeInv`
  says of every turn what has been done so far.  Its argument is how the code
  gets away with a flat tree: `host_bridge` spans 0 buses and so is the best
  parent of every bridge (`BestIsHost`), which makes `host_bridge.child` the list
  of all bridges ever made, the latest first (`ChildInv`); no bus that
  `host_bridge` holds itself is in the range of any bridge (`HostInv`), so that
  `find_bus` never stops the search too early; and since the bridges of a scan
  are made in the order of their own bus numbers (`ChainInv`), the first child
  that covers a bus is the innermost bridge of this scan, which
  `DescendsToParent` derives from `WellNumbered`.  `BusesBegin` ties the first
  bus of a bridge to its devices, which is what `pci_is_hub_alive` looks at.
* `CapListTypeCorrect`, `ListIsTheChain`, `FindCapFindsFirst`: from `CapListInv`,
  for chains of any length, looping and broken ones included.  `Progress` says
  how far a scan has come: what it has been at can be reached, and what follows
  any of it has been visited too or is next.  At the end the visited positions are
  closed under the pointers, hence all that can be reached (`ProgressEnds`); the same
  with the chain cut at the current position gives what comes before it
  (`ProgressIsBefore`), so that the first match in the list is the first in the
  chain.  `Calls` follows the scan within a scan.
* `NoCapabilityTwice`, `CacheLiveAtEveryUse`, `WriteUndoesOnlyRaces`: from `ShowInv`, which says that what a walk has printed
  is marked in `been_there`, that the block has not moved before the walks
  start, and that the command register differs from the copy of it only in bits
  changed since the scan.
* `ShowTypeCorrect`, `PrintersBounded`: from `BoundsInv`, for tables and lists of
  any length.  It says that what is left of a printer is the end of a printer, in
  which every read finds its bytes present, or the fetch for them is still to
  come (`StepsLeft`); the two printers of `ReadsUnfetched` are excepted here as in the
  property.  That every printer begins that way is a fact about data
  and proved first, in the same module: the printers of lists are folds, so their
  lemmas are inductions, over sets as the module states them first - a set of numbers
  has a least one, hence one that holds 0 and with every number the next holds
  all - because the provers cannot instantiate the library's induction over a
  predicate.
* `NamesTypeCorrect`, `CacheHoldsAnswers`, `LocalListIsKept`,
  `CacheIsNotForgotten`, `AllSourcesAreAsked`, `FlushIsSafe`: all safety
  properties of `PciNames`, for any ids, sources and flags, under the assumption
  that the sources' ids are ids and that flags are flags.  Their common ground is
  that no turn takes an entry out of the hash or changes one (`TurnKeeps`).  On it
  stand `NetNamesAreKnown`, which also follows the temporary file,
  `LoadedIsHashed`, `AskedIsHashed` with `GaveUp`, `ListOrHash` (once a lookup that
  wants the list has begun, loading it has failed or there is a hash), and `EmptyHashExplained`: a
  cache to be written while nothing is hashed means that a lookup with the
  network is still under way, or that there was one without it.


For `LibpciCalls` a state is a call with its arguments and its result, so what is
proved is what the operators compute, for every string, request, machine, image,
operation and device.  The assumptions say only what kind of thing each constant
is: strings are finite sequences (`StringsAssumption`), numbers of a literal and
the devices' numbers have literals (`LiteralsAssumption`), sets of functions are
finite with bus numbers up to `LastBus`, registers and vital product data hold
bytes, a mask holds its value's bits (`OperationsAssumption`, which is what
`Value` builds), 32-bit numbers have 32 bits, and separators of an operation are
not words of it (`WordsAssumption`).  `Returned` and `OpsReturned` are the
invariants that tie a call to its result; what the provers need beyond them is
about data.

* `TransfersExact`: a method's pieces are described by `Tiles`: accesses that
  follow each other, aligned, each inside its register.  `pci_generic_block_op`
  makes such (`PiecesFit`), and each method moves the bytes of one access rightly
  or not at all (`StraightMoves`, the lanes of a long); so a block that fails has
  moved a first part of its bytes, and it fails exactly where one of them would
  alone.
* `ScanExact`, with `AddressesExact`: `ScanInv` says of every turn that what is
  on the stack or on the list is each function of a visited bus, once, that
  whatever a listed bridge leads to is visited, and that the turns taken, with
  what is on the stack, are at most two for each function and bus so far.  When
  the stack is empty the visited buses are closed under the bridges, hence all
  that can be reached.
* `MapExact`: `MapInv` says the same of bridges settled - on the map or marked
  once - and `Forest` that the bridges by which buses were entered lead to each
  bus once and into ranges in front.  That a new bridge makes no cycle
  (`ForestGrows`) rests on the guestbook, signed before the walk behind it; that
  well-set-up bridges have no mark needs that a walk has the range of its bridge.
  It holds for every filter and every set of refused devices; of a bridge that is
  not on the map exactly its one mark is printed (`PrintOneBug`), and of the others
  it says nothing.
* `VpdExact`: `VpdInv` bounds `at`, `len` and `part` in each of the three loops
  and says how far the walk has come (`WalkReached`).  `ByteSum` goes by halves;
  it is proved equal to a difference of prefix sums, so that the sum so far
  (`SumRight`) is that of all bytes up to `top`, apart from a byte of an empty
  reserved field, which is counted twice.
* `FiltersExact`: a string has at most one reading as parts and separators
  (the parts of a spelling are determined by it), and the parser cuts at the same
  places.  `Twin` says that the old interface goes through the same states but for
  the class; a filter made by printing a device and parsing it selects that
  device since every field it holds has a literal.
* `OperationsExact`, from `AcceptedFit`, `MasksHold` and `SelectionHolds`.  The loop of `exec_op` is
  a fold over the values, which `SetpciProofs` turns into a function of the set of
  positions done (`FoldExists`): the accesses are the address of the first value
  and one width more for each next, and one bit of one register goes through the
  turns by itself (`BitTurned`).  For `AcceptedFit`, `ParseOp` bounds address,
  number of values and width together; a wrapped sum is no exception here, as the
  check comes after it.  For `SelectionHolds`, each turn of `parse_ops` extends a
  chain of groups (`Chained`): each group is cut from the command line where an
  operation is followed by a filter, its operations are the arguments after its
  filters, and its filter has in every field what the last of them naming that
  field says (`FilterIs`).  So the operations of a group are for the devices it
  matches (`GroupServes`); the three loops of `execute` then take device after
  device from the start of the group's arguments to their end (`Follows`), and a
  death leaves the devices where they were.

Only model-checked:

* the liveness properties (`Converges`, `RepairsCease`, `DisabledPortRecovers`,
  `ShowEnds`, `LookupEnds`), since the prover does not do `ENABLED`;
* `OpsFollowSyntax`, which compares the parser with a grammar in which the parts are
  read forwards, while the code looks for separators from the end; no proof of it
  was completed.

## 5. Not modelled

What is printed, as no state depends on it; of the printing code only the reads,
fetches and walks are modelled.  `ls-kernel.c` passes strings of libkmod on, and
keeps no state but the position of an iteration.  `params.c` is a list that one
thread searches and changes in place; its one subtlety, that a value is freed
exactly if it was copied, is settled by the single function that sets it.  The
text files of sysfs are read by `FillInfo` of `SysfsAccess` as present or
missing; resources and slots, what the lists of devices of `/proc` and of a dump
say, the grammar of `pci.ids` and DNS packets are formats, not state.  Packaging,
and the tests, which are ignored stubs.  Memory growth: every poll allocates
devices, bridges and buses and frees only some.  The race between `setitimer` and
`signal` in `main` (a second wide).

## 6. Plan

1. Done: the daemon, its abstraction and history, the bus tree, capability lists,
   configuration access, filters.
2. Done: read and write of the other access methods, block splitting, the generic
   scan and base addresses.  Left of them: the device lists of `/proc` and of a
   dump, as parsers, and the order of detection (`init.c`).
3. Done: names, from every source, with the cache file.  Left of them: the grammar
   of `pci.ids` (`names-parse.c`), how `pci_lookup_name` puts an answer together,
   DNS packets; and the settings list with copy on set (`params.c`).
4. Done: `setpci`; register printing (`Show` and the printers); bus mapping and
   vital product data.
5. Abstract specifications: a register file that `SysfsAccess` and `Backends`
   implement; a set of capabilities that `CapList` implements.
6. Proofs.  Done: daemon, bus tree, capability lists, access, names, printing and
   the calls of `LibpciCalls`, so that every safety property a run checks is a
   theorem but `OpsFollowSyntax`.
