---------------------------- MODULE LibpciCalls ----------------------------
(***************************************************************************)
(* Calls of the functions that keep no state of their own - libpci's       *)
(* filters, access methods and generic functions, setpci with its          *)
(* operations, lspci's bus map and its walk of the vital product data:     *)
(* each step is one call, with its arguments and its result.               *)
(***************************************************************************)
EXTENDS Setpci, Backends, BusMap, Vpd

CONSTANTS
  SlotStrings,   \* what is given to pci_filter_parse_slot
  IdStrings,     \* what is given to pci_filter_parse_id
  Devices,       \* devices the filters are matched against
  Filters,       \* what a filter may hold before a call
  Requests,      \* transfers asked of the access methods
  Topologies,    \* sets of functions for the generic scan
  Roots,         \* sequences of buses it starts from
  BarLists,      \* kinds of the base address registers of a device
  OpStrings,     \* what is given to parse_op
  Operations,    \* what is given to exec_op
  CommandLines,  \* arguments of setpci
  Targets,       \* the devices it finds, in the order of the list
  Memory,        \* their registers
  Maps,          \* sets of functions for the bus map
  MapFilters,    \* filters it is made with
  LastBus,       \* the last bus
  VpdImages      \* vital product data

ASSUME StringsAssumption ==
  \A text \in SlotStrings \cup IdStrings \cup OpStrings : text \in Seq(ToSet(text))
ASSUME DevicesAssumption == Devices \subseteq Device
ASSUME FiltersAssumption == Filters \subseteq [Field -> Int]
ASSUME LiteralsAssumption == \A d \in Devices : \A k \in Field : \E t \in DOMAIN Number : Number[t] = d[k]
ASSUME RequestsAssumption ==
  Requests \subseteq [op : {"read", "write"}, domain : Nat, dev : Nat, pos : Nat, len : Nat,
                     size : Nat, rw : BOOLEAN, twin : BOOLEAN]
ASSUME TopologiesAssumption ==
  \A fns \in Topologies :
    /\ IsFiniteSet(fns)
    /\ fns \subseteq [bus : Nat, dev : Nat, fn : Nat, multi : BOOLEAN, sec : Nat \cup {None}]
ASSUME RootsAssumption == Roots \subseteq Seq(Nat)
ASSUME BarListsAssumption == BarLists \subseteq Seq(BarKind)
ASSUME OperationsAssumption ==
  Operations \subseteq [type : {"none", "CAP", "ECAP"}, id : Nat, number : Nat, addr : Nat,
                        width : {1, 2, 4},
                        values : Seq({v \in [value : SUBSET AllBits, mask : SUBSET AllBits] :
                                        v.value \subseteq v.mask})]
ASSUME CommandLinesAssumption ==
  \A args \in CommandLines :
    args \in Seq(ToSet(args)) /\ \A arg \in ToSet(args) : arg.text \in Seq(ToSet(arg.text))
ASSUME TargetsAssumption ==
  Targets \in Seq([id : [Field -> Nat], caps : Seq([type : {"CAP", "ECAP"}, id : Nat, addr : Nat])])
ASSUME MemoryAssumption ==
  /\ Memory = [d \in DOMAIN Targets |-> Memory[d]]
  /\ \A d \in DOMAIN Targets :
       DOMAIN Memory[d] \subseteq Nat /\ Memory[d] \in [DOMAIN Memory[d] -> SUBSET (0 .. 7)]
ASSUME LastBusAssumption == LastBus \in Nat
ASSUME MapsAssumption ==
  \A fns \in Maps :
    /\ IsFiniteSet(fns)
    /\ fns \subseteq [bus : 0 .. LastBus, dev : Nat, fn : Nat, multi : BOOLEAN,
                      sec : (0 .. LastBus) \cup {None}, sub : (0 .. LastBus) \cup {None}]
    /\ \A f \in fns : f.sec # None => f.sub # None
ASSUME MapFiltersAssumption == MapFilters \subseteq [Field -> Int]
ASSUME VpdImagesAssumption ==
  \A vpd \in VpdImages : DOMAIN vpd \subseteq Nat /\ vpd \in [DOMAIN vpd -> 0 .. 255]

VARIABLE call

NoCall == [fn |-> "none"]

SlotFilter ==
  \E text \in SlotStrings, f \in Filters :
    call' = [fn |-> "slot", text |-> text, f |-> f, result |-> ParseSlot(f, text),
             old |-> ParseSlotOld(Export(f), text)]

IdFilter ==
  \E text \in IdStrings, f \in Filters :
    call' = [fn |-> "id", text |-> text, f |-> f, result |-> ParseId(f, text),
             old |-> ParseIdOld(Export(f), text)]

PortFilter ==
  \E d \in Devices, m \in Filters :
    call' = [fn |-> "port", device |-> d, filter |-> FilterOf(m, d)]

BlockTransfer ==
  \E b \in Backend, rq \in Requests :
    call' = [fn |-> "transfer", by |-> b, rq |-> rq, result |-> Transfer(b, rq)]

BusScan ==
  \E fns \in Topologies, roots \in Roots :
    call' = [fn |-> "scan", fns |-> fns, from |-> roots, roots |-> roots, busmap |-> {},
             list |-> <<>>, loops |-> <<>>, turns |-> 0]

FillBases == \E bars \in BarLists : call' = [fn |-> "bases", bars |-> bars, bases |-> Bases(bars)]

OpParse == \E text \in OpStrings : call' = [fn |-> "op", text |-> text, result |-> ParseOp(text)]

OpExec ==
  \E op \in Operations, d \in DOMAIN Targets, demo \in BOOLEAN :
    call' = [fn |-> "exec", op |-> op, d |-> d, demo |-> demo,
             result |-> ExecOp(op, Targets[d], Memory[d], demo)]

SetpciRun ==
  \E args \in CommandLines, demo, raw \in BOOLEAN :
    call' = [fn |-> "setpci", args |-> args, demo |-> demo, raw |-> raw,
             result |-> RunSetpci(args, [demo |-> demo, raw |-> raw], Targets, Memory)]

MapTheBus ==
  \E fns \in Maps, filter \in MapFilters : \E refused \in SUBSET Probed(fns, filter) :
    call' = [fn |-> "map", fns |-> Scanned(Probed(fns, filter), refused), bus |-> 0,
             guests |-> {}, via |-> {}, bug |-> {}, loops |-> <<>>, turns |-> 0]

VpdRun ==
  \E vpd \in VpdImages :
    call' = [fn |-> "vpd", vpd |-> vpd, mode |-> "resource", at |-> 0, len |-> 0, part |-> 0,
             csum |-> 0, walk |-> <<>>]

Call ==
  /\ call = NoCall
  /\ \/ SlotFilter \/ IdFilter \/ PortFilter \/ BlockTransfer \/ BusScan \/ FillBases
     \/ OpParse \/ OpExec \/ SetpciRun \/ MapTheBus \/ VpdRun

Counted(c) == [c EXCEPT !.turns = @ + 1]

ScanEnded == call.loops = <<>> /\ call.roots = <<>>

ScanTurn ==
  /\ call.fn = "scan"
  /\ \/ call.loops = <<>> /\ call.roots # <<>> /\ call' = Counted(ScanRoot(call))
     \/ call.loops # <<>> /\ Head(call.loops) # {} /\ call' = Counted(ScanFunction(call))
     \/ call.loops # <<>> /\ Head(call.loops) = {} /\ call' = Counted(ScanReturn(call))

MapEnded == call.loops = <<>> /\ call.bus > LastBus

MapTurn ==
  /\ call.fn = "map"
  /\ \/ call.loops = <<>> /\ call.bus <= LastBus /\ call' = Counted(MapBus(call, LastBus))
     \/ call.loops # <<>> /\ Head(call.loops).left # {} /\ call' = Counted(MapBridge(call))
     \/ call.loops # <<>> /\ Head(call.loops).left = {} /\ call' = Counted(MapReturn(call))

AllBridges(fns) == UNION {BridgesOn(fns, bus) : bus \in 0 .. LastBus}

\* The summary of the buses is printed.
MapPrint ==
  /\ call.fn = "map" /\ MapEnded
  /\ \E held \in [AllBridges(call.fns) -> 0 .. 2] :
       call' = [fn |-> "mapped", fns |-> call.fns, via |-> call.via,
                printed |-> Printed(call, AllBridges(call.fns), held)]

VpdTurn ==
  /\ call.fn = "vpd"
  /\ \/ call.mode = "resource" /\ call' = VpdResource(call)
     \/ call.mode = "name" /\ call' = VpdName(call)
     \/ call.mode = "fields" /\ call' = VpdField(call)

Init == call = NoCall

Next == Call \/ ScanTurn \/ MapTurn \/ MapPrint \/ VpdTurn

Spec == Init /\ [][Next]_call

----------------------------------------------------------------------------

\* What may stand for field k in a well-formed string.
Parts(k) ==
  {<<>>, <<Star>>} \cup
  {<<t>> : t \in {u \in DOMAIN Number : 0 <= Number[u] /\ Number[u] <= Largest[k]}}

\* The field of f after a part was read for it.
Chosen(f, k, part) == IF Open(part) THEN f[k] ELSE Number[part[1]]

\* "Slot filter syntax: [[[domain]:][bus]:][slot][.[func]]": the spellings of
\* four parts, of which empty ones may go with their separator.
SlotSpellings(d, b, s, f) ==
  LET heads == {d \o <<Colon>> \o b \o <<Colon>>}
                 \cup (IF d = <<>> THEN {b \o <<Colon>>} ELSE {})
                 \cup (IF d = <<>> /\ b = <<>> THEN {<<>>} ELSE {})
      tails == {s \o <<Dot>> \o f} \cup (IF f = <<>> THEN {s} ELSE {})
  IN  {h \o t : h \in heads, t \in tails}

\* "ID filter syntax: [vendor]:[device][:class]"; an empty string is no filter.
IdSpellings(v, d, c) ==
  {v \o <<Colon>> \o d \o <<Colon>> \o c}
    \cup (IF c = <<>> THEN {v \o <<Colon>> \o d} ELSE {})
    \cup (IF c = <<>> /\ v = <<>> /\ d = <<>> THEN {<<>>} ELSE {})

\* pci_filter_parse_slot takes exactly the strings of its documented syntax,
\* wherever the optional separators are left out, and sets the fields they name
\* and no other.
SlotFilterFollowsSyntax ==
  call.fn = "slot" =>
    LET readings == {r \in Parts("domain") \X Parts("bus") \X Parts("slot") \X Parts("func") :
                       call.text \in SlotSpellings(r[1], r[2], r[3], r[4])}
    IN  /\ call.result.error <=> readings = {}
        /\ \A p \in readings :
             call.result.filter =
               [call.f EXCEPT !["domain"] = Chosen(call.f, "domain", p[1]),
                              !["bus"]    = Chosen(call.f, "bus", p[2]),
                              !["slot"]   = Chosen(call.f, "slot", p[3]),
                              !["func"]   = Chosen(call.f, "func", p[4])]

\* A class is given, and a star somewhere but for the vendor.
StarBesideClass(text) ==
  /\ Cardinality({i \in DOMAIN text : text[i] = Colon}) > 1
  /\ \E i \in DOMAIN text \ {1} : text[i] = Star

\* pci_filter_parse_id does the same, but where a star stands for the device or
\* the class of a string that gives both: filter.c:112 looks at the wrong one.
IdFilterFollowsSyntax ==
  call.fn = "id" /\ ~StarBesideClass(call.text) =>
    LET readings == {r \in Parts("vendor") \X Parts("device") \X Parts("class") :
                       call.text \in IdSpellings(r[1], r[2], r[3])}
    IN  /\ call.result.error <=> readings = {}
        /\ \A p \in readings :
             call.result.filter =
               [call.f EXCEPT !["vendor"] = Chosen(call.f, "vendor", p[1]),
                              !["device"] = Chosen(call.f, "device", p[2]),
                              !["class"]  = Chosen(call.f, "class", p[3])]

\* The wrappers for programs built before pciutils 3.3 select the devices the
\* new functions select, refuse a class, and leave the filter alone when they
\* fail.
OldAbiAgrees ==
  call.fn \in {"slot", "id"} =>
    /\ call.old.error => call.old.filter = Export(call.f)
    /\ ~call.old.error =>
         /\ ~call.result.error
         /\ \A d \in Devices :
              MatchOld(call.old.filter, d) <=> Match([call.result.filter EXCEPT !["class"] = -1], d)

\* save_to_adna_list prints a device's address and ids and parses them back:
\* the filter it stores selects that device and no other, whatever the memory
\* it was allocated in held, which the result of the parse is not checked for.
PortFilterIsExact ==
  call.fn = "port" => \A d \in Devices : Match(call.filter, d) <=> d = call.device

\* Strings of both kinds, as libpci's callers and setpci's options pass them, are
\* read as their documented syntax says, and a filter selects the devices it was
\* made for, through both interfaces.
FiltersSelectAsTold ==
  /\ SlotFilterFollowsSyntax /\ IdFilterFollowsSyntax
  /\ OldAbiAgrees /\ PortFilterIsExact

----------------------------------------------------------------------------

\* Requests a caller may make: bytes, words and longs at multiples of their
\* length, as pci_read_data and pci_write_data insist, and blocks of any length.
Proper(rq) == rq.len \in {1, 2, 4} => rq.pos % rq.len = 0

\* Whatever way a method takes - splitting, shifting, taking a long for a byte -
\* each byte of the buffer goes with its own register; a transfer that fails in
\* the middle has done a first part of its bytes right and nothing else.
BytesMeetTheirRegisters ==
  call.fn = "transfer" /\ Proper(call.rq) =>
    \E n \in 0 .. call.rq.len :
      /\ {<<m.reg, m.byte>> : m \in call.result.moved} = {<<call.rq.pos + i, i>> : i \in 0 .. n - 1}
      /\ call.result.ok => n = call.rq.len

\* Whether a transfer succeeds does not depend on how the method splits it: it
\* does exactly if each of its bytes could be transferred alone.
BlocksFailWithTheirBytes ==
  call.fn = "transfer" /\ Proper(call.rq) /\ call.rq.len > 0 =>
    (call.result.ok <=>
       \A i \in 0 .. call.rq.len - 1 :
         Transfer(call.by, [call.rq EXCEPT !.pos = @ + i, !.len = 1]).ok)

\* A method reaches the device in the domain that was asked for or none; but on
\* /proc a device at the same address in domain 0 takes its place, as the name
\* without a domain is tried first, and SylixOS always means domain 0.
DomainsAreKept ==
  call.fn = "transfer" =>
    \A m \in call.result.moved :
      m.domain = IF call.by = "sylixos" \/ (call.by = "proc" /\ call.rq.twin)
                 THEN 0 ELSE call.rq.domain

\* A transfer by any method does all or a first part of what was asked, to the
\* device that was asked for, and fails exactly where one of its bytes does.
TransfersAreExact == BytesMeetTheirRegisters /\ BlocksFailWithTheirBytes /\ DomainsAreKept

Buses(fns, roots) == ToSet(roots) \cup ({f.sec : f \in fns} \ {None})

\* The buses that can be reached from roots: those in every set of buses that the
\* bridges do not lead out of.
Reachable(fns, roots) ==
  {b \in Buses(fns, roots) :
     \A S \in SUBSET Buses(fns, roots) :
       /\ ToSet(roots) \subseteq S
       /\ \A c \in S : \A f \in Visible(fns, c) : f.sec # None => f.sec \in S
       => b \in S}

\* Even where firmware gave two bridges one bus, or a bus a loop, the generic
\* scan ends and lists every function on a bus that can be reached, once.
ScanListsReachableOnce ==
  call.fn = "scan" =>
    /\ IsInjective(call.list)
    /\ call.turns <= 2 * (Len(call.from) + Cardinality(call.fns))
    /\ ScanEnded =>
         ToSet(call.list) = UNION {Visible(call.fns, b) : b \in Reachable(call.fns, call.from)}

\* The upper half of a 64-bit address: an odd number of 64-bit registers are
\* right before it.
UpperHalf(bars, i) ==
  \E n \in 1 .. i - 1 :
    /\ n % 2 = 1
    /\ \A j \in i - n .. i - 1 : bars[j] = "mem64"
    /\ n = i - 1 \/ bars[i - n - 1] # "mem64"

\* pci_generic_fill_info gives every address to its register, together with the
\* next one for a 64-bit address, and never takes an upper half for an address.
AddressesTakeTheirRegisters ==
  call.fn = "bases" =>
    \A i \in DOMAIN call.bars :
      call.bases[i] =
        IF UpperHalf(call.bars, i) \/ call.bars[i] \in {"zero", "ones"} THEN {}
        ELSE IF call.bars[i] # "mem64" THEN {i}
        ELSE IF i = Len(call.bars) THEN {} ELSE {i, i + 1}

\* The generic scan finds every function once and every address of a function.
GenericScanIsExact == ScanListsReachableOnce /\ AddressesTakeTheirRegisters

----------------------------------------------------------------------------

Literals == {<<t>> : t \in DOMAIN Hex32}

After(sep, parts) == {<<>>} \cup {<<sep>> \o p : p \in parts}

\* Where text falls into "<base>[+<offset>][.(B|W|L)][@<number>]" and "=<values>".
OpReadings(text) ==
  LET n == Len(text)
      part(i, j) == SubSeq(text, i + 1, j)
      \* Each optional part has two tokens.
      cuts == {<<b, b + 2 * x, b + 2 * (x + y), b + 2 * (x + y + z)>> : b \in 1 .. n, x, y, z \in 0 .. 1}
  IN  {r \in cuts :
         /\ r[4] <= n
         /\ Meaning(part(0, r[1])) # {}
         /\ part(r[1], r[2]) \in After("+", Literals)
         /\ part(r[2], r[3]) \in After(Dot, {<<u>> : u \in DOMAIN WidthOf})
         /\ part(r[3], r[4]) \in After("@", Literals)
         /\ r[4] < n => text[r[4] + 1] = "="}

\* A number that a register of this width holds, also as a negative one.
Holds(lit, width) == width < 4 => Hex32[lit] \in -(2 ^ (8 * width)) .. 2 ^ (8 * width) - 1

\* "<hex>", "<hex>:<mask>" or ":<mask>", where nothing before the colon is 0.
ValueOf(piece, width) ==
  LET held    == {y \in DOMAIN Hex32 : Holds(y, width)}
      bits(y) == BitsOf(Hex32[y])
  IN  {[value |-> bits(y), mask |-> AllBits] : y \in {x \in held : piece = <<x>>}}
      \cup {[value |-> bits(y[1]) \cap bits(y[2]), mask |-> bits(y[2])] :
               y \in {x \in held \X held : piece = <<x[1], Colon, x[2]>>}}
      \cup {[value |-> {}, mask |-> bits(y)] : y \in {x \in held : piece = <<Colon, x>>}}

\* The operation a reading stands for, if it can be done.
OpMeaning(text, r) ==
  LET reg    == CHOOSE x \in Meaning(SubSeq(text, 1, r[1])) : TRUE
      offset == IF r[1] = r[2] THEN 0 ELSE Hex32[text[r[2]]]
      width  == IF r[2] = r[3] THEN reg.width ELSE WidthOf[text[r[3]]]
      number == IF r[3] = r[4] THEN 0 ELSE Hex32[text[r[4]]]
      addr   == reg.offset + offset
      values == IF r[4] = Len(text) THEN <<>> ELSE Pieces32(SubSeq(text, r[4] + 2, Len(text)))
      sound  == /\ width # 0 /\ {number, offset, reg.offset} \subseteq Nat
                /\ addr % width = 0 /\ addr < Size
                /\ \A j \in DOMAIN values :
                     addr + width * j <= Size /\ ValueOf(values[j], width) # {}
  IN  IF ~sound THEN {}
      ELSE {[type |-> reg.type, id |-> reg.id, number |-> number, addr |-> addr, width |-> width,
             values |-> [j \in DOMAIN values |-> CHOOSE v \in ValueOf(values[j], width) : TRUE]]}

\* A number near the end of 32 bits and an offset that takes it past: setpci.c:733
\* adds them before the range is checked.
SumWraps(text) == text[1] \in DOMAIN Hex32 /\ Hex32[text[1]] < 0 /\ Has(text, "+")

\* parse_op takes exactly the operations of its documented syntax that lie in the
\* configuration space and whose values fit their width, in this order of the
\* optional parts, and reads each as the syntax says, but where a sum wraps.
OpsFollowSyntax ==
  call.fn = "op" /\ ~SumWraps(call.text) =>
    LET meanings == UNION {OpMeaning(call.text, r) : r \in OpReadings(call.text)}
    IN  /\ call.result.error <=> meanings = {}
        /\ meanings # {} => meanings = {call.result.op}

\* What parse_op accepts exec_op can do: every access of an operation on a
\* register by its address is aligned and inside the configuration space, however
\* the address came about.  Relative to a capability this is only known when it
\* runs, and only checked for the first value.
AcceptedOpsFit ==
  call.fn = "op" /\ ~call.result.error =>
    \A d \in DOMAIN Targets :
      LET op   == call.result.op
          done == ExecOp(op, Targets[d], Memory[d], FALSE)
          bad  == {a \in done.accesses : a % op.width # 0 \/ a + op.width > Size}
      IN  IF op.type = "none" THEN ~done.died /\ bad = {}
          ELSE bad # {} => Len(op.values) > 1

\* Of the registers of a device an operation changes the bits under its masks,
\* to its values, and no other bit, however many bytes a mask leaves alone;
\* reading, listing and failing change nothing.
MaskedBitsOnly ==
  call.fn = "exec" =>
    LET op     == call.op
        before == Memory[call.d]
        reach  == IF call.demo THEN {} ELSE call.result.accesses
        \* The value written at address a.
        Put(a) == op.values[Cardinality({c \in reach : c <= a})]
    IN  \A r \in DOMAIN before, b \in 0 .. 7 :
          LET over == {a \in reach : op.values # <<>> /\ r \in a .. a + op.width - 1
                                       /\ 8 * (r - a) + b \in Put(a).mask}
          IN  b \in call.result.mem[r] <=>
                IF over = {} THEN b \in before[r]
                ELSE \A a \in over : 8 * (r - a) + b \in Put(a).value

\* The filters right before the operations that argument i is one of.
FiltersOf(args, i) ==
  {j \in 1 .. i - 1 :
     /\ args[j].kind # "op"
     /\ \A k \in j + 1 .. i - 1 : args[k].kind # "op" => args[k - 1].kind # "op"}

\* The fields a filter names.
Named(arg) ==
  LET f == (IF arg.kind = "s" THEN ParseSlot(AnyDevice, arg.text)
            ELSE ParseId(AnyDevice, arg.text)).filter
  IN  [k \in {l \in Field : f[l] >= 0} |-> f[k]]

\* A device has the value of each field that was named last.
Selects(args, i, id) ==
  \A j \in FiltersOf(args, i) : \A k \in DOMAIN Named(args[j]) :
    \/ id[k] = Named(args[j])[k]
    \/ \E m \in FiltersOf(args, i) : m > j /\ k \in DOMAIN Named(args[m])

\* Argument i is an operation for device d.
IsFor(args, i, d) == args[i].kind = "op" /\ Selects(args, i, Targets[d].id)

\* What argument i does to it.
ExecArg(args, i, d, m, demo) == ExecOp(ParseOp(args[i].text).op, Targets[d], m, demo)

\* Its registers, after as many of the arguments.
RegistersAfter(args, d, demo) ==
  LET Upto[i \in 0 .. Len(args)] ==
        IF i = 0 THEN Memory[d]
        ELSE IF IsFor(args, i, d) THEN ExecArg(args, i, d, Upto[i - 1], demo).mem
        ELSE Upto[i - 1]
  IN  Upto

\* Every device gets the operations whose filters it matches, in the order of the
\* command line, whether or not the bus was scanned for it; where an operation
\* dies, on a device it is for, the devices have a first part of them, and where
\* an argument is wrong none.
SelectedDevicesGetTheirOps ==
  call.fn = "setpci" =>
    LET args == call.args
    IN  IF ParseOps(args).error THEN call.result.mem = Memory
        ELSE /\ call.result.died =>
                  \E i \in DOMAIN args, d \in DOMAIN Targets :
                    IsFor(args, i, d) /\ ExecArg(args, i, d, Memory[d], call.demo).died
             /\ \A d \in DOMAIN Targets :
                  LET after == RegistersAfter(args, d, call.demo)
                  IN  \E n \in 0 .. Len(args) :
                        call.result.mem[d] = after[n] /\ (~call.result.died => n = Len(args))

\* What parse_op lets through can be done, doing it changes what the values and
\* masks of the operation say and nothing else, and it is done to the devices that
\* the filters before it select.
OperationsDoAsTold == AcceptedOpsFit /\ MaskedBitsOnly /\ SelectedDevicesGetTheirOps

----------------------------------------------------------------------------

\* The bridges lead up from every bus to higher ones, no two to one bus, and each
\* has a range inside that of the bridge to its own bus.
SetUpWell(bridges) ==
  \A b \in bridges :
    /\ b.bus < b.first
    /\ \A c \in bridges \ {b} :
         /\ c.first # b.first
         /\ c.first = b.bus => b.last <= c.last

\* Whatever the bus numbers in the bridges, the map is a forest: a bus is entered
\* by one bridge at most, a bridge behind an entered bus has its range inside that
\* of the bridge in front, and going up from any bus comes to an end.  A bridge
\* that is marked for crossing did leave the range in front of it.  The walk ends,
\* and then each bridge that do_map_bus saw is either on the map or was given one
\* mark; bridges that are set up well are all on the map.  What is printed of a
\* bridge that is not on the map is the one bug it was marked with; nothing is
\* said of the others, whose byte b->bug nobody has written.
MapIsForest ==
  /\ call.fn = "mapped" =>
       \A b \in AllBridges(call.fns) \ call.via :
         \E n \in 1 .. 2 : \A k \in 0 .. 2 : <<b, k>> \in call.printed <=> k = n
  /\ call.fn = "map" =>
    LET bridges == AllBridges(call.fns)
        via     == call.via
        bug     == call.bug
        Up(S)   == {b.bus : b \in {c \in via : c.first \in S}}
    IN  /\ \A b, c \in via :
             /\ b.first = c.first => b = c
             /\ b.bus = c.first => c.first <= b.first /\ b.last <= c.last
        /\ ~\E S \in (SUBSET (0 .. LastBus)) \ {{}} : S \subseteq Up(S)
        /\ \A b \in bridges :
             <<b, 2>> \in bug =>
               \E c \in via : c.first = b.bus /\ ~(c.first <= b.first /\ b.last <= c.last)
        /\ call.turns <= 2 * (LastBus + 1 + Cardinality(bridges))
        /\ MapEnded =>
             /\ via \subseteq bridges
             /\ \A b \in bridges :
                  Cardinality({n \in 1 .. 2 : <<b, n>> \in bug}) = IF b \in via THEN 0 ELSE 1
             /\ SetUpWell(bridges) => via = bridges

\* However the lengths in the data lie, cap_vpd reads forward and inside the
\* address range, at most a buffer at a time and no byte twice - but for the byte
\* it reads of an empty RV field, which is that of the next field - and where no
\* byte was left out, the first verdict is that of the sum over all bytes up to
\* the one the RV field begins with.
VpdSumIsRight ==
  call.fn = "vpd" =>
    LET walk     == call.walk
        reads    == {i \in DOMAIN walk : walk[i].what = "read"}
        verdicts == DOMAIN walk \ reads
        End(i)   == walk[i].pos + walk[i].len
        \* The byte of an empty reserved field: the read before it gave its length.
        Extra(i) == i + 1 \in verdicts /\ call.vpd[walk[i].pos - 1] = 0
    IN  /\ \A i \in reads :
             /\ walk[i].len <= VpdBuffer
             /\ End(i) <= VpdMask + 1 + (IF Extra(i) THEN 1 ELSE 0)
             /\ \A j \in reads : i < j => walk[j].pos >= End(i) - (IF Extra(i) THEN 1 ELSE 0)
        /\ \A v \in verdicts :
             LET before == {i \in reads : i < v}
                 last   == walk[v - 1].pos
             IN  /\ \A u \in verdicts : v <= u
                 /\ 0 .. last \subseteq UNION {walk[i].pos .. End(i) - 1 : i \in before}
                 => (walk[v].good <=> ByteSum(call.vpd, 0, last + 1) = 0)
=============================================================================
