-------------------------------- MODULE Show --------------------------------
(***************************************************************************)
(* What src/src/adna.c does with one port of a scan: scan_device reads its *)
(* first 256 bytes, the start-up or a poll looks at it through the cache   *)
(* of libpci, and show_verbose prints it, walking its capabilities with    *)
(* show_caps of ls-caps.c and show_ext_caps of ls-ecaps.c.                 *)
(*                                                                         *)
(* The printers of CapPrinters and ExtCapPrinters run step by step on the  *)
(* configuration block of struct device: the bytes it holds, its size,     *)
(* which config_fetch doubles, and the cache pointer of libpci, which      *)
(* points into it until it is moved.  What the device answers is chosen    *)
(* when it is read.                                                        *)
(***************************************************************************)
EXTENDS ExtCapPrinters, FiniteSets

CONSTANTS
  Builds,        \* values of "ADNA is defined"
  StdPositions,  \* positions of capabilities in the first 256 bytes
  ExtPositions,  \* positions of extended capabilities after the first, at 256
  ConfigSize,    \* bytes of configuration space
  ExpTypes,      \* types of PCI Express functions
  Common,        \* walks on which the number of capabilities is unbounded:
                 \* [std |-> ids, ext |-> ids]
  MaxRare,       \* bound on capabilities of other ids
  EaLists,       \* lists of entries of an Enhanced Allocation
  VendorLengths, \* lengths of vendor capabilities
  Counts         \* numbers of channels, links and base addresses

ASSUME BuildsAssumption == Builds \subseteq BOOLEAN

\* A pointer to a capability has its last two bits masked off.
ASSUME StdPositionsAssumption == StdPositions \subseteq {4 * i : i \in 1 .. 63}
ASSUME ExtPositionsAssumption == ExtPositions \subseteq {4 * i : i \in 1 .. 1023}
ASSUME ConfigSizeAssumption == ConfigSize \in Nat

\* The sizes are fields of registers.
ASSUME SizesAssumption ==
  /\ MaxRare \in Nat
  /\ VendorLengths \subseteq 0 .. 255
  /\ Counts \subseteq 0 .. 255
  /\ EaLists \subseteq Seq([es : 0 .. 7, baseHigh : BOOLEAN, offsetHigh : BOOLEAN])

VARIABLES
  adna,       \* the build
  startup,    \* the first scan of the process, not one of a poll
  pc,         \* where the code stands
  cached,     \* the cache pointer of libpci points at the block in use
  extra,      \* positions past 255 whose byte is present
  bufsize,    \* config_bufsize
  where,      \* the position of the capability
  cap,        \* its walk and id
  been,       \* been_there of the walk
  todo,       \* steps of the printer still to do
  rare,       \* history: capabilities of ids not in Common, of both walks
  shown,      \* history: positions printed in this walk
  twice,      \* history: positions a walk printed twice
  type,       \* type of the PCI Express function, 16 when none was printed
  ext,        \* can_have_ext_caps
  flagged,    \* bIsD3 of the port's record
  fault,      \* what a printer did wrong
  command,    \* hardware: bits of the low byte of PCI_COMMAND
  seen,       \* those bits in the configuration block
  since       \* history: bits changed outside since the block was read

block == <<cached, extra, bufsize>>
history == <<rare, shown, twice>>
walk  == <<where, cap, been, todo, history, type, ext>>
cmd   == <<command, seen, since>>
vars  == <<adna, startup, pc, block, walk, flagged, fault, cmd>>

Range256 == 0 .. 255
Enables == {"io", "memory", "master"}
CommandBits == Enables \cup {"others"}
None == 16

Init ==
  /\ adna \in Builds
  /\ startup \in BOOLEAN
  /\ pc = "scan"
  /\ cached = FALSE /\ extra = {} /\ bufsize = 256
  /\ where = 0 /\ cap = <<"std", CapId.NULL>> /\ been = {} /\ todo = <<>>
  /\ rare = 0 /\ shown = {} /\ twice = {}
  /\ type = None /\ ext = FALSE
  /\ flagged = FALSE
  /\ fault = "none"
  /\ command \in SUBSET CommandBits /\ seen = {} /\ since = {}

----------------------------------------------------------------------------
\* From the scan to show_verbose.

\* A block of 256 bytes becomes the configuration block and the cache.
ScanDevice ==
  /\ pc = "scan"
  /\ pc' = "listed"
  /\ cached' = TRUE
  /\ seen' = command
  /\ since' = {}
  /\ UNCHANGED <<adna, startup, extra, bufsize, walk, flagged, fault, command>>

\* "Unable to read the standard configuration space header".
ScanDeviceFails ==
  /\ pc = "scan"
  /\ pc' = "done"
  /\ UNCHANGED <<adna, startup, block, walk, flagged, fault, cmd>>

\* pci_is_downstream reads the cache; every downstream port is shown.
StartUp ==
  /\ pc = "listed"
  /\ startup
  /\ pc' \in {"show", "done"}
  /\ UNCHANGED <<adna, startup, block, walk, flagged, fault, cmd>>

\* refresh_device_cache reads the block again, into the cache; a read that
\* fails leaves it.  Then pci_dl_active and pci_is_hub_alive: only a port whose
\* link came up is shown, after the bus rescan.
Poll ==
  /\ pc = "listed"
  /\ ~startup
  /\ \/ seen' = command /\ since' = {}
     \/ UNCHANGED <<seen, since>>
  /\ pc' \in {"show", "done"}
  /\ UNCHANGED <<adna, startup, block, walk, flagged, fault, command>>

\* The kernel, or anybody, changes the register; both sleep before the port
\* is shown give it the time.
OutsideWritesCommand ==
  /\ pc \in {"listed", "show"}
  /\ \E bits \in SUBSET CommandBits :
       /\ command' = bits
       /\ since' = since \cup ((bits \ command) \cup (command \ bits))
  /\ UNCHANGED <<adna, startup, pc, block, walk, flagged, fault, seen>>

\* A faulty variant: the enable bits alone are written.
CommandBareEnables == Enables

\* The byte show_verbose writes: the one of the block, and the enable bits.
CommandWritten == seen \cup Enables

\* pci_write_byte changes the cache, then tries the register, which may keep
\* any of its bits: the write fails, or a port without I/O has its bit at zero.
WriteCommand ==
  IF Enables \subseteq seen
  THEN UNCHANGED <<command, seen>>
  ELSE /\ seen' = CommandWritten
       /\ \E kept \in SUBSET CommandBits :
            command' = (command \cap kept) \cup (CommandWritten \ kept)

\* show_verbose up to the switch on the header type.
ShowVerbose ==
  /\ pc = "show"
  /\ WriteCommand
  /\ pc' \in {"htype", "done"}
  /\ UNCHANGED <<adna, startup, block, walk, flagged, fault, since>>

\* show_htype0, 1 and 2 end in show_caps, from the pointer that their header
\* has.  The header they print before is that of the scan.  Nothing looks at
\* PCI_COMMAND from here on, and the model forgets it.
ShowCaps ==
  /\ pc = "htype"
  /\ \E pointer \in StdPositions \cup {0} : where' = pointer
  /\ been' = {} /\ shown' = {}
  /\ pc' = "std"
  /\ command' = {} /\ seen' = {} /\ since' = {}
  /\ UNCHANGED <<adna, startup, block, cap, todo, rare, twice, type, ext, flagged, fault>>

----------------------------------------------------------------------------
\* The two walks.

\* The ids a device can still answer with, under the bound on rare ones.
Answers(w, ids) == IF rare < MaxRare THEN ids ELSE ids \cap Common[w]

\* What the switch of show_caps runs for an id; all other ids print a line.
StdPrinters(id) ==
  CASE id = CapId.PM -> {cap_pm(adna)}
    [] ~adna /\ id = CapId.AGP -> {cap_agp}
    [] ~adna /\ id = CapId.MSI -> cap_msi
    [] ~adna /\ id = CapId.PCIX -> cap_pcix
    [] ~adna /\ id = CapId.HT -> cap_ht
    [] ~adna /\ id = CapId.VNDR -> show_vendor_caps(VendorLengths)
    [] ~adna /\ id = CapId.SSVID -> {cap_ssvid}
    [] ~adna /\ id = CapId.MSIX -> {cap_msix}
    [] ~adna /\ id = CapId.SATA -> {cap_sata_hba}
    [] ~adna /\ id = CapId.AF -> {cap_af}
    [] ~adna /\ id = CapId.EA -> cap_ea(EaLists)
    [] OTHER -> {<<>>}

\* What the switch of show_ext_caps runs for an id.
ExtPrinters(id) ==
  CASE id = ExtCapId.DSN -> {cap_dsn}
    [] ~adna /\ id = ExtCapId.AER -> {cap_aer(type \in {ExpType.ROOT_PORT, ExpType.ROOT_EC})}
    [] ~adna /\ id = ExtCapId.DPC -> {cap_dpc}
    [] ~adna /\ id \in {ExtCapId.VC, ExtCapId.VC2} -> {cap_vc(n) : n \in Counts \cap 0 .. 7}
    [] ~adna /\ id = ExtCapId.RCLINK -> {cap_rclink(n) : n \in Counts}
    [] ~adna /\ id = ExtCapId.RCEC -> {cap_rcec(numbered) : numbered \in BOOLEAN}
    [] ~adna /\ id = ExtCapId.VNDR -> {cap_evendor}
    [] ~adna /\ id = ExtCapId.ACS -> {cap_acs}
    [] ~adna /\ id = ExtCapId.ARI -> {cap_ari}
    [] ~adna /\ id = ExtCapId.ATS -> {cap_ats}
    [] ~adna /\ id = ExtCapId.SRIOV -> {cap_sriov(past) : past \in BOOLEAN}
    [] ~adna /\ id = ExtCapId.MCAST ->
         {cap_multicast(type \in {ExpType.ENDPOINT, ExpType.ROOT_INT_EP})}
    [] ~adna /\ id = ExtCapId.PRI -> {cap_pri}
    [] ~adna /\ id \in {ExtCapId.REBAR, ExtCapId.VF_REBAR} ->
         {cap_rebar(n) : n \in Counts \cap 1 .. 6}
    [] ~adna /\ id = ExtCapId.TPH -> {cap_tph}
    [] ~adna /\ id = ExtCapId.LTR -> {cap_ltr}
    [] ~adna /\ id = ExtCapId.SECPCI -> {cap_sec}
    [] ~adna /\ id = ExtCapId.PASID -> {cap_pasid}
    [] ~adna /\ id = ExtCapId.L1PM -> {cap_l1pm}
    [] ~adna /\ id = ExtCapId.PTM -> {cap_ptm}
    [] ~adna /\ id = ExtCapId.DVSEC -> {cap_dvsec(cxl) : cxl \in BOOLEAN}
    [] OTHER -> {<<>>}

\* The capability is printed.
Record(w, id) ==
  /\ cap' = <<w, id>>
  /\ rare' = IF id \in Common[w] THEN rare ELSE rare + 1
  /\ shown' = shown \cup {where}
  /\ twice' = twice \cup ({where} \cap shown)

\* A faulty variant: the mark is forgotten.
VisitUnmarked(w, id) == Record(w, id) /\ UNCHANGED been

\* been_there[where]++, and the capability is printed.
Visit(w, id) == Record(w, id) /\ been' = been \cup {where}

\* A turn of show_caps: the header is in the first 256 bytes.
StdHeader ==
  /\ pc = "std"
  /\ where \notin been \cup {0}
  /\ \E id \in Answers("std", {CapId[n] : n \in DOMAIN CapId}) :
       /\ Visit("std", id)
       /\ \/ /\ id = CapId.EXP
             /\ \E t \in ExpTypes, slot \in BOOLEAN :
                  /\ slot => exp_downstream_port(t)
                  /\ todo' = cap_express(adna, t, slot)
                  /\ type' = t
             /\ ext' = TRUE
          \/ /\ id # CapId.EXP
             /\ todo' \in StdPrinters(id)
             /\ ext' = (ext \/ (~adna /\ id = CapId.PCIX))
             /\ UNCHANGED type
  /\ pc' = "std print"
  /\ UNCHANGED <<adna, startup, block, where, flagged, fault, cmd>>

\* The list ended, or "<chain looped>", or "<chain broken>" (id 0xff).
StdEnd ==
  /\ pc = "std"
  /\ IF ext
     THEN pc' = "ext" /\ where' = 256
     ELSE pc' = "done" /\ UNCHANGED where
  /\ been' = {} /\ shown' = {}
  /\ UNCHANGED <<adna, startup, block, cap, todo, rare, twice, type, ext, flagged, fault, cmd>>

\* A turn of show_ext_caps, once the header has been fetched.
ExtHeader ==
  /\ pc = "ext header"
  /\ where \notin been
  /\ \E id \in Answers("ext", {ExtCapId[n] : n \in DOMAIN ExtCapId}) :
       /\ Visit("ext", id)
       /\ todo' \in ExtPrinters(id)
  /\ pc' = "ext print"
  /\ UNCHANGED <<adna, startup, block, where, type, ext, flagged, fault, cmd>>

\* A faulty variant: the same scan is looked at again.
ExtEndPollsOn ==
  /\ pc = "ext header"
  /\ pc' = "listed"
  /\ UNCHANGED <<adna, startup, block, walk, flagged, fault, cmd>>

\* An empty header, or "<chain looped>".
ExtEnd ==
  /\ pc = "ext header"
  /\ pc' = "done"
  /\ UNCHANGED <<adna, startup, block, walk, flagged, fault, cmd>>

\* The printer has returned.  "next" was read with the header; nothing looks at
\* it before the loop condition, where it is chosen.
PrinterReturns ==
  /\ todo = <<>>
  /\ \/ pc = "std print" /\ pc' = "std" /\ where' \in StdPositions \cup {0}
     \/ pc = "ext print" /\ pc' = "ext" /\ where' \in ExtPositions
     \/ pc = "ext print" /\ pc' = "done" /\ where' = 0
  /\ UNCHANGED <<adna, startup, block, cap, been, todo, history, type, ext, flagged, fault, cmd>>

----------------------------------------------------------------------------
\* config_fetch and the accessors.

Present(i) == i \in Range256 \cup extra

Missing(from, len) == {i \in from .. from + len - 1 : ~Present(i)}

\* The block that is left after trimming present bytes at both ends.
Trimmed(from, len) ==
  LET missing == Missing(from, len)
  IN  {i \in from .. from + len - 1 : \E j, k \in missing : j <= i /\ i <= k}

\* Buffer sizes that doubling reaches.
BufSizes == {256, 512, 1024, 2048, 4096, 8192}

\* A faulty variant: the size is doubled once.
GrowOnce(end) ==
  IF end <= bufsize
  THEN UNCHANGED <<bufsize, cached>>
  ELSE bufsize' = 2 * bufsize /\ cached' = FALSE

\* The buffer grows, and may move, when the whole range ends past it; the
\* cache pointer of libpci is not told.
Grow(end) ==
  IF end <= bufsize
  THEN UNCHANGED <<bufsize, cached>>
  ELSE /\ \E size \in BufSizes : end <= size /\ size < 2 * end /\ bufsize' = size
       /\ cached' = FALSE

\* config_fetch(d, from, len) succeeds: nothing was missing, or the read of
\* what was missing went through.
FetchSucceeds(from, len) ==
  IF Missing(from, len) = {}
  THEN UNCHANGED block
  ELSE /\ Grow(from + len)
       /\ \A i \in Trimmed(from, len) : i < ConfigSize
       /\ extra' = extra \cup Trimmed(from, len)

FetchFails(from, len) ==
  /\ Missing(from, len) # {}
  /\ Grow(from + len)
  /\ UNCHANGED extra

\* The header of an extended capability.
FetchExtHeader ==
  /\ pc = "ext"
  /\ \/ FetchSucceeds(where, 4) /\ pc' = "ext header"
     \/ FetchFails(where, 4) /\ pc' = "done"
  /\ UNCHANGED <<adna, startup, walk, flagged, fault, cmd>>

Printing == pc \in {"std print", "ext print"} /\ todo # <<>>

\* What is left of a printer after a fetch has failed.
Rest(op) ==
  IF op = "fetch" \/ \A i \in 2 .. Len(todo) : todo[i].op # "try"
  THEN <<>>
  ELSE SubSeq(todo, CHOOSE i \in 2 .. Len(todo) :
                      todo[i].op = "try" /\ \A j \in 2 .. i - 1 : todo[j].op # "try", Len(todo))

PrintFetch ==
  /\ Printing
  /\ Head(todo).op \in {"fetch", "try"}
  /\ \/ FetchSucceeds(where + Head(todo).at, Head(todo).len) /\ todo' = Tail(todo)
     \/ FetchFails(where + Head(todo).at, Head(todo).len) /\ todo' = Rest(Head(todo).op)
  /\ UNCHANGED <<adna, startup, pc, where, cap, been, history, type, ext, flagged, fault, cmd>>

\* check_conf_range.
Readable(from, len) == Missing(from, len) = {}

PrintRead ==
  /\ Printing
  /\ Head(todo).op = "read"
  /\ LET from == where + Head(todo).at
         len  == Head(todo).len
     IN  IF Readable(from, len)
         THEN todo' = Tail(todo) /\ UNCHANGED <<pc, fault>>
         ELSE /\ fault' = IF from + len > bufsize THEN "past the buffer" ELSE "Internal bug"
              /\ pc' = "done"
              /\ UNCHANGED todo
  /\ UNCHANGED <<adna, startup, block, where, cap, been, history, type, ext, flagged, cmd>>

\* The largest field decides whether every field fits.
PrintIndex ==
  /\ Printing
  /\ Head(todo).op = "index"
  /\ IF Head(todo).at < Head(todo).len
     THEN todo' = Tail(todo) /\ UNCHANGED <<pc, fault>>
     ELSE \/ todo' = Tail(todo) /\ UNCHANGED <<pc, fault>>
          \/ fault' = "shift or index" /\ pc' = "done" /\ UNCHANGED todo
  /\ UNCHANGED <<adna, startup, block, where, cap, been, history, type, ext, flagged, cmd>>

\* count_downstream numbers the ports of the first scan only; adna_set_d3_flag
\* finds no record of number 0.
Numbered == startup

PrintPowerState ==
  /\ Printing
  /\ Head(todo).op = "power"
  /\ flagged' \in {flagged, flagged \/ Numbered}
  /\ todo' = Tail(todo)
  /\ UNCHANGED <<adna, startup, pc, block, where, cap, been, history, type, ext, fault, cmd>>

----------------------------------------------------------------------------

PrinterStep == PrintFetch \/ PrintRead \/ PrintIndex \/ PrintPowerState

Process ==
  \/ ScanDevice \/ ScanDeviceFails \/ StartUp \/ Poll \/ ShowVerbose \/ ShowCaps
  \/ StdHeader \/ StdEnd \/ FetchExtHeader \/ ExtHeader \/ ExtEnd
  \/ PrinterReturns \/ PrinterStep

Next == Process \/ OutsideWritesCommand

\* The process runs; nothing is assumed of what else writes the register.
Spec == Init /\ [][Next]_vars /\ WF_vars(Process)

----------------------------------------------------------------------------

BlockTypeOK ==
  /\ cached \in BOOLEAN
  /\ extra \subseteq Nat
  /\ bufsize \in BufSizes

\* Every variable keeps its type, and no present byte lies past the buffer of
\* config_fetch.
TypeOK ==
  /\ adna \in BOOLEAN /\ startup \in BOOLEAN
  /\ pc \in {"scan", "listed", "show", "htype", "std", "std print", "ext", "ext header",
             "ext print", "done"}
  /\ BlockTypeOK
  /\ where \in Nat /\ cap \in {"std", "ext"} \X Nat /\ been \subseteq Nat /\ shown \subseteq Nat
  /\ rare \in Nat /\ twice \subseteq Nat
  /\ flagged \in BOOLEAN
  /\ \A i \in extra : i < bufsize

\* The two printers that read what config_fetch was not asked for: cap_ea
\* trusts the flags of an entry over its size, and cap_pm of the ADNA build
\* reads the control register unfetched, which in a power management
\* capability at 0xfc is past the 256 bytes of the scan.
ReadsUnfetched ==
  \/ adna /\ cap = <<"std", CapId.PM>> /\ where >= 252
  \/ ~adna /\ cap = <<"std", CapId.EA>>

\* No printer ends in "Internal bug: Accessing non-read configuration byte" or
\* reads past the buffer, whatever the device answers and whichever fetches
\* fail, but for the two printers above; and every table is indexed and every
\* word shifted by a field that fits, but for the latency scale of LTR and the
\* two sizes of a multicast capability.
PrintersStayInBounds ==
  /\ fault \in {"Internal bug", "past the buffer"} => ReadsUnfetched
  /\ fault = "shift or index" => cap \in {"ext"} \X {ExtCapId.LTR, ExtCapId.MCAST}

\* been_there lets no walk print a capability twice, however the device links
\* them and whatever it answers the second time.
EachCapabilityOnce == twice = {}

\* libpci reads and writes through its cache pointer in pci_is_downstream,
\* refresh_device_cache, pci_dl_active and pci_write_byte: at each of them the
\* block it points to has not been moved by config_fetch.
CacheIsLiveWhenUsed == pc \in {"listed", "show"} => cached

\* Bits on which two values of PCI_COMMAND differ.
Changed(a, b) == (a \ b) \cup (b \ a)

\* show_verbose turns bits of PCI_COMMAND on, its three enables, and changes no
\* other bit, up or down, unless somebody changed that bit after the scan or
\* the refresh read it: the byte it writes is that old, and what was changed
\* since is lost.  No enable that was on goes off.
CommandWriteUndoesOnlyRaces ==
  [][pc = "show" /\ pc' # "show" =>
       /\ Changed(command, command') \subseteq since \cup Enables
       /\ command \cap Enables \subseteq command']_vars

\* Both walks end, whatever the device answers.
ShowEnds == <>(pc = "done")
=============================================================================
