---------------------------- MODULE SysfsAccess ----------------------------
(***************************************************************************)
(* How libpci reaches a device's configuration space through sysfs: the    *)
(* file descriptors a struct pci_access keeps for the device used last,    *)
(* the copy of the registers a struct pci_dev may hold, and the fields it  *)
(* takes from the files of the device (src/lib/sysfs.c, src/lib/access.c). *)
(*                                                                         *)
(* Devices come and go while descriptors on them stay open, and malloc may *)
(* hand out the address of a freed struct pci_dev again.  The registers of *)
(* a device are reduced to one value.                                      *)
(***************************************************************************)
EXTENDS Naturals, Functions

CONSTANTS
  Slot,      \* places a device can be in: domain, bus, device and function
  Addr,      \* addresses of struct pci_dev that malloc hands out
  Value,     \* what a device's registers can hold
  Fd,        \* numbers of file descriptors
  Mandatory, \* groups of fields whose files must be readable: PCI_FILL_IDENT,
             \* CLASS and BASES of every scan, PCI_FILL_IRQ of show_verbose
  Optional,  \* fields whose files may be missing: modalias, label, NUMA node,
             \* IOMMU group, device tree node
  None,      \* NULL, a descriptor of -1, no value
  MaxPlugs   \* bound on how often devices appear

Fields == Mandatory \cup Optional

ASSUME NoneAssumption == None \notin Slot \cup Addr \cup Value \cup Fd \cup Nat
ASSUME FieldsAssumption == Mandatory \cap Optional = {}
ASSUME MaxPlugsAssumption == MaxPlugs \in Nat

VARIABLES
  plugs,    \* devices that have appeared so far
  node,     \* slot -> which of them is there, 0 for none
  reg,      \* slot -> registers of the device there
  files,    \* descriptor -> the file behind it, for the open ones
  slotOf,   \* address -> slot of the struct pci_dev there, None when free
  cache,    \* address -> its copy of the registers, None without one
  access,   \* struct pci_access: see NewAccess
  last,     \* the last transfer: was it for its own slot, did the mode of its
            \* descriptor allow it
  filled,   \* address -> field -> None when it is not in known_fields, else
            \* the device it was read from, 0 when there was nothing to read
  died,     \* has a->error been called
  departed, \* history: addresses whose device has gone since they were made
  suspect   \* history: addresses whose copy may differ from the device

vars == <<plugs, node, reg, files, slotOf, cache, access, last, filled, died, departed, suspect>>

kernel == <<plugs, node>>
info == <<filled, died, departed>>

File == [slot : Slot, plug : 1 .. MaxPlugs, rw : BOOLEAN]

\* A faulty variant: without sysfs_init the descriptors are 0, standard input.
NewAccessZeroed(writeable) ==
  [dev |-> None, fd |-> 0, rw |-> FALSE, vpd |-> 0, writeable |-> writeable]

\* pci_alloc and sysfs_init; fd and vpd are a->fd and a->fd_vpd, dev is
\* a->cached_dev, rw is a->fd_rw.
NewAccess(writeable) ==
  [dev |-> None, fd |-> None, rw |-> FALSE, vpd |-> None, writeable |-> writeable]

Access == [dev : Addr \cup {None}, fd : Fd \cup {None}, rw : BOOLEAN,
           vpd : Fd \cup {None}, writeable : BOOLEAN]

Outcome == [own : BOOLEAN, allowed : BOOLEAN]

NoTransfer == [own |-> TRUE, allowed |-> TRUE]

(***************************************************************************)
(* Devices.  They may come and go, and their registers change, at any      *)
(* time; what does while no process runs might as well come after the      *)
(* start of the next.                                                      *)
(***************************************************************************)

Running == ~died

\* Structures for slot s, and those of them that have a copy of its registers.
Of(s) == {d \in Addr : slotOf[d] = s}
Copies(s) == {d \in Of(s) : cache[d] # None}

Appear(s) ==
  /\ Running
  /\ node[s] = 0
  /\ plugs < MaxPlugs
  /\ plugs' = plugs + 1
  /\ node' = [node EXCEPT ![s] = plugs + 1]
  /\ \E v \in Value : reg' = [reg EXCEPT ![s] = v]
  /\ suspect' = suspect \cup Copies(s)
  /\ UNCHANGED <<files, slotOf, cache, access, last, info>>

Vanish(s) ==
  /\ Running
  /\ node[s] # 0
  /\ node' = [node EXCEPT ![s] = 0]
  /\ departed' = departed \cup Of(s)
  /\ UNCHANGED <<plugs, reg, files, slotOf, cache, access, last, filled, died, suspect>>

\* The device or the kernel changes a register by itself: the link status, say,
\* which refresh_device_cache is there to follow, or PCI_COMMAND.
DeviceChanges(s) ==
  /\ Running
  /\ node[s] # 0
  /\ \E v \in Value : reg' = [reg EXCEPT ![s] = v]
  /\ suspect' = suspect \cup Copies(s)
  /\ UNCHANGED <<kernel, files, slotOf, cache, access, last, info>>

\* A transfer over a descriptor fails once its device has gone.
Answers(file) == node[file.slot] = file.plug

(***************************************************************************)
(* Descriptors.  An operator takes the pair of a->... and the open files   *)
(* and returns the pair its function leaves.                               *)
(***************************************************************************)

State == [access |-> access, files |-> files]

\* sysfs_flush_cache
Flush(st) ==
  [access |-> [st.access EXCEPT !.dev = None, !.fd = None, !.vpd = None],
   files |-> Restrict(st.files, DOMAIN st.files \ {st.access.fd, st.access.vpd})]

\* A faulty variant: a descriptor opened for reading serves a write.
PrepareAnyMode(st, d, intent) ==
  IF st.access.dev # d
  THEN LET f == Flush(st) IN [f EXCEPT !.access.dev = d]
  ELSE st

\* The head of sysfs_setup: descriptors of another device, or one that cannot
\* write when it has to, are given up.
Prepare(st, d, intent) ==
  IF st.access.dev # d \/ (intent = "write" /\ ~st.access.rw)
  THEN LET f == Flush(st) IN [f EXCEPT !.access.dev = d]
  ELSE st

Opened(st, n, s, rw) ==
  [f \in DOMAIN st.files \cup {n} |->
     IF f = n THEN [slot |-> s, plug |-> node[s], rw |-> rw] ELSE st.files[f]]

\* open() of sysfs_setup: what it may leave of state st.  It fails when the
\* device has gone, and may always fail for want of rights or descriptors.
OpenConfig(st, d, intent) ==
  LET rw == st.access.writeable \/ intent = "write"
      failed == [st EXCEPT !.access.rw = rw]
  IN  {failed} \cup
      (IF node[slotOf[d]] = 0 THEN {}
       ELSE {[access |-> [failed.access EXCEPT !.fd = n],
              files |-> Opened(st, n, slotOf[d], rw)] : n \in Fd \ DOMAIN st.files})

OpenVpd(st, d) ==
  {st} \cup
  (IF node[slotOf[d]] = 0 THEN {}
   ELSE {[access |-> [st.access EXCEPT !.vpd = n],
          files |-> Opened(st, n, slotOf[d], FALSE)] : n \in Fd \ DOMAIN st.files})

\* sysfs_setup
Setup(d, intent) ==
  LET st == Prepare(State, d, intent)
  IN  IF intent = "vpd"
      THEN IF st.access.vpd # None THEN {st} ELSE OpenVpd(st, d)
      ELSE IF st.access.fd # None THEN {st} ELSE OpenConfig(st, d, intent)

Leaves(st) == access' = st.access /\ files' = st.files

\* A transfer for d over descriptor f, if it is open, or none at all.
Transfer(st, d, f, write) ==
  last' = IF f = None THEN last
          ELSE [own |-> st.files[f].slot = slotOf[d],
                allowed |-> write => st.files[f].rw]

(***************************************************************************)
(* What callers do with a struct pci_dev.                                  *)
(***************************************************************************)

Unknown == [f \in Fields |-> None]

\* A faulty variant: the memory is not cleared, known_fields is what it was for
\* the device that had the address before.
AllocDevUncleared(d, s) ==
  /\ Running
  /\ slotOf[d] = None
  /\ slotOf' = [slotOf EXCEPT ![d] = s]
  /\ departed' = IF node[s] = 0 THEN departed \cup {d} ELSE departed \ {d}
  /\ UNCHANGED <<kernel, reg, files, cache, access, last, filled, died, suspect>>

\* pci_get_dev, or one entry of sysfs_scan: malloc finds a free address, and the
\* memory is cleared.
\* sysfs_scan names devices that are there; whoever calls pci_get_dev need not.
AllocDev(d, s) ==
  /\ Running
  /\ slotOf[d] = None
  /\ slotOf' = [slotOf EXCEPT ![d] = s]
  /\ filled' = [filled EXCEPT ![d] = Unknown]
  /\ departed' = IF node[s] = 0 THEN departed \cup {d} ELSE departed \ {d}
  /\ UNCHANGED <<kernel, reg, files, cache, access, last, died, suspect>>

\* The files of a mandatory field are read, or a->error ends the process: one of
\* them cannot be opened or read, is too long or has a syntax error, which may
\* happen to a device that is there as well as to one that has gone.
FillMandatory(d, field) ==
  /\ field \in Mandatory
  /\ \/ died' = TRUE /\ UNCHANGED filled
     \/ /\ node[slotOf[d]] # 0
        /\ filled' = [filled EXCEPT ![d][field] = node[slotOf[d]]]
        /\ UNCHANGED died

\* The file of an optional field may be missing, or fail with a warning; the
\* field is known all the same.
FillOptional(d, field) ==
  /\ field \in Optional
  /\ \E n \in {0, node[slotOf[d]]} : filled' = [filled EXCEPT ![d][field] = n]
  /\ UNCHANGED died

\* pci_fill_info of a field sysfs_fill_info takes from the device's files, if it
\* is not known: the flags of a call are so many of these steps.
\* (PCI_FILL_PHYS_SLOT reads no file of the device and is left out.)
FillInfo(d, field) ==
  /\ Running
  /\ slotOf[d] # None
  /\ filled[d][field] = None
  /\ FillMandatory(d, field) \/ FillOptional(d, field)
  /\ UNCHANGED <<kernel, reg, files, slotOf, cache, access, last, departed, suspect>>

\* A faulty variant: the descriptors outlive the device they were opened for.
CleanupDevKeepsFds(st, d) == st

\* sysfs_cleanup_dev
CleanupDev(st, d) == IF st.access.dev = d THEN Flush(st) ELSE st

\* pci_free_dev
FreeDev(d) ==
  /\ Running
  /\ slotOf[d] # None
  /\ Leaves(CleanupDev(State, d))
  /\ slotOf' = [slotOf EXCEPT ![d] = None]
  /\ cache' = [cache EXCEPT ![d] = None]
  /\ departed' = departed \ {d}
  /\ suspect' = suspect \ {d}
  /\ UNCHANGED <<kernel, reg, last, filled, died>>

\* pci_read_block into the caller's buffer, or pci_read_byte and the like
\* beyond the cache.  The value only matters where it is kept.
ReadConfig(d) ==
  /\ Running
  /\ slotOf[d] # None
  /\ \E st \in Setup(d, "read") : Leaves(st) /\ Transfer(st, d, st.access.fd, FALSE)
  /\ UNCHANGED <<kernel, reg, slotOf, cache, info, suspect>>

ReadVpd(d) ==
  /\ Running
  /\ slotOf[d] # None
  /\ \E st \in Setup(d, "vpd") : Leaves(st) /\ Transfer(st, d, st.access.vpd, FALSE)
  /\ UNCHANGED <<kernel, reg, slotOf, cache, info, suspect>>

\* scan_device and refresh_device_cache: a whole block is read into the cache,
\* which keeps what it held when the read fails.
Refresh(d) ==
  /\ Running
  /\ slotOf[d] # None
  /\ \E st \in Setup(d, "read") :
       /\ Leaves(st)
       /\ Transfer(st, d, st.access.fd, FALSE)
       /\ \/ UNCHANGED <<cache, suspect>>
          \/ /\ st.access.fd # None
             /\ Answers(st.files[st.access.fd])
             /\ cache' = [cache EXCEPT ![d] = reg[st.files[st.access.fd].slot]]
             /\ suspect' = suspect \ {d}
  /\ UNCHANGED <<kernel, reg, slotOf, info>>

\* What a write of v for d over descriptor f does to the device and to the
\* truth of the copies of its registers: nothing when it fails; and a register
\* with read-only or write-1-to-clear bits stores something else than v.
Store(st, d, f, v) ==
  \/ UNCHANGED reg /\ suspect' = suspect \cup (Copies(slotOf[d]) \cap {d})
  \/ /\ f # None
     /\ Answers(st.files[f])
     /\ \E w \in Value :
          /\ reg' = [reg EXCEPT ![st.files[f].slot] = w]
          /\ suspect' = suspect \cup
               (IF w = v THEN Copies(slotOf[d]) \ {d} ELSE Copies(slotOf[d]))

\* A faulty variant: the cache is not told.
WriteConfigUncached(d, v) ==
  /\ Running
  /\ slotOf[d] # None
  /\ \E st \in Setup(d, "write") :
       /\ Leaves(st)
       /\ Transfer(st, d, st.access.fd, TRUE)
       /\ Store(st, d, st.access.fd, v)
  /\ UNCHANGED <<kernel, slotOf, cache, info>>

\* pci_write_data: the cache takes the value before the device does, or does not.
\* Copies that other structures have of the same device are not told.
WriteConfig(d, v) ==
  /\ Running
  /\ slotOf[d] # None
  /\ cache' = IF cache[d] = None THEN cache ELSE [cache EXCEPT ![d] = v]
  /\ \E st \in Setup(d, "write") :
       /\ Leaves(st)
       /\ Transfer(st, d, st.access.fd, TRUE)
       /\ Store(st, d, st.access.fd, v)
  /\ UNCHANGED <<kernel, slotOf, info>>

\* pci_cleanup, and pci_alloc and pci_init for the next poll; or the exit of the
\* process after a->error, and the next one.
Cleanup ==
  /\ files' = Flush(State).files
  /\ \E w \in BOOLEAN : access' = NewAccess(w)
  /\ slotOf' = [d \in Addr |-> None]
  /\ cache' = [d \in Addr |-> None]
  /\ filled' = [d \in Addr |-> Unknown]
  /\ died' = FALSE
  /\ departed' = {} /\ suspect' = {}
  /\ UNCHANGED <<kernel, reg, last>>

Init ==
  /\ plugs = 0
  /\ node = [s \in Slot |-> 0]
  /\ reg \in [Slot -> Value]
  /\ files = [f \in {} |-> None]
  /\ slotOf = [d \in Addr |-> None]
  /\ cache = [d \in Addr |-> None]
  /\ \E w \in BOOLEAN : access = NewAccess(w)
  /\ last = NoTransfer
  /\ filled = [d \in Addr |-> Unknown]
  /\ died = FALSE
  /\ departed = {} /\ suspect = {}

Next ==
  \/ \E s \in Slot : Appear(s) \/ Vanish(s) \/ DeviceChanges(s)
  \/ \E d \in Addr, s \in Slot : AllocDev(d, s)
  \/ \E d \in Addr : FreeDev(d) \/ ReadConfig(d) \/ ReadVpd(d) \/ Refresh(d)
  \/ \E d \in Addr, v \in Value : WriteConfig(d, v)
  \/ \E d \in Addr, field \in Fields : FillInfo(d, field)
  \/ Cleanup

Spec == Init /\ [][Next]_vars

----------------------------------------------------------------------------

\* Every variable keeps its type (struct pci_access and struct pci_dev).
TypeOK ==
  /\ plugs \in 0 .. MaxPlugs
  /\ node \in [Slot -> 0 .. plugs]
  /\ reg \in [Slot -> Value]
  /\ DOMAIN files \subseteq Fd
  /\ \A f \in DOMAIN files : files[f] \in File
  /\ slotOf \in [Addr -> Slot \cup {None}]
  /\ cache \in [Addr -> Value \cup {None}]
  /\ access \in Access
  /\ last \in Outcome
  /\ filled \in [Addr -> [Fields -> 0 .. plugs \cup {None}]]
  /\ died \in BOOLEAN
  /\ departed \subseteq Addr
  /\ suspect \subseteq Addr

\* The process holds exactly the descriptors that a->fd and a->fd_vpd name, and
\* they are for the device of the live struct pci_dev in a->cached_dev:
\* sysfs_setup, sysfs_flush_cache and pci_free_dev lose none over any sequence
\* of calls, and none is used after its close().  So a read or write for one
\* device never goes to another, although descriptors are kept under the address
\* of a struct pci_dev that may have been freed and handed out again since.
FdsServeTheirDevice ==
  /\ DOMAIN files = {access.fd, access.vpd} \ {None}
  /\ access.fd # None => access.fd # access.vpd
  /\ \A f \in DOMAIN files :
       access.dev # None /\ slotOf[access.dev] = files[f].slot
  /\ last.own

\* Every write goes over a descriptor that was opened for writing: sysfs_setup
\* never hands sysfs_write the one a read left behind.
WritesNeedWritableFd == last.allowed

\* The copy of the registers is what the device holds, through every order of
\* reads, refreshes, writes, reuses of an address and failures, unless since
\* the last refresh a write of this structure has failed or stored something
\* else than it was given (pci_write_data changes the copy first), another
\* structure wrote to the same device, the device or the kernel changed the
\* register, or the device has been exchanged.
CopyFollowsDevice ==
  \A d \in Addr :
    cache[d] # None /\ d \notin suspect => cache[d] = reg[slotOf[d]]

\* What a struct pci_dev says of its device was read from that device, all
\* fields from the same one, as long as the device has not gone since the
\* structure was made: nothing is left over of a device that had the slot or the
\* address before, although known_fields keeps what is known from being read
\* again.  A missing optional file leaves its field empty.
FieldsOfOneDevice ==
  \A d \in Addr :
    slotOf[d] # None /\ d \notin departed =>
      \A f \in Fields :
        filled[d][f] \in {None, node[slotOf[d]]} \cup (IF f \in Optional THEN {0} ELSE {})
============================================================================
