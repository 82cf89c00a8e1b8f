----------------------------- MODULE CapPrinters -----------------------------
(***************************************************************************)
(* The printers of src/ls-caps.c and src/ls-caps-vendor.c, one per         *)
(* capability.  A printer is the sequence of its steps on the configuration*)
(* block of a device, with offsets from the start of the capability:       *)
(* blocks it fetches, registers it reads, tables and shifts it indexes     *)
(* with a field of one.  What it decides on register contents is a         *)
(* parameter; the text it prints is left out.  A set of such sequences     *)
(* stands for all contents.                                                *)
(*                                                                         *)
(* verbose is 2, as main sets it.  The build that defines ADNA (adna.h)    *)
(* keeps only the power management, PCI Express and serial number          *)
(* printers, and less of them: "adna" tells the two builds apart.          *)
(***************************************************************************)
EXTENDS Registers, SequencesExt

Step(op, at, len) == [op |-> op, at |-> at, len |-> len]

\* config_fetch; the printer returns when it fails.
Fetch(o, n) == Step("fetch", o, n)

\* config_fetch; when it fails the printer goes on with its next fetch.
Try(o, n) == Step("try", o, n)

\* get_conf_byte, get_conf_word and get_conf_long.
Byte(o) == Step("read", o, 1)
Word(o) == Step("read", o, 2)
Long(o) == Step("read", o, 4)

\* An array of n entries, or a shift of an n-bit word, by a field of at most m.
Index(n, m) == Step("index", m, n)

\* cap_pm compares the power state it has read with D0.
PowerState == Step("power", 0, 0)

Registers32(first, n) == [i \in 1 .. n |-> Long(first + 4 * (i - 1))]

----------------------------------------------------------------------------

\* The build without ADNA also looks up the auxiliary current, 3 bits wide.
cap_pm(adna) ==
  IF adna
  THEN <<Word(PM.CTRL), PowerState>>
  ELSE <<Index(8, 7), Fetch(PM.CTRL, PM.SIZEOF - PM.CTRL),
         Word(PM.CTRL), Byte(PM.PPB_EXTENSIONS)>>

\* format_agp_rate shifts 1 by at most 2 + 2.
cap_agp ==
  <<Fetch(AGP.STATUS, AGP.SIZEOF - AGP.STATUS), Long(AGP.STATUS), Index(32, 4),
    Long(AGP.COMMAND), Index(32, 4)>>

\* Both byte counts shift 1, both transaction counts index max_outstanding.
cap_pcix_nobridge ==
  <<Fetch(PCIX.STATUS, 4), Word(PCIX.COMMAND), Long(PCIX.STATUS),
    Index(32, 9 + 3), Index(8, 7), Index(32, 9 + 3), Index(8, 7), Index(32, 3 + 7)>>

cap_pcix_bridge ==
  <<Fetch(PCIX_BRIDGE.STATUS, 12), Word(PCIX_BRIDGE.SEC_STATUS), Index(8, 7),
    Long(PCIX_BRIDGE.STATUS), Long(PCIX_BRIDGE.UPSTREAM_SPLIT_TRANS_CTRL),
    Long(PCIX_BRIDGE.DOWNSTREAM_SPLIT_TRANS_CTRL)>>

\* By header type; a type other than these prints nothing.
cap_pcix == {cap_pcix_nobridge, cap_pcix_bridge, <<>>}

\* ht_link_width, four times: fields of 3 bits.
LinkWidths == [i \in 1 .. 4 |-> Index(8, 7)]

\* ht_link_freq: a field of 4 bits.
LinkFreq == Index(16, 15)

\* "recent": the revision is 0x22 or later.
cap_ht_pri(recent) ==
  <<Fetch(HT_PRI.LCTR0, HT_PRI.SIZEOF - HT_PRI.LCTR0), Byte(HT_PRI.RID),
    Word(HT_PRI.LCTR0), Word(HT_PRI.LCNF0)>> \o LinkWidths \o
  <<Word(HT_PRI.LCTR1), Word(HT_PRI.LCNF1)>> \o LinkWidths \o
  IF recent
  THEN <<Byte(HT_PRI.LFRER0), LinkFreq, Byte(HT_PRI.LFCAP0), Byte(HT_PRI.FTR),
         Byte(HT_PRI.LFRER1), LinkFreq, Byte(HT_PRI.LFCAP1), Word(HT_PRI.EH),
         Byte(HT_PRI.MBU), Byte(HT_PRI.MLU), Byte(HT_PRI.BN)>>
  ELSE <<>>

\* "extended": PCI_HT_SEC_FTR_EXTRS is set.
cap_ht_sec(recent, extended) ==
  <<Fetch(HT_SEC.LCTR, HT_SEC.SIZEOF - HT_SEC.LCTR), Byte(HT_SEC.RID),
    Word(HT_SEC.LCTR), Word(HT_SEC.LCNF)>> \o LinkWidths \o
  (IF recent
   THEN <<Byte(HT_SEC.LFRER), LinkFreq, Byte(HT_SEC.LFCAP), Word(HT_SEC.FTR)>>
   ELSE <<>>) \o
  IF recent /\ extended
  THEN <<Word(HT_SEC.EH), Byte(HT_SEC.MBU), Byte(HT_SEC.MLU)>>
  ELSE <<>>

\* The other types print one line; only an MSI mapping without a fixed
\* address reads on.
cap_ht ==
  {cap_ht_pri(recent) : recent \in BOOLEAN}
    \cup {cap_ht_sec(recent, extended) : recent, extended \in BOOLEAN}
    \cup {<<Fetch(HT_MSIM.ADDR_LO, 8), Long(HT_MSIM.ADDR_LO), Long(HT_MSIM.ADDR_HI)>>, <<>>}

\* The fields of 3 bits give the message counts.
MsiSteps(is64, maskable) ==
  LET data    == IF is64 THEN MSI.DATA_64 ELSE MSI.DATA_32
      mask    == IF is64 THEN MSI.MASK_BIT_64 ELSE MSI.MASK_BIT_32
      pending == IF is64 THEN MSI.PENDING_64 ELSE MSI.PENDING_32
  IN  <<Index(32, 7), Index(32, 7), Fetch(MSI.ADDRESS_LO, data + 2 - MSI.ADDRESS_LO)>> \o
      (IF is64 THEN <<Long(MSI.ADDRESS_HI)>> ELSE <<>>) \o
      <<Word(data), Long(MSI.ADDRESS_LO)>> \o
      IF maskable THEN <<Fetch(mask, 8), Long(mask), Long(pending)>> ELSE <<>>

cap_msi == {MsiSteps(is64, maskable) : is64, maskable \in BOOLEAN}

----------------------------------------------------------------------------
\* PCI Express.

\* Latencies are fields of 3 bits, the scale of a power limit has 2 bits.
cap_express_dev(type) ==
  <<Long(EXP.DEVCAP), Index(32, 7 + 7), Index(32, 3)>> \o
  (IF type \in {ExpType.ENDPOINT, ExpType.LEG_END}
   THEN <<Index(8, 7), Index(8, 7)>> ELSE <<>>) \o
  (IF type \in {ExpType.ENDPOINT, ExpType.UPSTREAM, ExpType.PCI_BRIDGE}
   THEN <<Index(4, 3)>> ELSE <<>>) \o
  <<Word(EXP.DEVCTL), Index(32, 7 + 7), Index(32, 7 + 7), Word(EXP.DEVSTA)>>

\* aspm_enabled has four entries for a field of 2 bits.
cap_express_link(adna) ==
  <<Long(EXP.LNKCAP)>> \o
  (IF adna THEN <<>> ELSE <<Index(8, 7), Index(8, 7)>>) \o
  <<Word(EXP.LNKCTL), Index(4, 3), Word(EXP.LNKSTA)>>

\* indicator has four entries for a field of 2 bits.
cap_express_slot(adna) ==
  <<Long(EXP.SLTCAP)>> \o
  (IF adna THEN <<>> ELSE <<Index(4, 3)>>) \o
  <<Word(EXP.SLTCTL)>> \o
  (IF adna THEN <<>> ELSE <<Index(4, 3), Index(4, 3)>>) \o
  <<Word(EXP.SLTSTA)>>

\* exp_downstream_port: the types that may have a slot.
exp_downstream_port(type) ==
  type \in {ExpType.ROOT_PORT, ExpType.DOWNSTREAM, ExpType.PCIE_BRIDGE}

HasLink(type) == type \notin {ExpType.ROOT_INT_EP, ExpType.ROOT_EC}

\* A faulty variant: a slot that is not a root port's is forgotten.
ExpressSizeForgetsSlot(type, slot) ==
  IF type \in {ExpType.ROOT_PORT, ExpType.ROOT_EC} THEN 32 ELSE 16

\* How much of the structure is fetched, from DEVCAP on.
ExpressSize(type, slot) ==
  IF type \in {ExpType.ROOT_PORT, ExpType.ROOT_EC} THEN 32
  ELSE IF slot THEN 24 ELSE 16

\* The function returns after the slot: the root, second device and second
\* link registers below that return are never printed.
cap_express(adna, type, slot) ==
  <<Fetch(EXP.DEVCAP, ExpressSize(type, slot))>> \o
  (IF adna THEN <<>> ELSE cap_express_dev(type)) \o
  (IF HasLink(type) THEN cap_express_link(adna) ELSE <<>>) \o
  IF slot THEN cap_express_slot(adna) ELSE <<>>

----------------------------------------------------------------------------
\* The rest of the first 256 bytes.

cap_msix == <<Fetch(MSIX.TABLE, 8), Long(MSIX.TABLE), Long(MSIX.PBA)>>
cap_ssvid == <<Fetch(0, 8), Word(SSVID.VENDOR), Word(SSVID.DEVICE)>>
cap_af == <<Fetch(AF.CAP, 3), Byte(AF.CAP), Byte(AF.CTRL), Byte(AF.STATUS)>>
cap_sata_hba == <<Fetch(SATA_HBA.BARS, 4), Long(SATA_HBA.BARS)>>

\* entry_base: a header and es more double words per entry before this one.
EntryBase(bridge, entries, i) ==
  LET base[j \in 0 .. Len(entries)] ==
        IF j = 0 THEN (IF bridge THEN 8 ELSE 4) ELSE base[j - 1] + 4 + 4 * entries[j].es
  IN  base[i - 1]

\* Base and offset are read whatever the entry size es says was fetched.
EntrySteps(base, e) ==
  <<Fetch(base, 4), Long(base), Fetch(base + 4, 4 * e.es), Long(base + 4), Long(base + 8)>> \o
  (IF e.baseHigh THEN <<Long(base + 12)>> ELSE <<>>) \o
  IF e.offsetHigh THEN <<Long(IF e.baseHigh THEN base + 16 ELSE base + 12)>> ELSE <<>>

EaSteps(bridge, entries) ==
  (IF bridge
   THEN <<Fetch(4, 2), Byte(EA.CAP_TYPE1_SECONDARY), Byte(EA.CAP_TYPE1_SUBORDINATE)>>
   ELSE <<>>) \o
  FlattenSeq([i \in 1 .. Len(entries) |-> EntrySteps(EntryBase(bridge, entries, i), entries[i])])

\* "bridge": the header is of type 1.
cap_ea(lists) == {EaSteps(bridge, list) : bridge \in BOOLEAN, list \in lists}

\* The length byte of the capability decides how far the structure goes.
show_vendor_caps_virtio(length, notify) ==
  IF length < 16 THEN <<>>
  ELSE <<Fetch(0, length), Byte(4), Long(8), Long(12)>> \o
       IF notify /\ length >= 20 THEN <<Long(16)>> ELSE <<>>

\* A vendor other than Red Hat gets the length only.
show_vendor_caps(lengths) ==
  {show_vendor_caps_virtio(length, notify) : length \in lengths, notify \in BOOLEAN}
=============================================================================
