------------------------------ MODULE Registers ------------------------------
(***************************************************************************)
(* The offsets and numbers of lib/header.h that the printers of            *)
(* src/ls-caps.c, src/ls-ecaps.c and src/adna.c use.  A record holds one   *)
(* structure: the offset of each of its registers from the start of the    *)
(* structure.  The bit masks inside a register are left out: what a        *)
(* printer decides on one of them is a parameter of the printer.           *)
(***************************************************************************)
EXTENDS Naturals

\* Capabilities in the first 256 bytes: PCI_CAP_ID_*.
CapId ==
  [NULL |-> 0, PM |-> 1, AGP |-> 2, VPD |-> 3, SLOTID |-> 4, MSI |-> 5,
   CHSWP |-> 6, PCIX |-> 7, HT |-> 8, VNDR |-> 9, DBG |-> 10, CCRC |-> 11,
   HOTPLUG |-> 12, SSVID |-> 13, AGP3 |-> 14, SECURE |-> 15, EXP |-> 16,
   MSIX |-> 17, SATA |-> 18, AF |-> 19, EA |-> 20]

\* Extended capabilities: PCI_EXT_CAP_ID_*.
ExtCapId ==
  [NULL |-> 0, AER |-> 1, VC |-> 2, DSN |-> 3, PB |-> 4, RCLINK |-> 5,
   RCILINK |-> 6, RCEC |-> 7, MFVC |-> 8, VC2 |-> 9, RCRB |-> 10, VNDR |-> 11,
   ACS |-> 13, ARI |-> 14, ATS |-> 15, SRIOV |-> 16, MRIOV |-> 17, MCAST |-> 18,
   PRI |-> 19, REBAR |-> 21, DPA |-> 22, TPH |-> 23, LTR |-> 24, SECPCI |-> 25,
   PMUX |-> 26, PASID |-> 27, LNR |-> 28, DPC |-> 29, L1PM |-> 30, PTM |-> 31,
   M_PCIE |-> 32, FRS |-> 33, RTR |-> 34, DVSEC |-> 35, VF_REBAR |-> 36,
   DLNK |-> 37, GT16 |-> 38, LMR |-> 39, HIER_ID |-> 40, NPEM |-> 41]

\* What a PCI Express function is: PCI_EXP_TYPE_*.
ExpType ==
  [ENDPOINT |-> 0, LEG_END |-> 1, ROOT_PORT |-> 4, UPSTREAM |-> 5,
   DOWNSTREAM |-> 6, PCI_BRIDGE |-> 7, PCIE_BRIDGE |-> 8, ROOT_INT_EP |-> 9,
   ROOT_EC |-> 10]

PM == [CTRL |-> 4, PPB_EXTENSIONS |-> 6, SIZEOF |-> 8]
AGP == [STATUS |-> 4, COMMAND |-> 8, SIZEOF |-> 12]
MSI ==
  [ADDRESS_LO |-> 4, ADDRESS_HI |-> 8, DATA_32 |-> 8, DATA_64 |-> 12,
   MASK_BIT_32 |-> 12, MASK_BIT_64 |-> 16, PENDING_32 |-> 16, PENDING_64 |-> 20]
PCIX == [COMMAND |-> 2, STATUS |-> 4]
PCIX_BRIDGE ==
  [SEC_STATUS |-> 2, STATUS |-> 4, UPSTREAM_SPLIT_TRANS_CTRL |-> 8,
   DOWNSTREAM_SPLIT_TRANS_CTRL |-> 12]
HT_PRI ==
  [LCTR0 |-> 4, LCNF0 |-> 6, LCTR1 |-> 8, LCNF1 |-> 10, RID |-> 12,
   LFRER0 |-> 13, LFCAP0 |-> 14, FTR |-> 16, LFRER1 |-> 17, LFCAP1 |-> 18,
   EH |-> 22, MBU |-> 24, MLU |-> 25, BN |-> 26, SIZEOF |-> 28]
HT_SEC ==
  [LCTR |-> 4, LCNF |-> 6, RID |-> 8, LFRER |-> 9, LFCAP |-> 10, FTR |-> 12,
   EH |-> 18, MBU |-> 20, MLU |-> 21, SIZEOF |-> 24]
HT_MSIM == [ADDR_LO |-> 4, ADDR_HI |-> 8]

\* The PCI Express capability up to the root registers.
EXP ==
  [DEVCAP |-> 4, DEVCTL |-> 8, DEVSTA |-> 10, LNKCAP |-> 12, LNKCTL |-> 16,
   LNKSTA |-> 18, SLTCAP |-> 20, SLTCTL |-> 24, SLTSTA |-> 26]
MSIX == [TABLE |-> 4, PBA |-> 8]
SSVID == [VENDOR |-> 4, DEVICE |-> 6]
AF == [CAP |-> 3, CTRL |-> 4, STATUS |-> 5]
SATA_HBA == [BARS |-> 4]
EA == [CAP_TYPE1_SECONDARY |-> 4, CAP_TYPE1_SUBORDINATE |-> 5]

ERR ==
  [UNCOR_STATUS |-> 4, UNCOR_MASK |-> 8, UNCOR_SEVER |-> 12, COR_STATUS |-> 16,
   COR_MASK |-> 20, CAP |-> 24, HEADER_LOG |-> 28, ROOT_COMMAND |-> 44,
   ROOT_STATUS |-> 48, ROOT_COR_SRC |-> 52, ROOT_SRC |-> 54]
VC == [PORT_REG1 |-> 4, PORT_REG2 |-> 8, PORT_CTRL |-> 12, PORT_STATUS |-> 14, RES_CAP |-> 16]
RCLINK == [ESD |-> 4, LINK1 |-> 16, LINK_DESC |-> 0, LINK_ADDR |-> 8, LINK_SIZE |-> 16]
RCEC == [RCIEP_BMAP |-> 4, BUSN_REG |-> 8]
EVNDR == [HEADER |-> 4]
DVSEC == [HEADER1 |-> 4, HEADER2 |-> 8]
CXL == [CAP |-> 10, CTRL |-> 12, STATUS |-> 14]
ACS == [CAP |-> 4, CTRL |-> 6]
ARI == [CAP |-> 4, CTRL |-> 6]
ATS == [CAP |-> 4, CTRL |-> 6]
IOV ==
  [CAP |-> 4, CTRL |-> 8, STATUS |-> 10, INITIALVF |-> 12, TOTALVF |-> 14,
   NUMVF |-> 16, FDL |-> 18, OFFSET |-> 20, STRIDE |-> 22, DID |-> 26,
   SUPPS |-> 28, SYSPS |-> 32, BAR_BASE |-> 36, NUM_BAR |-> 6, MSAO |-> 60]
MCAST ==
  [CAP |-> 4, CTRL |-> 6, BAR |-> 8, RCV |-> 16, BLOCK |-> 24,
   BLOCK_UNTRANS |-> 32, OVL_BAR |-> 40]
PRI == [CTRL |-> 4, STATUS |-> 6, MAX_REQ |-> 8, ALLOC_REQ |-> 12]
TPH == [CAPABILITIES |-> 4]
LTR == [MAX_SNOOP |-> 4, MAX_NOSNOOP |-> 6]
SEC == [LNKCTL3 |-> 4, LANE_ERR |-> 8]
PASID == [CAP |-> 4, CTRL |-> 6]
DPC == [CAP |-> 4, CTL |-> 6, STATUS |-> 8, SOURCE |-> 10]
L1PM == [SUBSTAT_CAP |-> 4, SUBSTAT_CTL1 |-> 8, SUBSTAT_CTL2 |-> 12]
=============================================================================
