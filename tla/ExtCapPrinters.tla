---------------------------- MODULE ExtCapPrinters ----------------------------
(***************************************************************************)
(* The printers of src/ls-ecaps.c, one per extended capability, in the     *)
(* form of CapPrinters.  Capabilities of which only the name is printed    *)
(* have no steps.                                                          *)
(***************************************************************************)
EXTENDS CapPrinters

cap_tph == <<Fetch(TPH.CAPABILITIES, 4), Long(TPH.CAPABILITIES)>>

\* cap_ltr_scale: a scale field of 3 bits, in steps of 5 bits.
LatencyScale == Index(32, 7 * 5)

cap_ltr ==
  <<Fetch(LTR.MAX_SNOOP, 4), Word(LTR.MAX_SNOOP), LatencyScale,
    Word(LTR.MAX_NOSNOOP), LatencyScale>>

cap_sec == <<Fetch(SEC.LNKCTL3, 12), Word(SEC.LNKCTL3), Word(SEC.LANE_ERR)>>
cap_dsn == <<Fetch(4, 8), Long(4), Long(8)>>

\* "root": a root port or a root complex event collector.
cap_aer(root) ==
  <<Fetch(ERR.UNCOR_STATUS, 40)>> \o Registers32(ERR.UNCOR_STATUS, 10) \o
  IF root
  THEN <<Fetch(ERR.ROOT_COMMAND, 12), Long(ERR.ROOT_COMMAND), Long(ERR.ROOT_STATUS),
         Word(ERR.ROOT_COR_SRC), Word(ERR.ROOT_SRC)>>
  ELSE <<>>

cap_dpc == <<Fetch(DPC.CAP, 8), Word(DPC.CAP), Word(DPC.CTL), Word(DPC.STATUS), Word(DPC.SOURCE)>>
cap_acs == <<Fetch(ACS.CAP, 4), Word(ACS.CAP), Word(ACS.CTRL)>>
cap_ari == <<Fetch(ARI.CAP, 4), Word(ARI.CAP), Word(ARI.CTRL)>>
cap_ats == <<Fetch(ATS.CAP, 4), Word(ATS.CAP), Word(ATS.CTRL)>>
cap_pri ==
  <<Fetch(PRI.CTRL, 12), Word(PRI.CTRL), Word(PRI.STATUS), Long(PRI.MAX_REQ), Long(PRI.ALLOC_REQ)>>
cap_pasid == <<Fetch(PASID.CAP, 4), Word(PASID.CAP), Word(PASID.CTRL)>>

\* The base addresses of virtual functions are read in order, the two halves of
\* a 64-bit one together: one that starts in the last slot ("past") has its
\* upper half read from behind the slots.
cap_sriov(past) ==
  <<Fetch(IOV.CAP, 60), Long(IOV.CAP), Word(IOV.CTRL), Word(IOV.STATUS),
    Word(IOV.INITIALVF), Word(IOV.TOTALVF), Word(IOV.NUMVF), Byte(IOV.FDL),
    Word(IOV.OFFSET), Word(IOV.STRIDE), Word(IOV.DID), Long(IOV.SUPPS), Long(IOV.SYSPS)>> \o
  Registers32(IOV.BAR_BASE, IF past THEN IOV.NUM_BAR + 1 ELSE IOV.NUM_BAR) \o
  <<Long(IOV.MSAO)>>

\* Window and overlay sizes are fields of 6 bits; an endpoint has the first,
\* other functions the second.
cap_multicast(endpoint) ==
  <<Fetch(MCAST.CAP, 48), Word(MCAST.CAP)>> \o
  (IF endpoint THEN <<Index(32, 63)>> ELSE <<>>) \o
  <<Word(MCAST.CTRL)>> \o Registers32(MCAST.BAR, 8) \o
  IF endpoint THEN <<>> ELSE Registers32(MCAST.OVL_BAR, 2) \o <<Index(32, 63)>>

\* evc_cnt channels follow the first one; an unreadable one is passed over.
\* The arbitration tables take fields of 3 bits.
cap_vc(evc_cnt) ==
  <<Fetch(4, 24), Long(VC.PORT_REG1), Long(VC.PORT_REG2), Word(VC.PORT_CTRL),
    Word(VC.PORT_STATUS), Index(32, 3)>> \o
  FlattenSeq([i \in 1 .. evc_cnt + 1 |->
    LET pos == VC.RES_CAP + 12 * (i - 1)
    IN  <<Try(pos, 12), Long(pos), Long(pos + 4), Word(pos + 10)>>])

cap_rclink(num_links) ==
  <<Fetch(4, RCLINK.LINK1 - 4), Long(RCLINK.ESD)>> \o
  FlattenSeq([i \in 1 .. num_links |->
    LET pos == RCLINK.LINK1 + (i - 1) * RCLINK.LINK_SIZE
    IN  <<Fetch(pos, RCLINK.LINK_SIZE), Long(pos + RCLINK.LINK_DESC),
          Long(pos + RCLINK.LINK_ADDR), Long(pos + RCLINK.LINK_ADDR + 4)>>])

\* "numbered": the version has the register of bus numbers.
cap_rcec(numbered) ==
  <<Fetch(0, 12), Long(0), Long(RCEC.RCIEP_BMAP)>> \o
  IF numbered THEN <<Long(RCEC.BUSN_REG)>> ELSE <<>>

cap_dvsec_cxl == <<Fetch(CXL.CAP, 12), Word(CXL.CAP), Word(CXL.CTRL), Word(CXL.STATUS)>>

cap_dvsec(cxl) ==
  <<Fetch(DVSEC.HEADER1, 8), Long(DVSEC.HEADER1), Long(DVSEC.HEADER2)>> \o
  IF cxl THEN cap_dvsec_cxl ELSE <<>>

cap_evendor == <<Fetch(EVNDR.HEADER, 4), Long(EVNDR.HEADER)>>

\* The threshold scale is printed when it is at most 5.
cap_l1pm ==
  <<Fetch(L1PM.SUBSTAT_CAP, 12), Long(L1PM.SUBSTAT_CAP), Long(L1PM.SUBSTAT_CTL1),
    Index(32, 5 * 5), Long(L1PM.SUBSTAT_CTL2)>>

cap_ptm == <<Fetch(4, 8), Long(4), Long(8)>>

\* print_rebar_range_size shifts 1 by less than 10.
cap_rebar(num_bars) ==
  FlattenSeq([i \in 1 .. num_bars |->
    <<Fetch(8 * i - 4, 8), Long(8 * i - 4), Long(8 * i), Index(32, 9)>>])
=============================================================================
