----------------------------- MODULE MCPciNames -----------------------------
(***************************************************************************)
(* Flags for the run of PciNames: pci_lookup_name as it is called by       *)
(* default, with the DNS, and with each source left out.                   *)
(***************************************************************************)
EXTENDS PciNames

SomeModes ==
  { {"cache"}, {"network", "cache"}, {"network"},
    {"network", "cache", "refresh"}, {"cache", "refresh", "skip_local"},
    {"network", "cache", "skip_local"}, {"no_hwdb"}, {"numeric", "cache"} }
=============================================================================
