--------------------------- MODULE MCSysfsAccess ---------------------------
(***************************************************************************)
(* Symmetry for the run of SysfsAccess.                                    *)
(***************************************************************************)
EXTENDS SysfsAccess, TLC

Symmetry ==
  Permutations(Slot) \cup Permutations(Addr) \cup Permutations(Value) \cup Permutations(Fd)
============================================================================
