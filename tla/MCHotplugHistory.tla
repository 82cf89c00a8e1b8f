------------------------- MODULE MCHotplugHistory --------------------------
(***************************************************************************)
(* Constants of the runs of HotplugHistory.                                *)
(***************************************************************************)
EXTENDS HotplugHistory

OwnSwitch == [p \in Port |-> p]
============================================================================
