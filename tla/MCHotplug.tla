----------------------------- MODULE MCHotplug -----------------------------
(***************************************************************************)
(* Constants of the runs of Hotplug.                                       *)
(***************************************************************************)
EXTENDS Hotplug

\* One single-port switch (an H1A) per port.
OwnSwitch == [p \in Port |-> p]

\* All ports on one switch (an H18): bit 0 is port 1 for each of them.
SharedSwitch == [p \in Port |-> 1]
============================================================================
