--------------------------- MODULE PortLifecycle ---------------------------
(***************************************************************************)
(* What the hot-plug service promises about the device behind a downstream *)
(* port, without saying how it polls or repairs: a device appears only     *)
(* behind a port whose cable is in, a device that is alive disappears only *)
(* when the cable goes or somebody outside the service intervenes, and the *)
(* service itself only ever retires devices that have lost their link.     *)
(***************************************************************************)
EXTENDS Naturals

CONSTANT Port

VARIABLES
  plugged,   \* ports with an endpoint on the cable
  hub,       \* "none", "live" (no link loss since enumeration) or "stale"
  faults     \* interventions from outside so far

vars == <<plugged, hub, faults>>

Init ==
  /\ plugged \in SUBSET Port
  /\ hub = [p \in Port |-> IF p \in plugged THEN "live" ELSE "none"]
  /\ faults = 0

Plug(p) ==
  /\ p \notin plugged
  /\ plugged' = plugged \cup {p}
  /\ UNCHANGED <<hub, faults>>

Unplug(p) ==
  /\ p \in plugged
  /\ plugged' = plugged \ {p}
  /\ hub' = [hub EXCEPT ![p] = IF @ = "live" THEN "stale" ELSE @]
  /\ UNCHANGED faults

\* The service has the kernel enumerate what waits behind the ports of S.
Enumerate(S) ==
  /\ \A p \in S : p \in plugged /\ hub[p] = "none"
  /\ hub' = [p \in Port |-> IF p \in S THEN "live" ELSE hub[p]]
  /\ UNCHANGED <<plugged, faults>>

\* The service has the kernel forget a device that lost its link.
Retire(p) ==
  /\ hub[p] # "live"
  /\ hub' = [hub EXCEPT ![p] = "none"]
  /\ UNCHANGED <<plugged, faults>>

\* An intervention from outside: the devices behind S are removed.
Intervene(S) ==
  /\ faults' = faults + 1
  /\ hub' = [p \in Port |-> IF p \in S THEN "none" ELSE hub[p]]
  /\ UNCHANGED plugged

Next ==
  \/ \E p \in Port : Plug(p) \/ Unplug(p) \/ Retire(p)
  \/ \E S \in SUBSET Port : Enumerate(S) \/ Intervene(S)

Spec == Init /\ [][Next]_vars
============================================================================
