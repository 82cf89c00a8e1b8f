--------------------------- MODULE MCBridgeTree ----------------------------
(***************************************************************************)
(* Every way to number a few recognised bridges and endpoints on a few     *)
(* buses, as the depth-first numbering of PCI allows it.                   *)
(***************************************************************************)
EXTENDS BridgeTree

CONSTANT MaxBus

\* A bridge is named by its secondary bus, which no other bridge shares.
SomeBridges ==
  {[bus |-> b, fn |-> s, sec |-> s, sub |-> t] :
     <<b, s, t>> \in {x \in (0 .. MaxBus) \X (1 .. MaxBus) \X (1 .. MaxBus) :
                        x[1] < x[2] /\ x[2] <= x[3]}}

\* An endpoint has a number below or above those of the bridges on its bus.
SomeEndpoints ==
  {[bus |-> b, fn |-> f, sec |-> 0, sub |-> 0] :
     b \in 0 .. MaxBus, f \in {0, MaxBus + 1}}

\* At most three bridges and at most one endpoint.
AllTopologies ==
  LET Bs == {{x, y, z} : x, y, z \in SomeBridges}
      Es == {{}} \cup {{e} : e \in SomeEndpoints}
  IN  {B \cup E : B \in {C \in Bs : WellNumbered(C)}, E \in Es}
============================================================================
