------------------------------ MODULE Hotplug ------------------------------
(***************************************************************************)
(* The hot-plug daemon of src/src/adna.c and src/src/main.c, together with *)
(* the hardware and the kernel it acts on.                                 *)
(*                                                                         *)
(* The daemon polls: a SIGALRM handler rescans sysfs, samples the link of  *)
(* every downstream port it recorded at start-up, and compares it with     *)
(* whether the kernel has a device (the "hub") enumerated behind the port. *)
(* When the two disagree it rescans the bus, removing the port first when  *)
(* the link is down; when both stay down it bounces the port through a     *)
(* register of the switch.                                                 *)
(*                                                                         *)
(* A step of the handler is an action when the outside world can see its   *)
(* effect or change between it and the next one.  Printing, the unused     *)
(* result of pci_check_link_cap and the PCI_COMMAND write of show_verbose  *)
(* are left out.                                                           *)
(***************************************************************************)
EXTENDS Naturals

CONSTANTS
  NumPorts,    \* downstream ports, numbered by count_downstream
  Threshold,   \* down samples before a port is bounced (10 in the code)
  Foreign,     \* ports whose endpoint adnatool_pci_devtbl does not list
  BitPort,     \* the port that bit 0 of register 0x234 of p's switch disables
  MaxFaults,   \* bound on interventions from outside (kills and removals)
  MaxRemovals  \* bound on those of them that remove a port

Port == 1 .. NumPorts

ASSUME NumPortsAssumption  == NumPorts \in Nat \ {0}
ASSUME ThresholdAssumption == Threshold \in Nat \ {0}
ASSUME ForeignAssumption   == Foreign \subseteq Port
ASSUME BitPortAssumption   == BitPort \in [Port -> Port]
ASSUME MaxFaultsAssumption == MaxFaults \in Nat
ASSUME MaxRemovalsAssumption == MaxRemovals \in 0 .. MaxFaults

VARIABLES
  plugged,      \* hardware: ports with a powered endpoint on the cable
  disabled,     \* hardware: ports whose disable bit is set in the switch
  known,        \* kernel: downstream ports present in sysfs
  hub,          \* kernel: what it has enumerated behind each port
  pc,           \* daemon: where main or the SIGALRM handler stands
  timer,        \* daemon: is ITIMER_REAL armed
  pending,      \* daemon: a SIGALRM is pending (signals do not queue)
  list,         \* daemon: ports in first_adna
  d3,           \* daemon: ports whose bIsD3 is set
  linkDownCnt,  \* daemon: link_down_cnt of each port, saturated at Threshold
  hubDownCnt,   \* daemon: hub_down_cnt of each port, saturated at Threshold
  todo,         \* handler: listed ports of this scan not yet sampled
  cur,          \* handler: the port being repaired, 0 when none
  seenHub,      \* handler: ports with a recognised hub in this scan's tree
  seenLink,     \* handler: ports whose link was up in the cached config
  faults        \* interventions from outside so far

hardware == <<plugged, disabled>>
kernel   == <<known, hub>>
alarm    == <<timer, pending>>
records  == <<list, d3, linkDownCnt, hubDownCnt>>
scratch  == <<todo, cur, seenHub, seenLink>>
vars     == <<hardware, kernel, pc, alarm, records, scratch, faults>>

\* "live": enumerated and the link never lost since; "stale": the link was
\* lost after the enumeration, the kernel keeps the dead device.
HubState == {"none", "live", "stale"}

HandlerPC == {"scan", "poll", "remove", "rescan", "rearm", "disable", "enable"}
PC == {"start", "idle", "exited"} \cup HandlerPC

\* Steps at which the handler is busy with one port.
Repairing == {"remove", "rescan", "rearm", "disable", "enable"}

(***************************************************************************)
(* Hardware and kernel.                                                    *)
(***************************************************************************)

\* PCI_EXP_LNKSTA_DL_ACT of the port, as pci_dl_active reads it.
LinkUp(p) == p \in plugged \ disabled

\* The kernel's view once the links of the ports in S are lost.
LoseLinks(S) == [p \in Port |-> IF p \in S /\ hub[p] = "live" THEN "stale" ELSE hub[p]]

\* The kernel's view after a write to /sys/bus/pci/rescan: ports reappear,
\* and every linked port without a device gets one.
Enumerated == [p \in Port |-> IF hub[p] = "none" /\ LinkUp(p) THEN "live" ELSE hub[p]]

Plug(p) ==
  /\ p \notin plugged
  /\ plugged' = plugged \cup {p}
  /\ UNCHANGED <<disabled, kernel, pc, alarm, records, scratch, faults>>

Unplug(p) ==
  /\ p \in plugged
  /\ plugged' = plugged \ {p}
  /\ hub' = LoseLinks({p})
  /\ UNCHANGED <<disabled, known, pc, alarm, records, scratch, faults>>

\* Somebody else (the kernel, an administrator) removes a port from sysfs.
OutsideRemove(p) ==
  /\ p \in known
  /\ faults < MaxRemovals
  /\ faults' = faults + 1
  /\ known' = known \ {p}
  /\ hub' = [hub EXCEPT ![p] = "none"]
  /\ UNCHANGED <<hardware, pc, alarm, records, scratch>>

(***************************************************************************)
(* The process: start, exit, restart.                                      *)
(***************************************************************************)

NoRecords ==
  /\ list' = {}
  /\ d3' = {}
  /\ linkDownCnt' = [p \in Port |-> 0]
  /\ hubDownCnt' = [p \in Port |-> 0]

\* exit() or a fatal signal: the process loses its timer and its memory,
\* the switch and the kernel keep whatever it had written.
Exit ==
  /\ pc' = "exited"
  /\ timer' = FALSE
  /\ pending' = FALSE
  /\ NoRecords
  /\ todo' = {}
  /\ cur' = 0
  /\ seenHub' = {}
  /\ seenLink' = {}

\* A faulty variant: the endpoint's row is missing from the table.
RecognisesNothing(p) == FALSE

\* pcidev_is_adnacom of the device behind port p.
Recognised(p) == p \notin Foreign

\* A recognised device that reads as all ones has no PCI Express capability:
\* count_downstream dereferences the null capability of such a device.
ReadsAllOnes(p) == p \in known /\ Recognised(p) /\ hub[p] # "none" /\ ~LinkUp(p)

StartCrashes ==
  /\ pc = "start"
  /\ \E p \in Port : ReadsAllOnes(p)
  /\ Exit
  /\ UNCHANGED <<hardware, kernel, faults>>

\* "No Adnacom device detected."
StartFindsNothing ==
  /\ pc = "start"
  /\ known = {}
  /\ Exit
  /\ UNCHANGED <<hardware, kernel, faults>>

\* save_to_adna_list: a fresh record for every downstream port in sysfs.
SaveToAdnaList ==
  /\ list' = known
  /\ linkDownCnt' = [p \in Port |-> 0]
  /\ hubDownCnt' = [p \in Port |-> 0]

\* show, down to cap_pm: ports found outside D0 are marked, for good.
Show == d3' \in SUBSET known

\* adna_pci_process before the first alarm, then main arms the timer and sleeps.
StartMonitoring ==
  /\ pc = "start"
  /\ known # {}
  /\ ~ \E p \in Port : ReadsAllOnes(p)
  /\ SaveToAdnaList
  /\ Show
  /\ timer' = TRUE
  /\ pc' = "idle"
  /\ UNCHANGED <<hardware, kernel, pending, scratch, faults>>

\* PRINT_ERROR or die() on a failed sysfs access, or a signal that kills the
\* process, at any point of it.
Die ==
  /\ pc # "exited"
  /\ faults < MaxFaults
  /\ faults' = faults + 1
  /\ Exit
  /\ UNCHANGED <<hardware, kernel>>

\* An operator starts the service again (the unit has no Restart=).
Restart ==
  /\ pc = "exited"
  /\ pc' = "start"
  /\ UNCHANGED <<hardware, kernel, alarm, records, scratch, faults>>

(***************************************************************************)
(* The timer and the SIGALRM handler adna_timer_callback.                  *)
(***************************************************************************)

TimerFires ==
  /\ timer
  /\ ~pending
  /\ pending' = TRUE
  /\ UNCHANGED <<hardware, kernel, pc, timer, records, scratch, faults>>

\* SIGALRM is blocked while its handler runs, so delivery needs an idle main.
Deliver ==
  /\ pc = "idle"
  /\ pending
  /\ pending' = FALSE
  /\ pc' = "scan"
  /\ UNCHANGED <<hardware, kernel, timer, records, scratch, faults>>

\* A faulty variant: the loop does not skip the ports marked bIsD3.
ScanD3Too ==
  /\ pc = "scan"
  /\ todo' = list \cap known
  /\ seenHub' = {p \in known : Recognised(p) /\ hub[p] # "none"}
  /\ seenLink' = {p \in known : LinkUp(p)}
  /\ pc' = "poll"
  /\ UNCHANGED <<hardware, kernel, alarm, records, cur, faults>>

\* adna_pci_process in the handler: the tree and the config caches of this
\* poll.  Ports in D3 or absent from the scan are passed over by the loops.
Scan ==
  /\ pc = "scan"
  /\ todo' = (list \ d3) \cap known
  /\ seenHub' = {p \in known : Recognised(p) /\ hub[p] # "none"}
  /\ seenLink' = {p \in known : LinkUp(p)}
  /\ pc' = "poll"
  /\ UNCHANGED <<hardware, kernel, alarm, records, cur, faults>>

\* first_adna is filled from the front, so the highest number comes first.
IsNext(p) == p \in todo /\ \A q \in todo : q <= p

\* refresh_device_cache leaves the old cache in place when the read fails.
IsLinkUp(p) == IF p \in known THEN LinkUp(p) ELSE p \in seenLink

\* pci_is_hub_alive asks the tree of this poll's scan, not the kernel.
IsHubUp(p) == p \in seenHub

\* An increment.  The code's counters are plain ints without a bound: the
\* model keeps them only up to the one value the code compares them with.
Bump(n) == IF n < Threshold THEN n + 1 ELSE n

LinkCount(p) == IF IsLinkUp(p) THEN linkDownCnt[p] ELSE Bump(linkDownCnt[p])
HubCount(p)  == IF IsHubUp(p) THEN hubDownCnt[p] ELSE Bump(hubDownCnt[p])

DownLong(p) == LinkCount(p) >= Threshold \/ HubCount(p) >= Threshold

Sample(p) ==
  /\ pc = "poll"
  /\ IsNext(p)
  /\ todo' = todo \ {p}
  /\ UNCHANGED <<hardware, kernel, pending, list, d3, seenHub, seenLink, faults>>

Count(p) ==
  /\ linkDownCnt' = [linkDownCnt EXCEPT ![p] = LinkCount(p)]
  /\ hubDownCnt' = [hubDownCnt EXCEPT ![p] = HubCount(p)]

\* A faulty variant: only one of the two counters restarts.
RestartOneCount(p) ==
  /\ linkDownCnt' = [linkDownCnt EXCEPT ![p] = 0]
  /\ hubDownCnt' = [hubDownCnt EXCEPT ![p] = HubCount(p)]

RestartCounts(p) ==
  /\ linkDownCnt' = [linkDownCnt EXCEPT ![p] = 0]
  /\ hubDownCnt' = [hubDownCnt EXCEPT ![p] = 0]

\* stoptimer, then the repair that starts at step s.
Repair(p, s) ==
  /\ Count(p)
  /\ timer' = FALSE
  /\ cur' = p
  /\ pc' = s

SampleLinkCameUp(p) ==
  /\ Sample(p)
  /\ IsLinkUp(p) /\ ~IsHubUp(p)
  /\ Repair(p, "rescan")

\* A faulty variant: the rescan without remove_downstream before it.
SampleLinkWentDownKeepsPort(p) ==
  /\ Sample(p)
  /\ ~IsLinkUp(p) /\ IsHubUp(p)
  /\ Repair(p, "rescan")

SampleLinkWentDown(p) ==
  /\ Sample(p)
  /\ ~IsLinkUp(p) /\ IsHubUp(p)
  /\ Repair(p, "remove")

\* A faulty variant: the counters alone decide, whatever this sample found.
SampleDownLongByCount(p) ==
  /\ Sample(p)
  /\ DownLong(p)
  /\ RestartCounts(p)
  /\ cur' = p
  /\ pc' = "disable"
  /\ UNCHANGED timer

\* Both down for long enough: the counters restart and the port is bounced.
SampleDownLong(p) ==
  /\ Sample(p)
  /\ ~IsLinkUp(p) /\ ~IsHubUp(p)
  /\ DownLong(p)
  /\ RestartCounts(p)
  /\ cur' = p
  /\ pc' = "disable"
  /\ UNCHANGED timer

SampleQuiet(p) ==
  /\ Sample(p)
  /\ IsLinkUp(p) <=> IsHubUp(p)
  /\ IsLinkUp(p) \/ ~DownLong(p)
  /\ Count(p)
  /\ UNCHANGED <<pc, timer, cur>>

Poll(p) ==
  \/ SampleLinkCameUp(p)
  \/ SampleLinkWentDown(p)
  \/ SampleDownLong(p)
  \/ SampleQuiet(p)

\* remove_downstream: a write to the port's own "remove" file.
Remove ==
  /\ pc = "remove"
  /\ cur \in known
  /\ known' = known \ {cur}
  /\ hub' = [hub EXCEPT ![cur] = "none"]
  /\ pc' = "rescan"
  /\ UNCHANGED <<hardware, alarm, records, scratch, faults>>

\* The port has gone since the scan: open() fails and PRINT_ERROR exits.
RemoveFails ==
  /\ pc = "remove"
  /\ cur \notin known
  /\ Exit
  /\ UNCHANGED <<hardware, kernel, faults>>

Rescan ==
  /\ pc = "rescan"
  /\ known' = Port
  /\ hub' = Enumerated
  /\ pc' = "rearm"
  /\ UNCHANGED <<hardware, alarm, records, scratch, faults>>

\* A faulty variant: the timer stays off.
SetTimerForgotten == timer' = FALSE

SetTimer100ms == timer' = TRUE

\* settimer100ms after the sleeps.
Rearm ==
  /\ pc = "rearm"
  /\ SetTimer100ms
  /\ cur' = 0
  /\ pc' = "poll"
  /\ UNCHANGED <<hardware, kernel, pending, records, todo, seenHub, seenLink, faults>>

\* A faulty variant: always the switch of the first port.
FirstSwitchPort(p) == BitPort[1]

\* The port that a write to the control register above p acts on.
SwitchPort(p) == BitPort[p]

\* disable_port: bit 0 of one fixed register of the switch above the port.
Disable ==
  /\ pc = "disable"
  /\ disabled' = disabled \cup {SwitchPort(cur)}
  /\ hub' = LoseLinks({SwitchPort(cur)})
  /\ pc' = "enable"
  /\ UNCHANGED <<plugged, known, alarm, records, scratch, faults>>

\* A faulty variant: the mask keeps the bit it should clear.
EnableKeepsBit ==
  /\ pc = "enable"
  /\ cur' = 0
  /\ pc' = "poll"
  /\ UNCHANGED <<hardware, kernel, alarm, records, todo, seenHub, seenLink, faults>>

\* enable_port, after an idle loop.
Enable ==
  /\ pc = "enable"
  /\ disabled' = disabled \ {SwitchPort(cur)}
  /\ cur' = 0
  /\ pc' = "poll"
  /\ UNCHANGED <<plugged, kernel, alarm, records, todo, seenHub, seenLink, faults>>

\* adna_pacc_cleanup, and the handler returns.
Finish ==
  /\ pc = "poll"
  /\ todo = {}
  /\ seenHub' = {}
  /\ seenLink' = {}
  /\ pc' = "idle"
  /\ UNCHANGED <<hardware, kernel, alarm, records, todo, cur, faults>>

----------------------------------------------------------------------------

Init ==
  /\ plugged \in SUBSET Port
  /\ disabled = {}
  /\ known = Port
  /\ hub = [p \in Port |-> IF p \in plugged THEN "live" ELSE "none"]
  /\ pc = "start"
  /\ timer = FALSE
  /\ pending = FALSE
  /\ list = {}
  /\ d3 = {}
  /\ linkDownCnt = [p \in Port |-> 0]
  /\ hubDownCnt = [p \in Port |-> 0]
  /\ todo = {}
  /\ cur = 0
  /\ seenHub = {}
  /\ seenLink = {}
  /\ faults = 0

\* The steps the process takes by itself.
Process ==
  \/ StartCrashes \/ StartFindsNothing \/ StartMonitoring
  \/ Deliver \/ Scan \/ Remove \/ RemoveFails \/ Rescan \/ Rearm
  \/ Disable \/ Enable \/ Finish

Outside ==
  \/ \E p \in Port : Plug(p) \/ Unplug(p) \/ OutsideRemove(p)
  \/ Die \/ Restart

Next ==
  \/ \E p \in Port : Poll(p)
  \/ Process
  \/ TimerFires
  \/ Outside

\* The kernel schedules a runnable process and fires an armed timer; nothing
\* is assumed of cables, operators or faults.
Fairness ==
  /\ WF_vars(Process \/ \E p \in Port : Poll(p))
  /\ WF_vars(TimerFires)

Spec == Init /\ [][Next]_vars /\ Fairness

----------------------------------------------------------------------------

\* Ports that adna_timer_callback may sample and repair: those listed at the
\* start and not marked bIsD3, which it reports as not hotplug capable.
Pollable == list \ d3

\* Every variable keeps its type (struct adna_device, the itimer, the lists),
\* and the loop of adna_timer_callback visits and repairs only ports that are
\* on first_adna and were in D0 at the start, however often the list is made
\* anew by restarts.
TypeOK ==
  /\ plugged \subseteq Port
  /\ disabled \subseteq Port
  /\ known \subseteq Port
  /\ hub \in [Port -> HubState]
  /\ pc \in PC
  /\ timer \in BOOLEAN
  /\ pending \in BOOLEAN
  /\ list \subseteq Port
  /\ d3 \subseteq Port
  /\ linkDownCnt \in [Port -> 0 .. Threshold]
  /\ hubDownCnt \in [Port -> 0 .. Threshold]
  /\ todo \subseteq IF pc \in HandlerPC THEN Pollable ELSE {}
  /\ cur \in IF pc \in Repairing THEN Pollable ELSE {0}
  /\ seenHub \subseteq Port
  /\ seenLink \subseteq Port
  /\ faults \in 0 .. MaxFaults

\* A sleeping daemon always has its timer running, whatever repair the last
\* poll went through: stoptimer is paired with settimer100ms on every path of
\* adna_timer_callback that returns, so that a next poll will come.
TimerRunsWhileIdle == pc = "idle" => timer

\* adna_timer_callback removes or bounces a port on what one poll read some
\* steps ago: the device behind that port has lost its link whatever cables did
\* in between, whoever removed ports and however often the daemon was restarted,
\* and what counts as alive has a link.  Only the daemon rescans the bus here:
\* a rescan by somebody else between sample and repair is not in the model.
RepairsOnlyDeadPorts ==
  /\ pc \in {"remove", "disable"} => hub[cur] # "live"
  /\ \A p \in Port : hub[p] = "live" => LinkUp(p)

\* The daemon implements the life cycle of PortLifecycle: no remove, rescan or
\* bounce of adna_timer_callback ever costs a port a device whose link is good.
Lifecycle == INSTANCE PortLifecycle
  WITH Port <- Port, plugged <- plugged, hub <- hub, faults <- faults
ImplementsLifecycle == Lifecycle!Spec

Alive == pc \notin {"start", "exited"}

\* The daemon samples port p in every poll.
Monitored(p) == Alive /\ p \in Pollable

\* A port that stays plugged ends up with a device and one that stays empty
\* ends up without, as long as the daemon lives and polls the port and nobody
\* else has taken the port out of sysfs for good: the loop of
\* adna_timer_callback converges from whatever it finds.
Converges ==
  \A p \in Port \ Foreign :
    <>[]Monitored(p) /\ []<>(p \in known) =>
      /\ <>[](p \in plugged) => <>[](hub[p] # "none")
      /\ <>[](p \notin plugged) => <>[](hub[p] = "none")

\* Once the cable of a port with a listed endpoint is left alone, the removals
\* and rescans that adna_timer_callback makes for this port come to an end, and
\* if the port is plugged its bounces do too, whatever goes on at the other
\* ports: its repairs do not trigger each other for ever.  A port that stays
\* empty is bounced every Threshold samples for as long as the daemon runs, by
\* the code (adna.c:1310-1319), and nothing else is done to it.
RepairsCease ==
  <>[]Alive =>
    \A p \in Port \ Foreign :
      /\ <>[](p \in plugged) => <>[](cur # p)
      /\ <>[](p \notin plugged)
         => <>[](cur = p => pc \in {"disable", "enable"})

\* A port that an exit between disable_port and enable_port left disabled is
\* enabled again by the polls of the next run.
DisabledPortRecovers ==
  \A p \in Port :
    <>[](Monitored(p) /\ p \in known) => []<>(p \notin disabled)

\* README.md promises a rescan or re-enumeration whenever the link status of
\* a downstream port changes: once main sleeps between two polls and a monitored
\* port has a working device, a link loss from then on is repaired - if the cable
\* stays plugged in the end, no device enumerated before the loss remains.
EveryLinkLossRepaired ==
  \A p \in Port \ Foreign :
    [](/\ pc = "idle"
       /\ hub[p] = "live"
       /\ []Monitored(p)
       /\ <>[](p \in plugged)
       => <>[](hub[p] = "live"))

\* The message of adna_timer_callback names the port it is disabling: a bounce
\* disables that port and no other.
BouncesNamedPort == [][\A p \in disabled' \ disabled : p = cur]_vars

\* The service starts whenever the card is there ("No Adnacom device detected"
\* is the only failure it knows).
StartsWithCardPresent == [][pc = "start" /\ known # {} => pc' # "exited"]_vars
============================================================================
