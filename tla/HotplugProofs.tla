--------------------------- MODULE HotplugProofs ---------------------------
(***************************************************************************)
(* Proofs about the daemon of Hotplug: its types, its alarm, what it may   *)
(* repair, and that it implements PortLifecycle, for every number of       *)
(* ports, threshold and number of interventions.                           *)
(***************************************************************************)
EXTENDS HotplugHistory, TLAPS

\* Strengthening of TimerRunsWhileIdle: the timer is off only while the
\* handler is between stoptimer and settimer100ms.
TimerInv == pc \in {"idle", "scan", "poll", "disable", "enable"} => timer

\* Strengthening of RepairsOnlyDeadPorts: a port that sysfs lost since the
\* scan, whose link is judged by the old cache, has no device to lose.
RepairInv ==
  /\ TypeOK
  /\ RepairsOnlyDeadPorts
  /\ \A p \in Port : hub[p] # "none" => p \in known

Assumptions ==
  /\ NumPorts \in Nat \ {0}
  /\ Threshold \in Nat \ {0}
  /\ Foreign \subseteq Port
  /\ BitPort \in [Port -> Port]
  /\ MaxFaults \in Nat
  /\ MaxRemovals \in 0 .. MaxFaults

\* The named assumptions of Hotplug, gathered.
LEMMA AssumptionsHold == Assumptions
  BY NumPortsAssumption, ThresholdAssumption, ForeignAssumption,
     BitPortAssumption, MaxFaultsAssumption, MaxRemovalsAssumption
  DEF Assumptions

\* A saturated counter stays in its range and never falls.
LEMMA BumpBounds ==
  ASSUME NEW n \in 0 .. Threshold
  PROVE  /\ Bump(n) \in 0 .. Threshold
         /\ Bump(n) >= n
         /\ n < Threshold => Bump(n) = n + 1
  BY ThresholdAssumption DEF Bump

\* The counters a sample computes are counters.
LEMMA CountsTyped ==
  ASSUME TypeOK, NEW p \in Port
  PROVE  LinkCount(p) \in 0 .. Threshold /\ HubCount(p) \in 0 .. Threshold
<1>1. linkDownCnt[p] \in 0 .. Threshold /\ hubDownCnt[p] \in 0 .. Threshold
  BY DEF TypeOK
<1>2. Bump(linkDownCnt[p]) \in 0 .. Threshold /\ Bump(hubDownCnt[p]) \in 0 .. Threshold
  BY <1>1, BumpBounds
<1>3. QED
  BY <1>1, <1>2 DEF LinkCount, HubCount

\* Losing links and enumerating keep the kernel's view well typed.
LEMMA KernelTyped ==
  ASSUME TypeOK
  PROVE  /\ \A S : LoseLinks(S) \in [Port -> HubState]
         /\ Enumerated \in [Port -> HubState]
  BY DEF TypeOK, LoseLinks, Enumerated, HubState

\* An exit resets what the process owned to values of the right types.
LEMMA ExitTyped ==
  ASSUME Exit
  PROVE  /\ pc' = "exited" /\ timer' = FALSE /\ pending' = FALSE
         /\ list' = {} /\ d3' = {} /\ todo' = {} /\ cur' = 0
         /\ seenHub' = {} /\ seenLink' = {}
         /\ linkDownCnt' \in [Port -> 0 .. Threshold]
         /\ hubDownCnt' \in [Port -> 0 .. Threshold]
  BY ThresholdAssumption DEF Exit, NoRecords

----------------------------------------------------------------------------
(* Types.                                                                  *)

\* The start is well typed.
LEMMA InitTyped == Init => TypeOK
<1> SUFFICES ASSUME Init PROVE TypeOK
  OBVIOUS
<1>1. 0 \in 0 .. Threshold /\ 0 \in 0 .. MaxFaults
  BY ThresholdAssumption, MaxFaultsAssumption
<1>2. plugged \subseteq Port
  BY DEF Init
<1>3. hub \in [Port -> HubState]
  BY DEF Init, HubState
<1>4. QED
  BY <1>1, <1>2, <1>3 DEF Init, TypeOK, PC, HandlerPC, Repairing

\* A sample keeps the types, and a repair it starts has its port named.
LEMMA PollTyped ==
  ASSUME TypeOK, NEW p \in Port, Poll(p)
  PROVE  TypeOK'
<1> USE DEF hardware, kernel, records, alarm, scratch, Pollable
<1>1. LinkCount(p) \in 0 .. Threshold /\ HubCount(p) \in 0 .. Threshold
  BY CountsTyped
<1>2. 0 \in 0 .. Threshold
  BY ThresholdAssumption
<1>3. CASE SampleLinkCameUp(p)
  BY <1>1, <1>3 DEF TypeOK, IsNext, Repairing, SampleLinkCameUp, Sample, Repair,
               Count, PC, HandlerPC
<1>4. CASE SampleLinkWentDown(p)
  BY <1>1, <1>4 DEF TypeOK, IsNext, Repairing, SampleLinkWentDown, Sample, Repair,
               Count, PC, HandlerPC
<1>5. CASE SampleDownLong(p)
  BY <1>2, <1>5 DEF TypeOK, IsNext, Repairing, SampleDownLong, Sample,
               RestartCounts, PC, HandlerPC
<1>6. CASE SampleQuiet(p)
  BY <1>1, <1>6 DEF TypeOK, IsNext, Repairing, SampleQuiet, Sample, Count
<1>7. QED
  BY <1>3, <1>4, <1>5, <1>6 DEF Poll

\* So do the other steps of the process.
LEMMA ProcessTyped ==
  ASSUME TypeOK, Process
  PROVE  TypeOK'
<1> USE DEF hardware, kernel, records, alarm, scratch, Pollable
<1>1. CASE StartCrashes
  BY <1>1, ExitTyped DEF TypeOK, Repairing, StartCrashes, PC, HandlerPC
<1>2. CASE StartFindsNothing
  BY <1>2, ExitTyped DEF TypeOK, Repairing, StartFindsNothing, PC, HandlerPC
<1>3. CASE StartMonitoring
  BY <1>3, ThresholdAssumption
  DEF TypeOK, Repairing, StartMonitoring, SaveToAdnaList, Show, PC, HandlerPC
<1>4. CASE Deliver
  BY <1>4 DEF TypeOK, Repairing, Deliver, PC, HandlerPC
<1>5. CASE Scan
  BY <1>5 DEF TypeOK, Repairing, Scan, PC, HandlerPC
<1>6. CASE Remove
  BY <1>6 DEF TypeOK, Repairing, Remove, PC, HandlerPC, HubState
<1>7. CASE RemoveFails
  BY <1>7, ExitTyped DEF TypeOK, Repairing, RemoveFails, PC, HandlerPC
<1>8. CASE Rescan
  BY <1>8, KernelTyped DEF TypeOK, Repairing, Rescan, PC, HandlerPC
<1>9. CASE Rearm
  BY <1>9 DEF TypeOK, Repairing, Rearm, SetTimer100ms, PC, HandlerPC
<1>10. CASE Disable
  <2>1. hub' \in [Port -> HubState]
    BY <1>10, KernelTyped DEF Disable
  <2>2. disabled' \subseteq Port
    <3>1. SwitchPort(cur) \in Port
      BY <1>10, BitPortAssumption DEF SwitchPort, Disable, TypeOK, Repairing
    <3>2. QED
      BY <1>10, <3>1 DEF TypeOK, Repairing, Disable
  <2>3. QED
    BY <1>10, <2>1, <2>2 DEF TypeOK, Repairing, Disable, PC, HandlerPC
<1>11. CASE Enable
  BY <1>11 DEF TypeOK, Repairing, Enable, PC, HandlerPC
<1>12. CASE Finish
  BY <1>12 DEF TypeOK, Repairing, Finish, PC, HandlerPC
<1>13. QED
  BY <1>1, <1>2, <1>3, <1>4, <1>5, <1>6, <1>7, <1>8, <1>9, <1>10, <1>11, <1>12
  DEF Process

\* And so do cables, other programs, crashes and restarts.
LEMMA OutsideTyped ==
  ASSUME TypeOK, Outside
  PROVE  TypeOK'
<1> USE DEF hardware, kernel, records, alarm, scratch, Pollable
<1>1. ASSUME NEW p \in Port, Plug(p) PROVE TypeOK'
  BY <1>1 DEF TypeOK, Plug
<1>2. ASSUME NEW p \in Port, Unplug(p) PROVE TypeOK'
  BY <1>2, KernelTyped DEF TypeOK, Unplug
<1>3. ASSUME NEW p \in Port, OutsideRemove(p) PROVE TypeOK'
  BY <1>3, MaxFaultsAssumption, MaxRemovalsAssumption DEF TypeOK, OutsideRemove, HubState
<1>4. ASSUME Die PROVE TypeOK'
  BY <1>4, ExitTyped, MaxFaultsAssumption DEF TypeOK, Die, Repairing, PC, HandlerPC
<1>5. ASSUME Restart PROVE TypeOK'
  BY <1>5 DEF TypeOK, Restart, Repairing, PC, HandlerPC
<1>6. QED
  BY <1>1, <1>2, <1>3, <1>4, <1>5 DEF Outside

\* TypeOK is inductive.
LEMMA NextTyped == TypeOK /\ [Next]_vars => TypeOK'
<1> SUFFICES ASSUME TypeOK, [Next]_vars PROVE TypeOK'
  OBVIOUS
<1>1. CASE TimerFires
  BY <1>1 DEF TypeOK, Pollable, TimerFires, hardware, kernel, records, scratch
<1>2. CASE UNCHANGED vars
  BY <1>2 DEF TypeOK, Pollable, vars, hardware, kernel, alarm, records, scratch
<1>3. QED
  BY <1>1, <1>2, PollTyped, ProcessTyped, OutsideTyped DEF Next

\* Every variable keeps its type, the handler names a port in cur exactly while
\* it repairs one, and it visits and repairs only ports that are on first_adna
\* and not marked bIsD3 (adna_timer_callback).
THEOREM TypeCorrect == Spec => []TypeOK
BY InitTyped, NextTyped, PTL DEF Spec

----------------------------------------------------------------------------
(* The alarm.                                                              *)

\* A sample stops the timer only on its way to a remove or a rescan.
LEMMA PollKeepsTimer ==
  ASSUME TimerInv, NEW p \in Port, Poll(p)
  PROVE  TimerInv'
BY DEF TimerInv, alarm, Poll, SampleLinkCameUp, SampleLinkWentDown,
       SampleDownLong, SampleQuiet, Sample, Repair

\* The handler returns to main by Rearm or with the timer it found running.
LEMMA ProcessKeepsTimer ==
  ASSUME TimerInv, Process
  PROVE  TimerInv'
BY DEF TimerInv, alarm, Process, StartCrashes, StartFindsNothing,
       StartMonitoring, Deliver, Scan, Remove, RemoveFails, Rescan, Rearm,
       SetTimer100ms, Disable, Enable, Finish, Exit

\* Alarms and the world outside stop no timer of a process they leave running.
LEMMA SurroundingsKeepTimer ==
  ASSUME TimerInv, TimerFires \/ Outside
  PROVE  TimerInv'
BY DEF TimerInv, alarm, TimerFires, Outside, Plug, Unplug, OutsideRemove, Die,
       Restart, Exit

\* The invariant is inductive.
LEMMA TimerInvInductive == TimerInv /\ [Next]_vars => TimerInv'
<1>1. TimerInv /\ UNCHANGED vars => TimerInv'
  BY DEF TimerInv, vars, alarm
<1>2. QED
  BY <1>1, PollKeepsTimer, ProcessKeepsTimer, SurroundingsKeepTimer DEF Next

\* Whatever repairs adna_timer_callback makes, main never sleeps with the
\* timer off.
THEOREM TimerAlwaysRearmed == Spec => []TimerRunsWhileIdle
<1>1. Init => TimerInv
  BY DEF Init, TimerInv
<1>2. TimerInv => TimerRunsWhileIdle
  BY DEF TimerInv, TimerRunsWhileIdle
<1>3. QED
  BY <1>1, <1>2, TimerInvInductive, PTL DEF Spec

----------------------------------------------------------------------------
(* What a repair may touch.                                                *)

\* Losing links never revives a device, enumerating revives linked ones only.
LEMMA KernelView ==
  ASSUME TypeOK, NEW p \in Port
  PROVE  /\ \A S : /\ LoseLinks(S)[p] = "live" <=> hub[p] = "live" /\ p \notin S
                   /\ LoseLinks(S)[p] = "none" <=> hub[p] = "none"
         /\ Enumerated[p] = "live" => hub[p] = "live" \/ LinkUp(p)
  BY DEF TypeOK, LoseLinks, Enumerated

\* A sample starts a repair of a port without a live device only.
LEMMA PollRepairs ==
  ASSUME RepairInv, NEW q \in Port, Poll(q)
  PROVE  RepairInv'
<1> USE DEF hardware, kernel
<1>1. TypeOK'
  BY PollTyped DEF RepairInv
<1>2. plugged' = plugged /\ disabled' = disabled /\ known' = known /\ hub' = hub
  BY DEF Poll, SampleLinkCameUp, SampleLinkWentDown, SampleDownLong, SampleQuiet, Sample
<1>3. ~IsLinkUp(q) => hub[q] # "live"
  BY DEF IsLinkUp, RepairInv, RepairsOnlyDeadPorts
<1>4. pc' \in {"remove", "disable"} => ~IsLinkUp(q) /\ cur' = q
  BY DEF Poll, SampleLinkCameUp, SampleLinkWentDown, SampleDownLong, SampleQuiet,
         Sample, Repair
<1>5. QED
  BY <1>1, <1>2, <1>3, <1>4 DEF RepairInv, RepairsOnlyDeadPorts, LinkUp

\* A port under repair stays without one until its repair is done.
LEMMA ProcessRepairs ==
  ASSUME RepairInv, Process
  PROVE  RepairInv'
<1> USE DEF hardware, kernel, RepairInv, RepairsOnlyDeadPorts, LinkUp
<1>1. TypeOK'
  BY ProcessTyped
<1>2. CASE StartCrashes \/ StartFindsNothing \/ RemoveFails
  BY <1>1, <1>2, ExitTyped DEF StartCrashes, StartFindsNothing, RemoveFails
<1>3. CASE StartMonitoring \/ Deliver \/ Scan \/ Rearm \/ Finish
  BY <1>1, <1>3 DEF StartMonitoring, Deliver, Scan, Rearm, Finish
<1>4. CASE Remove
  BY <1>1, <1>4 DEF Remove, TypeOK
<1>5. CASE Rescan
  BY <1>1, <1>5, KernelView DEF Rescan
<1>6. CASE Disable
  BY <1>1, <1>6, KernelView DEF Disable
<1>7. CASE Enable
  BY <1>1, <1>7 DEF Enable
<1>8. QED
  BY <1>2, <1>3, <1>4, <1>5, <1>6, <1>7 DEF Process

\* Nothing outside brings a device to life without a rescan.
LEMMA OutsideRepairs ==
  ASSUME RepairInv, Outside
  PROVE  RepairInv'
<1> USE DEF hardware, kernel, RepairInv, RepairsOnlyDeadPorts, LinkUp
<1>1. TypeOK'
  BY OutsideTyped
<1>2. ASSUME NEW p \in Port, Plug(p) PROVE RepairInv'
  BY <1>1, <1>2 DEF Plug, scratch
<1>3. ASSUME NEW p \in Port, Unplug(p) PROVE RepairInv'
  BY <1>1, <1>3, KernelView DEF Unplug, scratch, TypeOK, Pollable, Repairing
<1>4. ASSUME NEW p \in Port, OutsideRemove(p) PROVE RepairInv'
  BY <1>1, <1>4 DEF OutsideRemove, TypeOK, scratch, Repairing
<1>5. CASE Die
  BY <1>1, <1>5, ExitTyped DEF Die
<1>6. CASE Restart
  BY <1>1, <1>6 DEF Restart
<1>7. QED
  BY <1>2, <1>3, <1>4, <1>5, <1>6 DEF Outside

\* The invariant is inductive.
LEMMA RepairInvInductive == RepairInv /\ [Next]_vars => RepairInv'
<1> SUFFICES ASSUME RepairInv, [Next]_vars PROVE RepairInv'
  OBVIOUS
<1>1. CASE TimerFires
  <2>1. TypeOK'
    BY NextTyped DEF RepairInv
  <2>2. QED
    BY <1>1, <2>1 DEF TimerFires, hardware, kernel, scratch, RepairInv,
                      RepairsOnlyDeadPorts, LinkUp
<1>2. CASE UNCHANGED vars
  <2>1. TypeOK'
    BY NextTyped DEF RepairInv
  <2>2. QED
    BY <1>2, <2>1 DEF vars, hardware, kernel, scratch, RepairInv,
                      RepairsOnlyDeadPorts, LinkUp
<1>3. QED
  BY <1>1, <1>2, PollRepairs, ProcessRepairs, OutsideRepairs DEF Next

\* Nothing is under repair at the start.
LEMMA RepairInvInitially == Init => RepairInv
<1> SUFFICES ASSUME Init PROVE RepairInv
  OBVIOUS
<1>1. TypeOK
  BY InitTyped
<1>2. QED
  BY <1>1 DEF Init, RepairInv, RepairsOnlyDeadPorts, LinkUp

\* adna_timer_callback removes or bounces only ports whose device has lost its
\* link, however stale the tree and the caches of its poll have become, as long
\* as nobody but the daemon has the bus rescanned.
THEOREM RepairsAreSafe == Spec => []RepairsOnlyDeadPorts
<1>1. RepairInv => RepairsOnlyDeadPorts
  BY DEF RepairInv
<1>2. QED
  BY <1>1, RepairInvInitially, RepairInvInductive, PTL DEF Spec

----------------------------------------------------------------------------
(* Refinement of PortLifecycle.                                            *)

\* Every downstream port sits on a switch of its own, as on the H1A.
OwnSwitches == \A p \in Port : BitPort[p] = p

\* The daemon starts where the abstract service does.
LEMMA LifecycleInitially == Init => Lifecycle!Init
  BY DEF Init, Lifecycle!Init

\* A sample changes nothing the abstract service has.
LEMMA PollStutters ==
  ASSUME NEW q \in Port, Poll(q)
  PROVE  UNCHANGED <<plugged, hub, faults>>
  BY DEF Poll, SampleLinkCameUp, SampleLinkWentDown, SampleDownLong, SampleQuiet,
         Sample, hardware, kernel

\* What the process does to a port, the service may do.
LEMMA ProcessImplements ==
  ASSUME OwnSwitches, RepairInv, Process
  PROVE  [Lifecycle!Next]_<<plugged, hub, faults>>
<1> USE DEF hardware, kernel
<1>1. CASE \/ StartCrashes \/ StartFindsNothing \/ StartMonitoring \/ Deliver
           \/ Scan \/ RemoveFails \/ Rearm \/ Enable \/ Finish
  BY <1>1 DEF StartCrashes, StartFindsNothing, StartMonitoring, Deliver, Scan,
              RemoveFails, Rearm, Enable, Finish
<1>2. CASE Remove
  <2>1. cur \in Port /\ hub[cur] # "live"
    BY <1>2 DEF Remove, RepairInv, RepairsOnlyDeadPorts, TypeOK, Repairing
  <2>2. Lifecycle!Retire(cur)
    BY <1>2, <2>1 DEF Remove, Lifecycle!Retire
  <2>3. QED
    BY <2>1, <2>2 DEF Lifecycle!Next
<1>3. CASE Rescan
  <2> DEFINE S == {p \in Port : hub[p] = "none" /\ LinkUp(p)}
  <2>1. \A p \in S : p \in plugged /\ hub[p] = "none"
    BY DEF LinkUp
  <2>2. hub' = [p \in Port |-> IF p \in S THEN "live" ELSE hub[p]]
    BY <1>3 DEF Rescan, Enumerated
  <2>3. Lifecycle!Enumerate(S)
    BY <1>3, <2>1, <2>2 DEF Rescan, Lifecycle!Enumerate
  <2>4. S \in SUBSET Port
    OBVIOUS
  <2>5. QED
    BY <2>3, <2>4 DEF Lifecycle!Next
<1>4. CASE Disable
  <2>1. hub[cur] # "live" /\ SwitchPort(cur) = cur
    BY <1>4 DEF Disable, RepairInv, RepairsOnlyDeadPorts, TypeOK, Pollable,
                Repairing, OwnSwitches, SwitchPort
  <2>2. hub' = hub
    BY <1>4, <2>1 DEF Disable, LoseLinks, RepairInv, TypeOK
  <2>3. QED
    BY <1>4, <2>2 DEF Disable
<1>5. QED
  BY <1>1, <1>2, <1>3, <1>4 DEF Process

\* What happens outside is what happens to the service.
LEMMA OutsideImplements ==
  ASSUME RepairInv, Outside
  PROVE  [Lifecycle!Next]_<<plugged, hub, faults>>
<1> USE DEF hardware, kernel
<1>1. hub \in [Port -> HubState]
  BY DEF RepairInv, TypeOK
<1>2. ASSUME NEW p \in Port, Plug(p) PROVE Lifecycle!Next
  BY <1>2 DEF Plug, Lifecycle!Next, Lifecycle!Plug
<1>3. ASSUME NEW p \in Port, Unplug(p) PROVE Lifecycle!Next
  <2>1. hub' = [hub EXCEPT ![p] = IF hub[p] = "live" THEN "stale" ELSE hub[p]]
    BY <1>1, <1>3 DEF Unplug, LoseLinks
  <2>2. Lifecycle!Unplug(p)
    BY <1>3, <2>1 DEF Unplug, Lifecycle!Unplug
  <2>3. QED
    BY <2>2 DEF Lifecycle!Next
<1>4. ASSUME NEW p \in Port, OutsideRemove(p) PROVE Lifecycle!Next
  <2>1. hub' = [q \in Port |-> IF q \in {p} THEN "none" ELSE hub[q]]
    BY <1>1, <1>4 DEF OutsideRemove
  <2>2. Lifecycle!Intervene({p})
    BY <1>4, <2>1 DEF OutsideRemove, Lifecycle!Intervene
  <2>3. QED
    BY <2>2 DEF Lifecycle!Next
<1>5. CASE Die
  <2>1. hub' = [q \in Port |-> IF q \in {} THEN "none" ELSE hub[q]]
    BY <1>1, <1>5 DEF Die
  <2>2. Lifecycle!Intervene({})
    BY <1>5, <2>1 DEF Die, Lifecycle!Intervene
  <2>3. QED
    BY <2>2 DEF Lifecycle!Next
<1>6. CASE Restart
  BY <1>6 DEF Restart
<1>7. QED
  BY <1>2, <1>3, <1>4, <1>5, <1>6 DEF Outside

\* Every step is a step of the service or none.
LEMMA StepImplements ==
  ASSUME OwnSwitches
  PROVE  RepairInv /\ [Next]_vars => [Lifecycle!Next]_<<plugged, hub, faults>>
<1> SUFFICES ASSUME RepairInv, [Next]_vars
             PROVE  [Lifecycle!Next]_<<plugged, hub, faults>>
  OBVIOUS
<1>1. CASE TimerFires
  BY <1>1 DEF TimerFires, hardware, kernel
<1>2. CASE UNCHANGED vars
  BY <1>2 DEF vars, hardware, kernel
<1>3. QED
  BY <1>1, <1>2, PollStutters, ProcessImplements, OutsideImplements DEF Next

\* Where every port has its own switch, no repair of adna_timer_callback costs a
\* port a device whose link is good, and no device appears without a link.
THEOREM DaemonImplementsLifecycle ==
  ASSUME OwnSwitches
  PROVE  Spec => ImplementsLifecycle
<1>1. Init => Lifecycle!Init
  BY LifecycleInitially
<1>2. RepairInv /\ [Next]_vars => [Lifecycle!Next]_(Lifecycle!vars)
  BY StepImplements DEF Lifecycle!vars
<1>3. QED
  BY <1>1, <1>2, RepairInvInitially, RepairInvInductive, PTL
  DEF Spec, ImplementsLifecycle, Lifecycle!Spec

----------------------------------------------------------------------------
(***************************************************************************)
(* The error counters of the daemon limit the rate at which it bounces a   *)
(* port.                                                                   *)
(***************************************************************************)

\* Strengthening of BounceRateLimited: no counter runs ahead of the samples,
\* a port about to be bounced has its two counters at zero already, and an
\* exited process has none.
RateInv ==
  /\ HistoryTypeOK
  /\ \A p \in Port : linkDownCnt[p] <= polls[p] /\ hubDownCnt[p] <= polls[p]
  /\ pc = "disable" => /\ polls[cur] >= Threshold
                       /\ linkDownCnt[cur] = 0
                       /\ hubDownCnt[cur] = 0
  /\ pc = "exited" => \A p \in Port : linkDownCnt[p] = 0 /\ hubDownCnt[p] = 0

\* With the histories or without, the daemon takes the same steps.
LEMMA HistoryStepsAreSteps == HistoryNext => Next
  BY DEF HistoryNext, PollRecorded, DisableRecorded, Unrecorded, Next, Process

\* Nothing is counted at the start.
LEMMA RateInvInitially == HistoryInit => RateInv
<1> SUFFICES ASSUME HistoryInit PROVE RateInv
  OBVIOUS
<1>1. TypeOK
  BY InitTyped DEF HistoryInit
<1>2. QED
  BY <1>1, ThresholdAssumption DEF HistoryInit, Init, RateInv, HistoryTypeOK

\* A sample adds at most as much to a counter as to the number of samples.
LEMMA CountsFollowPolls ==
  ASSUME RateInv, NEW p \in Port
  PROVE  /\ LinkCount(p) \in 0 .. Threshold /\ LinkCount(p) <= Bump(polls[p])
         /\ HubCount(p) \in 0 .. Threshold /\ HubCount(p) <= Bump(polls[p])
         /\ Bump(polls[p]) \in 0 .. Threshold
         /\ Bump(downRun[p]) \in 0 .. Threshold
<1>1. /\ linkDownCnt[p] \in 0 .. Threshold /\ hubDownCnt[p] \in 0 .. Threshold
      /\ polls[p] \in 0 .. Threshold /\ downRun[p] \in 0 .. Threshold
      /\ linkDownCnt[p] <= polls[p] /\ hubDownCnt[p] <= polls[p]
  BY DEF RateInv, HistoryTypeOK, TypeOK
<1>2. QED
  BY <1>1, ThresholdAssumption DEF LinkCount, HubCount, Bump

\* A sample that leads to a bounce has restarted both counters.
LEMMA PollKeepsRate ==
  ASSUME RateInv, NEW p \in Port, PollRecorded(p)
  PROVE  RateInv'
<1> USE DEF records
<1>1. TypeOK'
  BY PollTyped DEF RateInv, HistoryTypeOK, PollRecorded
<1>2. HistoryTypeOK'
  BY <1>1, CountsFollowPolls, ThresholdAssumption
  DEF RateInv, HistoryTypeOK, PollRecorded
<1>3. polls' = [polls EXCEPT ![p] = Bump(polls[p])]
  BY DEF PollRecorded
<1>4. \/ pc' \notin {"disable", "exited"} /\ Count(p)
      \/ SampleDownLong(p)
  BY DEF PollRecorded, Poll, SampleLinkCameUp, SampleLinkWentDown, SampleQuiet,
         Sample, Repair
<1>5. CASE pc' \notin {"disable", "exited"} /\ Count(p)
  BY <1>2, <1>3, <1>5, CountsFollowPolls DEF RateInv, HistoryTypeOK, TypeOK, Count
<1>6. CASE SampleDownLong(p)
  <2>1. linkDownCnt' = [linkDownCnt EXCEPT ![p] = 0]
        /\ hubDownCnt' = [hubDownCnt EXCEPT ![p] = 0]
        /\ cur' = p /\ pc' = "disable" /\ DownLong(p)
    BY <1>6 DEF SampleDownLong, RestartCounts
  <2>2. polls'[p] >= Threshold
    BY <1>3, <2>1, CountsFollowPolls, ThresholdAssumption
    DEF DownLong, RateInv, HistoryTypeOK
  <2>3. \A q \in Port : linkDownCnt'[q] <= polls'[q] /\ hubDownCnt'[q] <= polls'[q]
    BY <1>3, <2>1, CountsFollowPolls DEF RateInv, HistoryTypeOK, TypeOK
  <2>4. linkDownCnt'[p] = 0 /\ hubDownCnt'[p] = 0
    BY <2>1 DEF RateInv, HistoryTypeOK, TypeOK
  <2>5. QED
    BY <1>2, <2>1, <2>2, <2>3, <2>4 DEF RateInv
<1>7. QED
  BY <1>4, <1>5, <1>6

\* When the samples start anew, the counters of the port are at zero.
LEMMA DisableKeepsRate ==
  ASSUME RateInv, DisableRecorded
  PROVE  RateInv'
<1>1. TypeOK'
  BY ProcessTyped DEF RateInv, HistoryTypeOK, DisableRecorded, Process
<1>2. HistoryTypeOK'
  <2>1. polls' \in [Port -> 0 .. Threshold]
    <3>1. cur \in Port
      BY DEF RateInv, HistoryTypeOK, TypeOK, Pollable, Repairing, DisableRecorded, Disable
    <3>2. polls \in [Port -> 0 .. Threshold] /\ polls' = [polls EXCEPT ![cur] = 0]
      BY DEF RateInv, HistoryTypeOK, DisableRecorded
    <3>3. 0 \in 0 .. Threshold
      BY ThresholdAssumption
    <3>4. QED
      BY <3>1, <3>2, <3>3
  <2>2. downRun' \in [Port -> 0 .. Threshold]
    BY DEF RateInv, HistoryTypeOK, DisableRecorded
  <2>3. QED
    BY <1>1, <2>1, <2>2 DEF HistoryTypeOK
<1>3. linkDownCnt' = linkDownCnt /\ hubDownCnt' = hubDownCnt /\ pc' = "enable"
      /\ pc = "disable"
  BY DEF DisableRecorded, Disable, records
<1>4. QED
  BY <1>2, <1>3 DEF DisableRecorded, RateInv, HistoryTypeOK, TypeOK

\* Every other step forgets the counters or leaves them alone, and starts no
\* bounce.
LEMMA UnrecordedCounters ==
  ASSUME TypeOK, Unrecorded
  PROVE  \/ /\ pc' # "disable"
            /\ \A p \in Port : linkDownCnt'[p] = 0 /\ hubDownCnt'[p] = 0
         \/ /\ pc' # "disable" \/ (pc' = pc /\ cur' = cur)
            /\ linkDownCnt' = linkDownCnt
            /\ hubDownCnt' = hubDownCnt
            /\ pc' = "exited" => pc = "exited"
<1> USE DEF records, scratch
<1>1. CASE TimerFires
  BY <1>1 DEF TimerFires, Unrecorded
<1>2. CASE Process
  BY <1>2 DEF Unrecorded, Process, StartCrashes, StartFindsNothing,
              StartMonitoring, SaveToAdnaList, Deliver, Scan, Remove,
              RemoveFails, Rescan, Rearm, Enable, Finish, Exit, NoRecords
<1>3. CASE Outside
  BY <1>3 DEF Unrecorded, Outside, Plug, Unplug, OutsideRemove, Die, Restart,
              Exit, NoRecords
<1>4. QED
  BY <1>1, <1>2, <1>3 DEF Unrecorded

\* The other steps bring no counter ahead of its samples.
LEMMA UnrecordedKeepsRate ==
  ASSUME RateInv, Unrecorded
  PROVE  RateInv'
<1>1. TypeOK'
  BY NextTyped DEF RateInv, HistoryTypeOK, Unrecorded, Next
<1>2. HistoryTypeOK'
  BY <1>1, ThresholdAssumption DEF RateInv, HistoryTypeOK, Unrecorded, Forget
<1>3. CASE pc' = "exited"
  BY <1>2, <1>3, UnrecordedCounters DEF RateInv, HistoryTypeOK, Unrecorded, Forget
<1>4. CASE pc' # "exited"
  BY <1>2, <1>4, UnrecordedCounters DEF RateInv, HistoryTypeOK, Unrecorded
<1>5. QED
  BY <1>3, <1>4

\* The invariant is inductive.
LEMMA RateInvInductive == RateInv /\ [HistoryNext]_historyVars => RateInv'
<1> SUFFICES ASSUME RateInv, [HistoryNext]_historyVars PROVE RateInv'
  OBVIOUS
<1>1. CASE UNCHANGED historyVars
  BY <1>1 DEF historyVars, vars, hardware, kernel, alarm, records, scratch,
              RateInv, HistoryTypeOK, TypeOK, Pollable
<1>2. QED
  BY <1>1, PollKeepsRate, DisableKeepsRate, UnrecordedKeepsRate DEF HistoryNext

\* The histories keep their types with the daemon's own state, and no port that
\* is off the list or marked bIsD3 is visited or repaired (adna.c:1273).
THEOREM HistoryTypeCorrect == HistorySpec => []HistoryTypeOK
<1>1. RateInv => HistoryTypeOK
  BY DEF RateInv
<1>2. QED
  BY <1>1, RateInvInitially, RateInvInductive, PTL DEF HistorySpec

\* Between two bounces of a port adna_timer_callback samples it at least
\* Threshold times: a port in trouble is not disabled more than once a second.
THEOREM BouncesAreRateLimited == HistorySpec => []BounceRateLimited
<1>1. RateInv => BounceRateLimited
  BY DEF RateInv, BounceRateLimited
<1>2. QED
  BY <1>1, RateInvInitially, RateInvInductive, PTL DEF HistorySpec
============================================================================
