-------------------------- MODULE HotplugHistory ---------------------------
(***************************************************************************)
(* The daemon of Hotplug with two history variables, to state what its     *)
(* error counters mean: how many samples of a port lie between two bounces *)
(* of it, and for how many samples it has been down without a break.       *)
(***************************************************************************)
EXTENDS Hotplug

VARIABLES
  polls,    \* samples of the port since its last bounce or the last start
  downRun   \* of those, the latest that found link and hub down, unbroken

historyVars == <<vars, polls, downRun>>

HistoryInit ==
  /\ Init
  /\ polls = [p \in Port |-> 0]
  /\ downRun = [p \in Port |-> 0]

\* Both histories are saturated at Threshold, as the counters are.
PollRecorded(p) ==
  /\ Poll(p)
  /\ polls' = [polls EXCEPT ![p] = Bump(@)]
  /\ downRun' = [downRun EXCEPT ![p] =
                   IF IsLinkUp(p) \/ IsHubUp(p) THEN 0 ELSE Bump(@)]

DisableRecorded ==
  /\ Disable
  /\ polls' = [polls EXCEPT ![cur] = 0]
  /\ UNCHANGED downRun

Forget ==
  /\ polls' = [p \in Port |-> 0]
  /\ downRun' = [p \in Port |-> 0]

Unrecorded ==
  /\ TimerFires \/ Process \/ Outside
  /\ ~Disable
  /\ IF pc' = "exited" THEN Forget ELSE UNCHANGED <<polls, downRun>>

HistoryNext ==
  \/ \E p \in Port : PollRecorded(p)
  \/ DisableRecorded
  \/ Unrecorded

HistorySpec == HistoryInit /\ [][HistoryNext]_historyVars

----------------------------------------------------------------------------

\* The history variables keep their types.
HistoryTypeOK ==
  /\ TypeOK
  /\ polls \in [Port -> 0 .. Threshold]
  /\ downRun \in [Port -> 0 .. Threshold]

\* A port is bounced at most once in Threshold samples of it: both error
\* counters restart at a bounce, and each sample adds at most one to each.
BounceRateLimited == pc = "disable" => polls[cur] >= Threshold

\* adna_timer_callback prints that a port it bounces "has been Down for 1s":
\* its last Threshold samples all found it down.
BouncedAfterOneSecondDown == pc = "disable" => downRun[cur] >= Threshold
============================================================================
