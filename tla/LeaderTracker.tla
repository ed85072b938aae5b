--------------------------- MODULE LeaderTracker ---------------------------
(***************************************************************************)
(* The leader tracker (leader_tracker/src/lib.rs): a task that polls the   *)
(* current slot, reloads the leader schedule when the epoch has changed    *)
(* and publishes the set of upcoming leaders the forwarder routes by.      *)
(*                                                                         *)
(* Epochs are EpochLen slots long. Leader is the cluster's schedule. The   *)
(* RPC node may be behind the cluster, and may fall further behind: two    *)
(* answers need not come from the same replica.                            *)
(***************************************************************************)
EXTENDS LeaderSet, Integers

CONSTANTS
  MaxSlot,      \* bound: the cluster's last slot
  EpochLen,
  Leader,       \* slot -> the validator that leads it
  Lookahead,    \* --leader-lookahead-slots
  MaxLag        \* bound: how far the RPC node may be behind

Slots == 0 .. MaxSlot
Epoch(s) == s \div EpochLen

ASSUME LeaderAssumption ==
  /\ MaxSlot \in Nat /\ EpochLen \in Nat \ {0}
  /\ Leader \in [Slots -> Validators]
  /\ Lookahead \in Nat /\ MaxLag \in Nat

VARIABLES
  slot,          \* the cluster's slot
  lpc,           \* control point of the task
  info,          \* epoch_info.absolute_slot of this poll
  current_slot,  \* the published slot
  schedule,      \* the cached schedule: absolute slot -> identity
  loaded_epoch   \* -1 is None

leaderVars == <<slot, lpc, info, current_slot, schedule, loaded_epoch, upcoming>>

LeaderInit ==
  /\ slot = 0 /\ lpc = "idle" /\ info = 0 /\ current_slot = 0
  /\ schedule = [s \in {} |-> CHOOSE v \in Validators : TRUE]
  /\ loaded_epoch = -1 /\ upcoming = {}

\* get_epoch_info answers; the slot is published at once.
GetEpochInfo(s) ==
  /\ lpc = "idle" /\ s \in slot - MaxLag .. slot /\ s \in Slots
  /\ info' = s /\ current_slot' = s
  /\ lpc' = IF loaded_epoch # Epoch(s) THEN "load" ELSE "window"
  /\ UNCHANGED <<slot, schedule, loaded_epoch, upcoming>>

\* get_epoch_info fails: continue with what is published.
GetEpochInfoFails == lpc = "idle" /\ UNCHANGED leaderVars

EpochSlots(e) == {s \in Slots : Epoch(s) = e}

\* epoch_start, computed from the poll's slot and its index in the epoch.
EpochStart(s) == s - (s % EpochLen)

\* The answer of get_leader_schedule: relative slot -> identity, for the epoch
\* the requested slot lies in.
RelativeSchedule(s) ==
  [r \in {t - EpochStart(s) : t \in EpochSlots(Epoch(s))} |-> Leader[EpochStart(s) + r]]

\* Faulty: relative slots are stored as they come.
AbsoluteUnshifted(s) == RelativeSchedule(s)

\* The absolute slots of the answer.
Absolute(s) ==
  [t \in {EpochStart(s) + r : r \in DOMAIN RelativeSchedule(s)}
     |-> RelativeSchedule(s)[t - EpochStart(s)]]

\* get_leader_schedule answers: the cache is replaced.
LoadSchedule ==
  /\ lpc = "load" /\ lpc' = "window"
  /\ schedule' = Absolute(info) /\ loaded_epoch' = Epoch(info)
  /\ UNCHANGED <<slot, info, current_slot, upcoming>>

\* Faulty: the epoch counts as loaded although the call failed.
LoadFailsMarked ==
  /\ lpc = "load" /\ lpc' = "window" /\ loaded_epoch' = Epoch(info)
  /\ UNCHANGED <<slot, info, current_slot, schedule, upcoming>>

\* get_leader_schedule fails or knows no schedule: the old cache stays.
LoadFails ==
  /\ lpc = "load" /\ lpc' = "window"
  /\ UNCHANGED <<slot, info, current_slot, schedule, loaded_epoch, upcoming>>

\* Recompute the window, ends included, and publish it.
Recompute ==
  /\ lpc = "window" /\ lpc' = "idle"
  /\ upcoming' = {schedule[s] : s \in (info .. info + Lookahead) \cap DOMAIN schedule}
  /\ UNCHANGED <<slot, info, current_slot, schedule, loaded_epoch>>

\* The cluster moves on.
SlotPasses ==
  /\ slot < MaxSlot /\ slot' = slot + 1
  /\ UNCHANGED <<lpc, info, current_slot, schedule, loaded_epoch, upcoming>>

Task ==
  \/ \E s \in Slots : GetEpochInfo(s)
  \/ GetEpochInfoFails \/ LoadSchedule \/ LoadFails \/ Recompute

LeaderNext == Task \/ SlotPasses

LeaderSpec == LeaderInit /\ [][LeaderNext]_leaderVars

\* The interval fires for ever, and a call made again and again is answered in
\* the end; once the cluster stays in an epoch the replicas reach it.
FairLeaderSpec ==
  /\ LeaderSpec /\ WF_leaderVars(Recompute) /\ SF_leaderVars(LoadSchedule)
  /\ WF_leaderVars(LoadSchedule \/ LoadFails)
  /\ SF_leaderVars(GetEpochInfo(slot))

-----------------------------------------------------------------------------
Leaders(S) == {Leader[s] : s \in S \cap Slots}

\* Between polls the published set is exactly the leaders of the window that
\* starts at the published slot, as far as the window lies in the loaded epoch:
\* no failed call, epoch change or lagging replica leaves a leader of another
\* time in it.
WindowExact ==
  lpc = "idle" => upcoming =
    Leaders({s \in current_slot .. current_slot + Lookahead : Epoch(s) = loaded_epoch})

\* A missed schedule is asked for again: the task does not stay on the schedule
\* of an epoch that the published slot has left.
ScheduleCatchesUp == []<>(current_slot \in DOMAIN schedule)
=============================================================================
