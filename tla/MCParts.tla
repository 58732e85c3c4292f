------------------------------ MODULE MCParts ------------------------------
(***************************************************************************)
(* Parts for TLC.  The parts share no state, so their state spaces lie     *)
(* side by side in one run: "machine" says which of them moves, the others *)
(* stay as they began.                                                     *)
(***************************************************************************)
EXTENDS Parts

VARIABLE machine

\* CookDone: one probe; 40 degrees are one, a sample is twenty seconds.
OneProbe   == {1}
TwoTargets == {2, 4}
TwoAmbients == {0, 2}

\* PitGuard: far below, at both edges of the dip, at the set point, hot.
SomeGaps == {-5, -4, -3, -2, 0, 1, 2}

\* Guided: the recipe with a wrap at the stall, and the one with a wrap before it.
TwoRecipes == {"brisket_packer", "ribs_321"}

\* ServePlan: before the serve time, on both sides of it, after it.
FourEstimates == {<<0, 0>>, <<2, 2>>, <<2, 3>>, <<3, 3>>}
TwoChannels   == {"food1", "food2"}

BothUnits    == {"F", "C"}
TwoValues    == {1, 2}
TwoReaders   == {"a", "b"}
TwoTokens    == {"a", "b"}
OneBatch     == {1}

-----------------------------------------------------------------------------

Machines == {"CookDone", "ProbeWatch", "PitGuard", "LidRecovery", "Guided", "ServePlan",
             "AlarmNotify", "MqttBridge", "HomeTargets", "LiveFeed", "ApnsPush"}

\* One initial state for each part that stays as it began
Parked ==
  /\ machine = "AlarmNotify" \/ fitted = {}
  /\ machine = "MqttBridge" \/ (broker /\ bridge.unit = "F")
  /\ machine = "HomeTargets" \/ \A p \in DOMAIN alarms : alarms[p] = 1

MCInit == machine \in Machines /\ Init /\ Parked

MCNext ==
  \/ machine = "CookDone"    /\ CookDoneMoves    /\ UNCHANGED machine
  \/ machine = "ProbeWatch"  /\ ProbeWatchMoves  /\ UNCHANGED machine
  \/ machine = "PitGuard"    /\ PitGuardMoves    /\ UNCHANGED machine
  \/ machine = "LidRecovery" /\ LidRecoveryMoves /\ UNCHANGED machine
  \/ machine = "Guided"      /\ GuidedMoves      /\ UNCHANGED machine
  \/ machine = "ServePlan"   /\ ServePlanMoves   /\ UNCHANGED machine
  \/ machine = "AlarmNotify" /\ AlarmNotifyMoves /\ UNCHANGED machine
  \/ machine = "MqttBridge"  /\ MqttBridgeMoves  /\ UNCHANGED machine
  \/ machine = "HomeTargets" /\ HomeTargetsMoves /\ UNCHANGED machine
  \/ machine = "LiveFeed"    /\ LiveFeedMoves    /\ UNCHANGED machine
  \/ machine = "ApnsPush"    /\ ApnsPushMoves    /\ UNCHANGED machine

\* The fairness of each part, as its module states it.
MCFairness ==
  /\ WF_cookDoneVars(machine = "CookDone" /\ CD!Sample)
  /\ WF_probeWatchVars(machine = "ProbeWatch" /\ PW!Says(reading))
  /\ WF_pitGuardVars(machine = "PitGuard" /\ PG!Says(pit))
  /\ WF_alarmNotifyVars(machine = "AlarmNotify" /\ AN!GoesOn)
  /\ WF_alarmNotifyVars(machine = "AlarmNotify" /\ AN!Watchdog)
  /\ \A t \in MQ!Threads :
       WF_mqttBridgeVars(machine = "MqttBridge" /\ MQ!Publish(t))
  /\ \A r \in Readers :
       /\ WF_liveFeedVars(machine = "LiveFeed" /\ LF!Take(r))
       /\ WF_liveFeedVars(machine = "LiveFeed" /\ (LF!Sent(r) \/ LF!SendFails(r)))

MCSpec == MCInit /\ [][MCNext]_<<machine, partsVars>> /\ MCFairness

=============================================================================
