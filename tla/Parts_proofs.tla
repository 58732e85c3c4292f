--------------------------- MODULE Parts_proofs ---------------------------
(***************************************************************************)
(* A step of the parts is a step of each of them, or leaves it alone: what *)
(* is inductive in a part is an invariant of them all.                     *)
(***************************************************************************)
EXTENDS Detectors_proofs, Plans_proofs, Delivery_proofs, TLAPS

\* No part moves but by its own actions.
LEMMA EachMoves ==
  ASSUME [Next]_partsVars
  PROVE  /\ [CD!Next]_cookDoneVars
         /\ [PW!Next]_probeWatchVars
         /\ [PG!Next]_pitGuardVars
         /\ [LR!Next]_lidRecoveryVars
         /\ [GU!Next]_guidedVars
         /\ [SP!Next]_servePlanVars
         /\ [AN!Next]_alarmNotifyVars
         /\ [MQ!Next]_mqttBridgeVars
         /\ [HT!Next]_homeTargetsVars
         /\ [LF!Next]_liveFeedVars
         /\ [AP!Next]_apnsPushVars
<1> USE DEF Next, partsVars, Alone, CookDoneMoves, ProbeWatchMoves, PitGuardMoves,
            LidRecoveryMoves, GuidedMoves, ServePlanMoves, AlarmNotifyMoves,
            MqttBridgeMoves, HomeTargetsMoves, LiveFeedMoves, ApnsPushMoves
<1>1. [CD!Next]_cookDoneVars  OBVIOUS
<1>2. [PW!Next]_probeWatchVars  OBVIOUS
<1>3. [PG!Next]_pitGuardVars  OBVIOUS
<1>4. [LR!Next]_lidRecoveryVars  OBVIOUS
<1>5. [GU!Next]_guidedVars  OBVIOUS
<1>6. [SP!Next]_servePlanVars  OBVIOUS
<1>7. [AN!Next]_alarmNotifyVars  OBVIOUS
<1>8. [MQ!Next]_mqttBridgeVars  OBVIOUS
<1>9. [HT!Next]_homeTargetsVars  OBVIOUS
<1>10. [LF!Next]_liveFeedVars  OBVIOUS
<1>11. [AP!Next]_apnsPushVars  OBVIOUS
<1> QED
  BY <1>1, <1>2, <1>3, <1>4, <1>5, <1>6, <1>7, <1>8, <1>9, <1>10, <1>11

-----------------------------------------------------------------------------
(* All of them together.                                                   *)

PartsInv ==
  /\ CookDoneInv
  /\ PW!TypeOK /\ BadgeTellsPresence
  /\ PitGuardInv
  /\ LidRecoveryInv
  /\ GuidedInv
  /\ ServePlanInv
  /\ AlarmNotifyInv
  /\ MQ!TypeOK
  /\ HomeTargetsInv
  /\ LiveFeedInv
  /\ ApnsPushInv

\* The invariant of each part is one of the parts together.
LEMMA PartsInvariant == Spec => []PartsInv
<1>1. Init => PartsInv
  BY CookDoneInit, ProbeWatchInit, PitGuardInit, LidRecoveryInit, GuidedInit, ServePlanInit,
     AlarmNotifyInit, MqttBridgeInit, HomeTargetsInit, LiveFeedInit, ApnsPushInit
     DEF PartsInv
<1>2. PartsInv /\ [Next]_partsVars => PartsInv'
  <2> SUFFICES ASSUME PartsInv, [Next]_partsVars PROVE PartsInv'
    OBVIOUS
  <2>1. CookDoneInv'
    BY CookDoneStep, EachMoves DEF PartsInv
  <2>2. PW!TypeOK' /\ BadgeTellsPresence'
    BY ProbeWatchStep, EachMoves DEF PartsInv
  <2>3. PitGuardInv'
    BY PitGuardStep, EachMoves DEF PartsInv
  <2>4. LidRecoveryInv'
    BY LidRecoveryStep, EachMoves DEF PartsInv
  <2>5. GuidedInv'
    BY GuidedStep, EachMoves DEF PartsInv
  <2>6. ServePlanInv'
    BY ServePlanStep, EachMoves DEF PartsInv
  <2>7. AlarmNotifyInv'
    BY AlarmNotifyStep, EachMoves DEF PartsInv
  <2>8. MQ!TypeOK'
    BY MqttBridgeStep, EachMoves DEF PartsInv
  <2>9. HomeTargetsInv'
    BY HomeTargetsStep, EachMoves DEF PartsInv
  <2>10. LiveFeedInv'
    BY LiveFeedStep, EachMoves DEF PartsInv
  <2>11. ApnsPushInv'
    BY ApnsPushStep, EachMoves DEF PartsInv
  <2> QED
    BY <2>1, <2>2, <2>3, <2>4, <2>5, <2>6, <2>7, <2>8, <2>9, <2>10, <2>11 DEF PartsInv
<1> QED  BY <1>1, <1>2, PTL DEF Spec

-----------------------------------------------------------------------------
(* The theorems.                                                           *)

\* Every variable of every part has its type: with it the ages, dwells and counts of
\* the detectors stay within their bounds, whatever they are.
THEOREM TypeCorrect == Spec => []TypeOK
<1>1. PartsInv => TypeOK
  BY DEF PartsInv, TypeOK, CookDoneInv, PitGuardInv, LidRecoveryInv, GuidedInv, ServePlanInv,
         AlarmNotifyInv, HomeTargetsInv, LiveFeedInv, ApnsPushInv
<1> QED  BY <1>1, PartsInvariant, PTL

\* Over config changes, resets and faults the badge says "disconnected" exactly
\* while the watcher holds the channel for gone.
THEOREM BadgeIsTrue == Spec => []BadgeTellsPresence
<1>1. PartsInv => BadgeTellsPresence
  BY DEF PartsInv
<1> QED  BY <1>1, PartsInvariant, PTL

\* Whatever the dwells, the bands and the grace of the lid, no warning of the pit is
\* given that the temperature did not hold for its dwell.
THEOREM WarningsAreSustained == Spec => []AlertsAreSustained
<1>1. PartsInv => AlertsAreSustained
  BY DEF PartsInv, PitGuardInv
<1> QED  BY <1>1, PartsInvariant, PTL

\* A lid wait is cut short only by a climb from a dip seen in it, and told once.
THEOREM LidCancelsRightly == Spec => []CancelsRightly
<1>1. PartsInv => CancelsRightly
  BY LidRecoveryGivesMarkers DEF PartsInv
<1> QED  BY <1>1, PartsInvariant, PTL

\* In any run of any of the recipes each prompt comes once, none after the pull, and
\* the keep-warm with the pull.
THEOREM PromptsComeOnce == Spec => []EachPromptOnce
<1>1. PartsInv => EachPromptOnce
  BY DEF PartsInv, GuidedInv
<1> QED  BY <1>1, PartsInvariant, PTL

\* A plan that stands at "late" was last told to be late.
THEOREM LateWasTold == Spec => []LateIsTold
<1>1. PartsInv => LateIsTold
  BY DEF PartsInv, ServePlanInv
<1> QED  BY <1>1, PartsInvariant, PTL

\* No cook goes on with the plan of another, over restarts and any number of cooks,
\* unless the file could not be written.
THEOREM PlansAreOfTheirCook == Spec => []PlanOfThisCook
<1>1. PartsInv => PlanOfThisCook
  BY ServePlanGivesCook DEF PartsInv
<1> QED  BY <1>1, PartsInvariant, PTL

\* For queues of any size from two on and any number of clients, what waits for a
\* client is in order and newer than what it was sent, and the newest message is
\* among the two, before the shutdown and after it.
THEOREM NewestWaits == Spec => []NewestIsKept
<1>1. PartsInv => NewestIsKept
  BY DEF PartsInv, LiveFeedInv
<1> QED  BY <1>1, PartsInvariant, PTL

\* Whatever the network did, however pushes, registrations and removals come between
\* one another, and over restarts, a device that can be reached is in the registry,
\* unless it came back while a push held it for dead, or a write or read of the file
\* that failed has lost it.
THEOREM DevicesAreKept == Spec => []ReachableIsKept
<1>1. PartsInv => ReachableIsKept
  BY DEF PartsInv, ApnsPushInv
<1> QED  BY <1>1, PartsInvariant, PTL

\* A probe that is back in food, or was never out of it, is not found done.
THEOREM FoodIsNotDone == Spec => NotDoneInFood
<1>1. PartsInv /\ [Next]_partsVars => [FindsNoneInFood]_(CD!cookDoneVars)
  BY CookDoneStep, EachMoves DEF PartsInv
<1> QED
  BY <1>1, PartsInvariant, PTL DEF Spec, NotDoneInFood, CD!NotDoneInFood, FindsNoneInFood

\* For every debounce and repeat time, an alarm is pushed only when it rang for the
\* debounce time, and once in a ring if it is not to be repeated.
THEOREM BlipsAreNotPaged == Spec => NoBlipPages
<1>1. PartsInv /\ [Next]_partsVars => [PagesAreLived]_(AN!alarmNotifyVars)
  BY AlarmNotifyStep, EachMoves DEF PartsInv, alarmNotifyVars, AN!alarmNotifyVars
<1> QED
  BY <1>1, PartsInvariant, PTL DEF Spec, NoBlipPages, AN!NoBlipPages, PagesAreLived

=============================================================================
