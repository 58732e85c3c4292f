------------------------------- MODULE Parts -------------------------------
(***************************************************************************)
(* The parts that hang on the status line and on the outside: detectors,   *)
(* notifications, plans and live clients.  They share no state, so in the  *)
(* service they go on side by side, and a step is a step of one of them.   *)
(***************************************************************************)
EXTENDS Integers, Sequences

CONSTANTS
  Probes, Targets, Top, Ambients,                  \* CookDone
  Drop, Rise, Band, Grace, Lag,
  Dropout, Window,                                 \* ProbeWatch
  Gaps, LowBand, Half, Epsilon,                    \* PitGuard
  HighMargin, HighHalf,
  LowDwell, FireDwell, HighDwell, LidGrace,
  TopPit, SetPoint, Delta, MinArmed, LidWindow,    \* LidRecovery
  Recipes, KeepWarm,                               \* Guided
  Channels, Estimates, Due, HoldWindow, MaxCooks,  \* ServePlan
  Debounce, Repeat, DarkTimeout,                   \* AlarmNotify
  Units, Entities,                                 \* MqttBridge
  TargetProbes, Values, MaxCalls,                  \* HomeTargets
  Readers, Cap, MaxMessages, MaxLate,              \* LiveFeed
  Tokens, MaxTokens, Batches                       \* ApnsPush

VARIABLES
  food, unseen, watch, doneCfg, completed,               \* CookDone
  reading, channel, health, watching,                    \* ProbeWatch
  pit, guard, guardOn, told, past,                       \* PitGuard
  lid, cancel, det, lidOn, marked, window,               \* LidRecovery
  run, keepWarm, meat, sets, diary,                      \* Guided
  plan, planFile, band, clock, cook, heard,              \* ServePlan
  alarm, eta, quiet, dark, fitted, sent, ring, offline,  \* AlarmNotify
  broker, session, bridge, announcing, retained, raced,  \* MqttBridge
  alarms, known, calls,                                  \* HomeTargets
  queue, reader, shown, count, late, stopped,            \* LiveFeed
  registry, sender, pushFile, unsaved,                   \* ApnsPush
  installed, batch, prunes, wanted, returned

cookDoneVars    == <<food, unseen, watch, doneCfg, completed>>
probeWatchVars  == <<reading, channel, health, watching>>
pitGuardVars    == <<pit, guard, guardOn, told, past>>
lidRecoveryVars == <<lid, cancel, det, lidOn, marked, window>>
guidedVars      == <<run, keepWarm, meat, sets, diary>>
servePlanVars   == <<plan, planFile, band, clock, cook, heard>>
alarmNotifyVars == <<alarm, eta, quiet, dark, fitted, sent, ring, offline>>
mqttBridgeVars  == <<broker, session, bridge, announcing, retained, raced>>
homeTargetsVars == <<alarms, known, calls>>
liveFeedVars    == <<queue, reader, shown, count, late, stopped>>
apnsPushVars    == <<registry, sender, pushFile, unsaved, installed, batch, prunes,
                     wanted, returned>>

partsVars ==
  <<cookDoneVars, probeWatchVars, pitGuardVars, lidRecoveryVars, guidedVars,
    servePlanVars, alarmNotifyVars, mqttBridgeVars, homeTargetsVars, liveFeedVars,
    apnsPushVars>>

-----------------------------------------------------------------------------
(* The instances.                                                          *)

CD == INSTANCE CookDone
PW == INSTANCE ProbeWatch
PG == INSTANCE PitGuard
LR == INSTANCE LidRecovery WITH Top <- TopPit
GU == INSTANCE Guided
SP == INSTANCE ServePlan
AN == INSTANCE AlarmNotify
MQ == INSTANCE MqttBridge
HT == INSTANCE HomeTargets WITH Probes <- TargetProbes
LF == INSTANCE LiveFeed
AP == INSTANCE ApnsPush

ASSUME PartsConstants ==
  /\ CD!CookDoneConstants
  /\ PW!ProbeWatchConstants
  /\ PG!PitGuardConstants
  /\ LR!LidRecoveryConstants
  /\ GU!GuidedConstants
  /\ SP!ServePlanConstants
  /\ AN!AlarmNotifyConstants
  /\ MQ!MqttBridgeConstants
  /\ HT!HomeTargetsConstants
  /\ LF!LiveFeedConstants
  /\ AP!ApnsPushConstants

-----------------------------------------------------------------------------
(* One of them moves.                                                      *)

Init ==
  /\ CD!Init /\ PW!Init /\ PG!Init /\ LR!Init /\ GU!Init /\ SP!Init
  /\ AN!Init /\ MQ!Init /\ HT!Init /\ LF!Init /\ AP!Init

\* The other parts stay as they are.
Alone(part) ==
  /\ IF part = "CookDone"    THEN TRUE ELSE UNCHANGED cookDoneVars
  /\ IF part = "ProbeWatch"  THEN TRUE ELSE UNCHANGED probeWatchVars
  /\ IF part = "PitGuard"    THEN TRUE ELSE UNCHANGED pitGuardVars
  /\ IF part = "LidRecovery" THEN TRUE ELSE UNCHANGED lidRecoveryVars
  /\ IF part = "Guided"      THEN TRUE ELSE UNCHANGED guidedVars
  /\ IF part = "ServePlan"   THEN TRUE ELSE UNCHANGED servePlanVars
  /\ IF part = "AlarmNotify" THEN TRUE ELSE UNCHANGED alarmNotifyVars
  /\ IF part = "MqttBridge"  THEN TRUE ELSE UNCHANGED mqttBridgeVars
  /\ IF part = "HomeTargets" THEN TRUE ELSE UNCHANGED homeTargetsVars
  /\ IF part = "LiveFeed"    THEN TRUE ELSE UNCHANGED liveFeedVars
  /\ IF part = "ApnsPush"    THEN TRUE ELSE UNCHANGED apnsPushVars

CookDoneMoves    == CD!Next /\ Alone("CookDone")
ProbeWatchMoves  == PW!Next /\ Alone("ProbeWatch")
PitGuardMoves    == PG!Next /\ Alone("PitGuard")
LidRecoveryMoves == LR!Next /\ Alone("LidRecovery")
GuidedMoves      == GU!Next /\ Alone("Guided")
ServePlanMoves   == SP!Next /\ Alone("ServePlan")
AlarmNotifyMoves == AN!Next /\ Alone("AlarmNotify")
MqttBridgeMoves  == MQ!Next /\ Alone("MqttBridge")
HomeTargetsMoves == HT!Next /\ Alone("HomeTargets")
LiveFeedMoves    == LF!Next /\ Alone("LiveFeed")
ApnsPushMoves    == AP!Next /\ Alone("ApnsPush")

Next ==
  \/ CookDoneMoves
  \/ ProbeWatchMoves
  \/ PitGuardMoves
  \/ LidRecoveryMoves
  \/ GuidedMoves
  \/ ServePlanMoves
  \/ AlarmNotifyMoves
  \/ MqttBridgeMoves
  \/ HomeTargetsMoves
  \/ LiveFeedMoves
  \/ ApnsPushMoves

Spec == Init /\ [][Next]_partsVars

-----------------------------------------------------------------------------
(* The properties of the parts, by their names there.                      *)

\* The type of every variable of every part.
TypeOK ==
  /\ CD!TypeOK /\ PW!TypeOK /\ PG!TypeOK /\ LR!TypeOK /\ GU!TypeOK /\ SP!TypeOK
  /\ AN!TypeOK /\ MQ!TypeOK /\ HT!TypeOK /\ LF!TypeOK /\ AP!TypeOK

\* cookdone.py: a probe that is back in food is not found done.
NotDoneInFood == CD!NotDoneInFood

\* cookdone.py: a probe that was pulled is found done.
PulledIsNoticed == CD!PulledIsNoticed

\* probewatch.py, service.py: the badge and the watcher agree.
BadgeTellsPresence == PW!BadgeTellsPresence

\* probewatch.py: a lasting outage is reported.
OutageIsTold == PW!OutageIsTold

\* pitguard.py: no warning without its dwell.
AlertsAreSustained == PG!AlertsAreSustained

\* pitguard.py: a fire that burns down is told.
DyingFireIsTold == PG!DyingFireIsTold

\* lidrecovery.py, service.py: a lid wait is cut short on a climb from a dip, and
\* told once.
CancelsRightly == LR!CancelFollowsDip /\ LR!OneMarkerPerWindow

\* guided.py, service.py: each prompt once, the keep-warm after the pull.
EachPromptOnce == GU!EachPromptOnce

\* serveplan.py, service.py: a plan is late only after the user was told.
LateIsTold == SP!LateIsTold

\* service.py: a plan is of the cook it was made in.
PlanOfThisCook == SP!PlanOfThisCook

\* service.py: a ring is pushed after its debounce time, once.
NoBlipPages == AN!NoBlipPages

\* service.py: a ring that lasts is pushed.
RingingIsTold == AN!RingingIsTold

\* service.py: a silence that lasts is pushed.
DarkIsTold == AN!DarkIsTold

\* mqtt.py: the entities follow the board's unit.
UnitsFollow == MQ!UnitsFollow

\* service.py: a slow client has the newest messages, in order.
NewestIsKept == LF!NewestIsKept

\* service.py, api.py: every reader ends after a shutdown.
ReadersEnd == LF!ReadersEnd

\* service.py, apns.py: no device is lost that can be reached.
ReachableIsKept == AP!ReachableIsKept

=============================================================================
