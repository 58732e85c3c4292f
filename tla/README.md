# A verification project for heatermeter-modern

heatermeter-modern runs a HeaterMeter barbecue controller: an ATmega328 board
that reads probes and drives a blower, and `heatermeterd`, a Python daemon on a
Raspberry Pi that talks to the board over a serial line, stores what it reports,
decides what a cook is, drives programs and tunes, notifies, and updates both
the board's firmware and itself. This directory holds TLA+ models of the parts
whose correctness depends on the order of things, TLC configurations that check
them, and proofs checked by TLAPS.

Contents: the system; the modules; what the runs check; bounds and fairness;
what is proved and how; what disagrees with the documents; what is not
modelled; the plan.

## 1. The system

One asyncio event loop runs almost everything. Around it: a serial reader thread
(`links.py`) that posts each line to the loop, the MQTT client's thread, worker
threads for slow database work (`asyncio.to_thread`, `run_in_executor`), root
helpers started by systemd path units when the daemon writes a request file, the
board itself, and a user at the board's panel.

| component | state | operations | interacts through | hard part | must be true |
|---|---|---|---|---|---|
| Session keeper (`service.py`, `store.py`) | `sessions` and the evidence in `samples`, `notes`, `events`; `session_id`, `_last_sample_ts`, `_session_completed`, the detector's latch | status line, start, finish, shutdown, delete, note, prune, retention | SQLite under a lock taken per statement group | threads against the loop, crashes, swallowed failures, silences | one open cook, no cook lost, completion once |
| Pit command (`service.py`, `cookprogram.py`, `autotune.py`, `powerup.py`) | program stage, tuner phase, guided cook, pending policy, grace period | set, program, tune, guided, complete, units, shut down | direct `link.send` and `call_soon_threadsafe` | many writers, deferred against direct sends, stale status | the last word of each driver wins; stale set points go; off stays off |
| Board (`hmcore.cpp`, `grillpid.cpp`, `hmmenus.cpp`) | mode, EEPROM mode, lid countdown | commands, panel, control loop | serial lines | reboot from EEPROM, lost commands, unsigned counters | mode and countdown agree |
| Firmware update (`service.py`, `firmware.py`, `deploy/hm-flash`) | job, spool files, paused link, snapshot | flash, poll, finish, restore, verify | request, progress and result files; systemd path | two timeouts, delayed callbacks, daemon restart mid-flash | a success is what the board runs; fire out, configuration back |
| Host update (`service.py`, `hostupdate.py`, `deploy/hm-update`) | job, staging, spool | check, download, request, swap, restart | files, systemd | awaits between check and use, crash while swapping | no torn tree by an update; a bad release is undone |
| Detectors (`cookdone.py`, `probewatch.py`, `pitguard.py`, `lidrecovery.py`, `fuel.py`, `guided.py`) | small state machines | one update per status line | called by the status handler | latches, resets, re-arming | each event once per occurrence |
| Alarms and notification (`service.py`, `notify.py`, `apns.py`) | debounce and repeat times, dark flag | alarm edges, dark watchdog | timers, threads | a late line against a timeout | no alarm lost or repeated too soon |
| Subscribers (`_broadcast`, `api.py`) | a bounded queue per client | subscribe, broadcast, stop | queues | a full queue | the newest message and the end of the daemon reach every client |
| Serve plan (`serveplan.py`, `service.py`) | plan, last verdict | save, clear, refresh | the forecasts, the session keeper | forecasts that come and go, cooks that change | the user was told of a late dinner; a plan is of one cook |
| MQTT bridge (`mqtt.py`) | connection, unit, topics | commands, discovery | its own thread | reads on one thread, writes on another | entities in the board's unit; no lost target |

The rest (HTTP routes, authentication, configuration files, prediction,
stability, reports, fuel, presets, parser, simulator, frontend, iOS app, the
firmware's display, radio and LED drivers) is I/O, formatting, arithmetic on
floats or third-party code; `PROJECT.json` lists each with its reason.

## 2. The modules

### CookSession: what a cook is

`CookSession` models how status lines become sessions. `sessions` is the table
with the evidence `session_has_activity` looks for: `done` (completed_ts), `fired`
(a sample with a set point), `noted` (a note or an event that is not automatic),
`last` (what the newest sample says, which `start()` asks). The rest of the state
is the daemon's memory, the pruner's thread (`prune`: keeps it was asked for,
rows it listed, rows it will delete, and those a prune that raised left behind) and a delete request between its thread and
the loop (`deleting`).

| code | action or operator |
|---|---|
| `start` | `Start` |
| `stop`, crash, power loss | `Stop`, `CrashInHandler` (between two commits of one handler) |
| `_on_line` with `_ensure_session`, `_cook_is_active`, `_check_cook_done` | `StatusInSession`, `StatusIdle`, `StatusOpens`, `StatusAfterGap`, all ending in `Record` |
| `finish_cook`, `_on_cook_complete` | `FinishCook` |
| `shutdown_system` and its delayed trigger | `ShutdownSystem`, `PowerOff` |
| `DELETE /api/sessions/{id}` | `DeleteSession` (thread), `DeleteReturns` (loop) |
| `POST /api/notes` | `AddNote` |
| `prune_empty_sessions`; `_prune_empty_sessions` when it raises | `PruneList`, `PruneCheck`, `PruneDelete`; `PruneFails` |
| `cleanup_db` | `CleanupDb` |
| the clock | `TimePasses` |

A status line is abstracted to two bits: it has a set point other than zero, or a
food probe with a target reads. `cook` and `stuck` in a row, `prune.failed` and the
variable `silence` are history: no action's guard reads them.

`SessionLedger` is what the list of cooks promises a reader: a session opens
once, under the next number, ends once, completes at most once and only while it
is open, and never comes back. `KeepsLedger` says that `CookSession` implements
it, with `state` mapped to the state of each row and `completed` to the rows that
exist and are done.

### PitControl: who commands the pit

`PitControl` models everything that changes the board's mode. `board` holds the
mode, the mode in EEPROM and a record of what set it last (`cmd`, history: the
code cannot see it). `queue` is the event loop's list of callbacks: deferred
sends and status lines, oldest first. The program is its stage, the tuner its
phase. Off is sent as a unit letter (`set?sp=O`) and is not stored in EEPROM;
everything else is.

| code | action or operator |
|---|---|
| `handleCommandUrl`, `storeSetPoint`, `storePidUnits` | `Obeys` |
| `SerialLink.send` | `Sent` (obeyed, or lost) |
| menus; `eepromLoadBaseConfig`; `reportStatus` with the reader thread | `OperatorSets`; `BoardReboots`; `BoardReports` |
| `start`, `stop` | `Start`, `Stop` |
| `_on_line` | `Status`: power-up policy, completion action, guided keep-warm (sent at once, in this order), then tuner and program (posted, in this order) |
| `send_command_threadsafe` | `Defers`, and `Send` when `LoopRuns` reaches it |
| `/api/setpoint`, `/api/manual`, `repeat_cook`; `/api/lid/open`; Home Assistant | `UserSets`; `LidOpenNow`; `MqttSets` |
| `set_units` | `SetUnits` |
| guided cooks, programs, tunes | `Start...`, `Stop...`, `AdvanceProgram`, `CancelTuner` |
| `finish_cook`, `shutdown_system` | `FinishCook`, `ShutdownSystem`, `PowerOff` |

Set points are abstracted to the mode they cause, conditions on temperatures and
clocks (when a stage is over, when the relay toggles, whether a pit is cold, when a
cook is complete) are inputs. Writing a command and the board's obeying it are one
step; the serial line keeps commands in order, and a status line that is
overtaken by commands is covered by its wait in `queue`.

### FirmwareFlash: the board's image, its configuration and its fire

`FirmwareFlash` composes the daemon's job, the spool, the systemd path unit, the
root helper `hm-flash` and the board. `timers` holds what `loop.call_later` was
given and nothing cancels; `asked`, `results` and `hexes` are the files of each
job; `noticed` is the path unit's event. An image is its version, or `Torn`. The
configuration is a sequence of settings (`Settings`), each the user's or the default
one; the commands that restore it end with the one that idles the cooker. `board.lit` says who drives the pit:
nobody, the user, or a reset that resumed the set point in EEPROM. A resume that
fails leaves the line closed (`paused`), and a command on an open line may still be
lost; `lost` records what was lost after the last job (history).

| code | action or operator |
|---|---|
| `start`, `stop` or crash, power loss | `Start`, `Crash`, `PowerCut` |
| `preflight_guard`, `_snapshot_config`, `start_firmware_flash` | `Preflight`, `SnapshotConfig`, `StartFlash` with `HandsOver` (the request is written, or the write fails) |
| `_fw_poll`: a result; 180 s | `PollResult`, `PollTimesOut` |
| `_fw_finish` | `Finish`, with `KeepsBackup` and `After` |
| `_request_config_retry`; `_fw_restore_config`, `_fw_send_sequence` with `_build_restore_commands`; the idle command | `Pull`; `Restore`, `SendNext`, both `SendSequence`; `SendOff`, each from `Fire` |
| `_fw_safe_send` | `Obeyed`, or `Loses` |
| `hm-flash` in its order: consume, gates, backup, erase, write, trap | `HelperStarts`, `HelperGates`, `HelperBacksUp`, `HelperErases`, `HelperWrites`, `HelperFails`, `HelperExits` |
| `eepromLoadConfig` at a reset; status line; menus and API | `Boots`; `BoardReports`; `UserSets` |

`FlashLedger` is what the updater promises whoever asks for a flash: jobs are numbered
as they are asked for, one that waits gives way to a newer one, each runs at most once
and one at a time, a job that is over stays as it ended, the image is erased only by a
job that read it whole before, and what a rollback leaves is the image that was
there before the job it undoes. `KeepsFlashLedger` says that `FirmwareFlash`
implements it: how a job stands is read off its result file, the helper and the
request file (`Stand`), what it is to leave off its request (`Goal`), what it read off
its backup file (`Before`). A job whose request was overwritten or whose helper lost
power is lost, and stays so.

### HostUpdate: the installed tree

`HostUpdate` composes the daemon's update job, the one request and result file and
`hm-update`, which copies, moves, restarts and checks. A tree is the release it
holds, `Torn` or `Missing`, separately for code and frontend; a release answers,
dies, or accepts the connection and says nothing. Faults are constants: a `cp`
that fails, a helper stopped by systemd, a power cut; `hit` records them
(history), and `was` the last run with the tree it found (history). `waiting` counts the calls of `start_host_update` that wait for the
network while the loop goes on, `polls` the chains of `_hu_poll`.

| code | action or operator |
|---|---|
| `start_host_update` before, during and after its awaits; rollback | `BeginUpdate`, `GiveUpUpdate`, `AcceptUpdate`; `StartRollback`; both with `Asks` (the request is written, or the write fails) |
| `_hu_poll`, `_hu_finish`; `ack_host_update`; `_load_hostupdate_boot_result` | `Poll`, `PollEnds`; `Ack`; `BootStatus` |
| `hm-update.path`; verification; saving the live tree | `HelperStarts`; `Verify`; `Save`, `SaveCode`, `SaveDist` |
| `swap_dir` | `Copying`, `Copied`, `CopyFails`, `Away`, `In` |
| `restore_previous`; recording success; `restart_and_check` | `Restore`; `Installed`; `Restart`, `Check` |
| `TimeoutStartSec` and the EXIT trap | `Killed`, `Ends` |

### The parts

Eleven smaller modules, each with its own state and `Spec`, for what hangs on the
status line or on the outside. A handler of `service.py` and the object it calls
are one action. `Parts` composes them: it instantiates each, assumes of the
constants what each needs (`PartsConstants`), and a step of it is a step of one part
while the others stay (`CookDoneMoves`, `ProbeWatchMoves`, ...).

| module | models | actions |
|---|---|---|
| `CookDone` | `CookDoneDetector` and `_check_cook_done`, with the probes and where they are | `Sample` (all of `update`), `Move`, `SetTarget`, `SaveConfig`, `NewCook`, `Finish`, `Restart` |
| `ProbeWatch` | `ProbeWatch` of one channel and the badge of `_on_probe_event` | `Sample`, `SaveConfig`, `NewOrFinishedCook` |
| `PitGuard` | `PitGuard` and `_drive_pitguard` | `Sample`, `SaveConfig`, `Restart` |
| `LidRecovery` | `LidRecovery`, `_drive_lid_recovery`, the board's lid countdown and a cancel that may be lost | `Sample`, `SaveConfig`, `Restart` |
| `Guided` | `GuidedRun`, the recipes, `_drive_guided` | `Start`, `StartFails`, `Stop`, `ConfirmWrap`, `Sample`, `Restart` |
| `ServePlan` | `assess`, `_drive_serveplan`, the plan's file and its cook | `Refresh`, `SavePlan`, `ClearPlan`, `OpenSession`, `CloseSession`, `FinishCook`, `Restart` |
| `AlarmNotify` | `_maybe_notify_alarm`, `_check_eta_push`, `_dark_watchdog`, the fan-out of `_push` | `Sample`, `Silence`, `Watchdog`, `Configure`, `Restart` |
| `MqttBridge` | `MqttBridge`: connection and discovery on two threads | `Reconfigure`, `Line`, `OnConnect`, `Refused`, `Publish`, and paho and the broker (external) |
| `HomeTargets` | `mqtt_set_target` against the board's alarm lines and the user's changes | `HomeWrites`, `LoopSends`, `UserSets`, `AlarmLine` |
| `LiveFeed` | `subscribe`, `_broadcast`, the websocket reader, the end of `stop` | `Subscribe`, `Broadcast`, `Take`, `Sent`, `SendFails`, `Stop` |
| `ApnsPush` | `PushRegistry`, `_push_apns` and its pruning, the file of the tokens with writes and reads that fail | `Register`, `RemoveToken`, `Push`, `Send`, `SigningFails`, `BatchEnds`, `Prune`, `Configure`, `Uninstall`, `Restart` |

Temperatures are a few coarse degrees, times are counted in status lines and
saturate where the code only compares them. Variables called history (`past`,
`window`, `diary`, `heard`, `ring`, `raced`, `shown`, `wanted`, `returned`, `unsaved`,
`unseen`) are read by no guard.
`PitControl` and `CookSession` take the verdicts of the detectors as inputs; the
parts take what those decide (a new cook, a completion, a set point) as inputs in
turn. The two sides meet in arguments of actions only, so nothing is lost by
checking them apart, except that a property that needs both cannot be stated.

In `Guided`, `diary` has one set of prompts per status line: two prompts of one line
are not ordered in it. In `CookDone`, `unseen` holds the candidates the detector
missed a reading of, and those that were in food when they became one (section 7).
A forecast of `ServePlan` is an estimate, a plateau or none (`Forecast`). In `PitGuard`, `past` counts while the guard looks: one that is switched off sees no
lid, and afterwards knows of none.

`MCCookSession`, `MCPitControl`, `MCFirmwareFlash` and `MCHostUpdate` extend their
modules with constants for TLC and with what the repository says of the program
where the code does something else. `MCParts` extends `Parts` with constants and with
the variable `machine` (section 3). Operators commented "Variant" are plausible mistakes in the
definition that follows; no specification uses them, they serve to show that each
property can fail.

## 3. The runs

| run | shows |
|---|---|
| `cook_session` | all of CookSession's properties, with fairness and deadlock check |
| `pit_control` | all of PitControl's properties |
| `firmware_flash` | all of FirmwareFlash's properties |
| `host_update` | all of HostUpdate's properties |
| `parts` | the properties of the parts |
| `cooks_are_kept`, `gap_ends_cook` | CookSession against what is said of it (section 6) |
| `powerup_spares_user`, `shutdown_idles` | PitControl against what is said of it (section 6) |
| `no_fire_after_flash` | FirmwareFlash against what is said of it (section 6) |
| `every_channel_hears`, `others_preserved` | AlarmNotify and HomeTargets against what is said of them (section 6) |

The parts share no state and some have only a few hundred states, so one run holds
them side by side: the variable `machine` of `MCParts` is chosen in the initial
state and says which of them moves; the others stay as they began. The state space is the
sum of the parts', not their product, and each property is checked on the
behaviours in which its part moves (in the others it holds of the initial state,
or its antecedent is false).

Properties of CookSession:

* `CurrentIsOpen`: one open cook at most, and it is the one samples are tagged
  with; a tag never points to a session that has ended. Two exceptions the code
  makes are part of the statement: a session `shutdown_system` failed to close,
  and one whose delete has not returned to the loop.
* `CompletedIsLatched`: a recorded completion keeps the detector latched across
  restarts, so shut-down or keep-warm never fires twice by itself.
* `PrunerSparesFires`: what the pruner deletes still has no set point and no
  completion, although check and delete take the lock separately. It rests on
  `PrunerHoldsEnded`: what the pruner holds has ended for good.
* `EmptySessionsGo` (liveness): every ended session without activity is deleted
  once a prune is due, or written in, or the prune raises, or the daemon ends.
* `KeepsLedger`: refinement of `SessionLedger`.

Properties of PitControl:

* `StageInForce`: when the board is in the program's hands and nothing of the
  program waits, it runs the stage the program is in, never one that is over or
  of a program that was replaced.
* `TunerLetsGo`: a tune that ended leaves neither the board nor its EEPROM in
  manual output.
* `StaleSetPointGoes` (liveness): a set point the board came back with does not
  stay in force while the power-up policy waits.

Properties of FirmwareFlash:

* `SuccessIsOnBoard`: a job reported as a success is what runs on the board, over
  jobs given up after 180 s whose helper goes on, late path events, and restarts.
* `BackupIsWhole`: the image offered for a rollback is a complete reading.
* `KeepsFlashLedger`: refinement of `FlashLedger`.
* `FireGoesOut` (liveness): after a success the reset board is idled, unless the
  one command that does it was lost, the next flash starts or the daemon dies.
* `ConfigReturns` (liveness): after a success each setting the daemon saved comes
  back, with the same exceptions, the first for the command of that very setting.
  Neither command is acknowledged or repeated, a line that could not be reopened
  swallows both, and snapshot and timers die with the daemon: limits of the code,
  which the exceptions name and the model has. What the properties say is that
  nothing else stands between a success and them: not a sequence of an earlier job,
  a late answer, a pull that asks again, a command lost beside it, or a helper
  that still resets the board.

Properties of HostUpdate:

* `UpdateNeverTears`: an update puts no half-copied tree in place, whatever strikes
  it at whichever step. The statement exempts `restore_previous`, which does (section 6).
* `OldTreeSurvives`: whatever strikes an update, while it saves, while it swaps, while
  it rolls back, and after it: the tree it found is still there, code and frontend, in
  place or as the one a rollback goes back to. The statement speaks of the last run: the
  next one saves over it.
* `BadReleaseIsUndone`: when no fault struck a helper, what it leaves is one release, and it answers.
* `SuccessIsInstalled`: a success of the latest job is what is installed.
* `Reachable` (liveness): the device comes back after every update that no fault struck.
  A mute build is such a fault (section 6).

Properties of the parts:

* `CookDone`: `NotDoneInFood`, a probe put back in food and warm again is not
  found done, if the detector saw all its readings and saw it leave the food;
  `PulledIsNoticed` (liveness), one that stays out is.
* `ProbeWatch`: `BadgeTellsPresence`, badge and watcher agree although they are kept in
  two objects that are reset apart; `OutageIsTold` (liveness).
* `PitGuard`: `AlertsAreSustained`, no warning before its dwell over lids, graces and set
  point changes; `DyingFireIsTold` (liveness).
* `LidRecovery`: `CancelsRightly`, a cancel follows a dip and a climb of this very
  window, and a window has one marker although cancels are lost and sent again.
* `Guided`: `EachPromptOnce`, over jumps and falls of the temperature.
* `ServePlan`: `LateIsTold`, the last word the user had of a late plan is that it
  is late; `PlanOfThisCook`.
* `AlarmNotify`: `NoBlipPages`, `RingingIsTold` and `DarkIsTold` (liveness).
* `MqttBridge`: `UnitsFollow` (liveness), two threads announcing topic by topic end
  with the board's unit. The race it exempts (`raced`: the unit changes while the
  network thread is half-way through the old one) does leave old units.
* `HomeTargets`: `OthersPreserved`, which the code does not keep (section 6).
* `LiveFeed`: `NewestIsKept`, `ReadersEnd` (liveness).
* `ApnsPush`: `ReachableIsKept`, a device that registered and can be reached stays in the
  registry, over pushes and prunes that run beside registrations, reinstalled apps and
  restarts. Two exceptions the code makes are part of the statement: a device that came
  back while a push held its token for dead (`returned`; section 6), and what a write or
  read of the file that failed has lost (`wanted` forgets it).

## 4. Bounds

`cook_session`: two session ids are enough for a stale row beside a new one, for
the turnover of one cook into the next and for two prunes that disagree; ages
saturate at 1 with `IdleGap = 0`, since the code only compares an age with the
gap. Init covers the databases an older daemon may leave. `pit_control`: two
stages, the second of which shuts the fan; at most two callbacks wait at once
(`MaxQueue`), enough for a late stage beside the next one, a relay beside the end
of the tune, and a status line that is overtaken; one status line waits at a time.
With `MaxQueue = 3` the run gives the same result and takes five times as long.
Nothing else is bounded in them, and the guards that carry a bound say so.

`firmware_flash`: two jobs are what it takes for a late helper, timer or result of
one to meet the next; two images with different EEPROM formats give both an update
that resets EEPROM and a rollback that does. One setting, the unit, is restored, and
the idle command follows it, so that either may be lost and the other not, with a second
job between them. With two settings and one job the run gives the same result. `host_update`: two jobs, four releases
(two good, one of each bad kind), every fault at every step any number of times.
`parts`: one probe or channel where the code treats each by itself (`CookDone`,
`ProbeWatch`), two where they meet (`ServePlan`, `HomeTargets`); queues of two; dwell times of one to three lines, the
least at which early, at the time and late differ. The grace of a lid (4) is longer
than the dwell of a low pit (2), and the dwell of a dying fire (3) is another, so that
each can be the one that decides; the gaps lie on, beside and beyond each edge of
the guard's bands; the ambient is one of two. `MaxMessages`, `MaxLate`,
`MaxCalls`, `MaxCooks`, `Batches` and `MaxJobs` bound what would otherwise count on.
For `ApnsPush` there are two devices and a registry of one, so that the oldest is pushed
out while a push holds it for dead, and one push at a time beside the prunes of earlier
ones; three devices and a registry of two give the same result.

`CookSession`, `PitControl` and `FirmwareFlash` cannot stop, and deadlock is checked.
`HostUpdate` ends when all its requests were made and a dead tree cannot boot, and
`MCParts` when the live feed has closed.

## 5. Fairness

`PrunerFairness` is weak fairness of each step of the pruner: an executor runs
what it was given, and neither lock is held across steps. `Fairness` in
PitControl is weak fairness of the board's report (every second; a line
with a bad checksum counts as not sent, and the next one is as good) and of the
event loop. No other step is fair: users, crashes, silences and temperatures
need not happen. Safety properties do not use fairness.

In `FirmwareFlash` the poll, the timers together and the helper are weakly fair: asyncio
goes on firing what it was given (a timer sets one more at most, so each comes to fire), and systemd starts the helper it has an event for; that it
gets through is not assumed (`HelperFails` stays possible), nor that the line reopens
or a command arrives. In `HostUpdate` so are
the poll, systemd's restart of a tree that answers, the helper, and systemd's limit on a helper
that hangs. In the parts, a status line comes every second: `CookDone` says
`WF(Sample)`; where the property is about a line that stays as it is, the line is
an input, so the fair action is that line said once more (`Says(reading)`,
`Says(pit)`), or any line of a board that is not silent (`GoesOn`). Fairness of
`Sample` alone would let the input change each time. The watchdog's timer, both
threads of the MQTT bridge, and each reader's take and send (a send to a dead
client ends with an error) are weakly fair. A device that stays silent, a broker
that stays away and a user who does nothing are all allowed.

## 6. What the documents say and the code does not

* `CooksAreKept`: `test_sessions.py` calls a targeted food probe with the pit off
  "a cook", and it opens a session; the pruner, which is to delete only sessions
  "in which no cook ever ran", finds no set point in it and deletes it.
* `GapEndsCook`: `store.py` says a session is closed after an idle gap; the gap is
  measured from a timestamp that a restart forgets, so a resumed session goes on
  over an outage of any length.
* `PowerupSparesUser`: the power-up policy is "decided once on the first status";
  an off or manual board reports no number, the policy stays pending, and the
  first set point asked for later is idled in a cold pit. Four steps: a status
  while off, a program that starts, its first stage, the next status.
* `ShutdownIdles`: `shutdown_system` "idles the cooker (so the blower stops)"; a
  program or a tuner, which nothing stops, drives it again in the two seconds
  before the host goes down.
* `NoFireAfterFlash`: the cooker is idled before a flash "so a mid-flash reset can't
  drive a fire"; Off is not stored in EEPROM, the programmer resets the board, and only a
  success idles it again. A helper that fails after its first contact leaves the
  board driving its stored set point.
* `EveryChannelHears`: a push goes "to every configured channel ..., each
  independently gated", but alarms and forecasts return before the push unless
  ntfy is configured, so a phone with native push alone hears of neither.
* `OthersPreserved`: `mqtt_set_target` is to "preserve the other thresholds". It reads all
  of them from the last alarm line and the loop writes them back later, so what the user
  or another write changed since is reverted.

Each of these has a run. The following are stated in the modules (`CompletedIsKnown` in
`MCCookSession`, `NeverHalfPopulated` and `NeverUnreachable` in `MCHostUpdate`,
`ReturningIsKept` in `ApnsPush`) and TLC refutes each when it is given as an INVARIANT;
they have no configuration of their own.

* `CompletedIsKnown`: `_session_completed` is "True once the current session's
  cook completed"; `start()` restores the detector's latch but not this flag.
* `NeverHalfPopulated`: `hm-update` copies to a temporary and moves, "so an interrupted
  copy never leaves a half-populated live dir". Two ways to one: `restore_previous` is
  called where the shell ignores `set -e`, so a copy that fails is moved into place all
  the same; and the tree to go back to is saved by a copy in place, so a
  helper that is killed or loses power leaves half a tree there, which the next
  rollback takes for whole.
* `NeverUnreachable`: a build that does not answer is rolled back, "so a bad release
  cannot leave the device unreachable". `curl` has no time limit: a build that accepts
  the connection and is mute holds the check until systemd ends the helper after 240 s,
  with success recorded and nothing rolled back.
* `ReturningIsKept`: an app instance "registers (or refreshes)" its token and a push goes
  "to every registered device token". A device that comes back after a push found its
  token dead, and before the callback that prunes it, is pruned: the callback does not
  ask when the token was registered.

## 7. What is proved

`CookSession_proofs` proves, for every number of sessions, every idle gap and
every saturation age (assumptions `BoundsAssumption`, `NoneAssumption`):
`TypeCorrect`, `OneOpenCook`, `CompletesOnce`, `PrunerKeepsOffOpen`,
`PrunerIsSafe`, and `ImplementsLedger`, the refinement of `SessionLedger`.

The argument. None of the invariants is inductive alone. `CurrentIsOpen` across a
restart needs to know which row `open_session` returns: the newest open one, and
a row that is not stuck is the newest (`NewestIsOpen`), which needs that ids are
handed out in order (`IdsInOrder`). That a tag may point to a row that is gone
only while its delete is pending needs `DeletingIsGone`. The pruner's safety needs
that victims stay empty between check and delete (`VictimsAreEmpty`): only the
current session gains evidence, the current session is open, and victims have
ended. `IInv` is the conjunction; `TypeStep` and `IInvStep` have one case per
action, resting on lemmas about the table's operators (`CloseRowFacts`,
`InsertSampleFacts`, ...) and about the ways an action changes the table
(`CurrentGains`, `NoCurrent`, `NextOpens`, `Deletes`, ...). `LedgerNext` maps every
step to a step or a stutter of the ledger under `IInv`.

`PitControl_proofs` proves, for every number of stages, every set of stages that
shut the fan and every length of the event loop's queue (assumptions
`ProgramAssumption`, `QueueAssumption`): `TypeCorrect`, `StageCorrect`
(`StageInForce`) and `TunerCorrect` (`TunerLetsGo`).

The argument. Neither property is inductive: it speaks of an empty queue, and the
step that empties it must know what was in it. `LastWord(q, b, by, c)` says that
the newest command of the driver `by` in the queue is `c`, and that when none
waits a board in its hands obeyed `c`. A callback of someone else passes
(`LinePasses`), a deferred send lands or is lost (`SendLands`), others join the
queue behind (`OthersPost`), and when the driver speaks its last command takes
over (`DriverPosts`); each holds because the loop runs its callbacks in the order
in which they were posted. `DriverInv` is the last word of a running program (its
stage), that of a tune that ended (`TunerEnd`), and that what the tuner set last
is what the board and its EEPROM hold; `DriverStep` has one case per action.

Both modules refer to the same program, but their state is disjoint; no theorem
relates them.

`FirmwareFlash_proofs` proves, for every set of images and formats and every number
of settings and jobs (assumptions `VersionsAssumption`, `SettingsAssumption`,
`FlashBoundAssumption`): `TypeCorrect`,
`FlashIsOnBoard` (`SuccessIsOnBoard`), `BackupsAreWhole` (`BackupIsWhole`) and
`ImplementsLedger` (`KeepsFlashLedger`), the refinement of `FlashLedger`.

The argument. That a success is on the board must survive the next job, whose helper
may still write when the one before is given up. What holds all the time is said of
the last job (`LastIsOnBoard`): when it wrote and went well, the board has its image
and no other run is on the way. A step that breaks this would be a helper of an
earlier job, and there is none: only one runs (the systemd unit), a request that waits
is untouched, and so is the last job, which it is unless the last one could not be
written (`RequestIsNew`), and the daemon knows of no job but the
last (`StatusIsOfLast`). What a rollback writes is whole because it was offered only
after its job's result said "ok", which the helper writes after the backup
(`OkIsWhole`, `HelperInOrder`). For the refinement, `FilesAreNew` adds that a job that
has not begun has no backup file and one that is reading has none that is complete: so
each job reads the image once. `LedgerNext` maps every step: a request is `Ask`, the
pick-up `Begin`, the backup `Save`, the erasure and the writing `Erase` and `Write`, the
EXIT trap without a result and a power cut `Fail`; all that the daemon does else is a
stutter.

`HostUpdate_proofs` proves, for every set of releases of each kind, every set of
faults and every number of jobs (assumptions `ReleasesAssumption`,
`UpdateBoundsAssumption`): `TypeCorrect`, `BadReleasesAreUndone`
(`BadReleaseIsUndone`), `SuccessesAreInstalled` (`SuccessIsInstalled`),
`OldTreesSurvive` (`OldTreeSurvives`) and the action property `UpdatesNeverTear`
(`UpdateNeverTears`).

The argument. While no fault has struck, `UnstruckIsWhole` says of each step of the
helper which of the two trees, live and saved, is one whole release: until the new code goes in the live one,
while trees are swapped the saved one, and after a restoration both. One of them
always is, so that whatever the health check finds can be undone. `NewIsWhole` says
the same of a release on its way in and needs no luck: a copy that fails ends an
update before anything is moved. `ResultIsOfRun` and `LastIsInstalled` tie the one
result file to the run: two calls may have passed the same guard (`waiting`), and the
file may be of the one that was overwritten. `SavedFirst` says at which step of an update
the tree it found is still live and from which on it is saved, whatever has struck: no step
after the saving leads back to it, and none but the saving touches the saved tree.

`Detectors_proofs`, `Plans_proofs` and `Delivery_proofs` prove, part by part, that an
invariant holds at first and is kept by every step; `Parts_proofs` shows that no part
moves but by its own actions (`EachMoves`), joins the invariants (`PartsInvariant`) and
states the theorems, under `PartsConstants`: `TypeCorrect`, `BadgeIsTrue`,
`WarningsAreSustained`, `LidCancelsRightly`, `PromptsComeOnce`, `LateWasTold`,
`PlansAreOfTheirCook`, `NewestWaits`, `DevicesAreKept`, and the action properties
`FoodIsNotDone`, `BlipsAreNotPaged`. They hold for every dwell, band,
grace, debounce and timeout, every set of probes, clients, tokens and batches, every
set of recipes of the table and every temperature, any number of cooks, and queues of every size
from two on.

What each needs beside its property, in its module under "What the properties rest
on":

| part | strengthening | why |
|---|---|---|
| `CookDone` | `CandidatesReached`, `RisesInFood` | a probe warmed up for `Lag` lines is `Rise` above its lowest, so it is no candidate |
| `PitGuard` | `TimersAreLived`, `LidIsKnown` | a timer of the guard never counts a line the history does not; a lid window not recovered from is known to the guard |
| `LidRecovery` | `CountsFit`, `MarkersArePaid`, `SeesThisWindow` | what the detector remembers is of this window; a second marker needs a stand-down |
| `Guided` | `DiaryIsOfRun` | what was told is what has fired, and firing is never undone within a run |
| `ServePlan` | `FileHasPlan` | a restart reads what was last saved, unless a save or read failed |
| `AlarmNotify` | `RecordsAreLived` | the record outlives neither its ring nor its count |
| `LiveFeed` | `CountsFit`, `SentinelsEnd` | before the shutdown no queue holds a sentinel, so none takes a message's place |
| `ApnsPush` | `DeadAreGone`, `FileIsCurrent` | a token held for dead is not installed, or its device came back since; a restart reads what the daemon had, or a write or read failed |
| `ProbeWatch`, `MqttBridge`, `HomeTargets` | none | `BadgeTellsPresence` is inductive with the types; of `MqttBridge` and `HomeTargets` only the types are proved |

TLC checked every strengthening on the small instance before it was proved. What
the proofs brought to light, and TLC then confirmed:

* A guided run: the pit's drop is told as "warm", which must be the name of no
  milestone in the recipe table for "once" to hold (`WarmIsNoMilestone`, for the table
  as it is).
* A pit guard that is switched off over a lid window and on again, with the PID in
  normal mode, warns within the time that the grace would have taken. The earlier
  instance, with the grace no longer than the dwell, could not show it. The code
  resets the guard when it is off, so the property counts only lines at which it looks.
* A probe whose target is raised after it was reached, or beside which the ambient
  rises, becomes a candidate without ever leaving the food, and is found done when it
  does not warm (`cookdone.py:124`, `reached` is kept). `NotDoneInFood` speaks of
  probes that were put back, and exempts it by `unseen`.
* With queues of one message the sentinel of the shutdown takes the place of the newest;
  the code's queues hold 50, and the assumption is two (and room for the messages that
  come after the sentinel, `MaxLate < Cap`, without which it would itself be dropped).

Only model-checked: the liveness properties (`EmptySessionsGo`, `StaleSetPointGoes`,
`FireGoesOut`, `ConfigReturns`, `Reachable`, `PulledIsNoticed`, `OutageIsTold`,
`DyingFireIsTold`, `RingingIsTold`, `DarkIsTold`, `UnitsFollow`, `ReadersEnd`), since
liveness under fairness is outside the prover, and the runs of section 6, each a
counterexample. Every invariant and action property of the passing runs is a theorem.

## 8. Not modelled, and the plan

Done: `CookSession` with `SessionLedger` and proofs; `PitControl` with proofs;
`FirmwareFlash` with `FlashLedger` and proofs; `HostUpdate` with proofs; the eleven parts, composed in
`Parts`, with proofs.

Not modelled, and why:

* `predict.py`, `stability.py`, `fuel.py`, `report.py`: estimates on windows of
  floats and rendering; what they say is an input of `ServePlan`, and no state waits
  for them. The auto-tuner's peak detection and tuning rules are the same.
* `presets.py`, `auth.py`, `main.py`, the routes of `api.py` that only call the
  service, sharing and photos: stored lists and wiring. Routes that change modelled
  state are actions of the module of that state.
* `protocol.py`, `state.py`, `hostinteractive.py`: parsing and formatting. A line is
  what it says.
* A serial line that breaks. `links.py` has no reconnection: after an I/O error the reader
  thread ends (`links.py:79`) and the daemon hears nothing more. The safety properties
  allow it, since no line need ever come; the liveness properties assume a board that is
  heard.
* The firmware's control loop (16-bit arithmetic, lid countdown from OFF), display, radio
  and LEDs. `LidRecovery` has the countdown of a board that drives.
* The mutual exclusion of flash and host update, which the code does not have, and a
  dark page during a flash: `FirmwareFlash`, `HostUpdate` and `AlarmNotify` have disjoint state.

To come, most important first: abstract specifications of what the host's updater
promises (the device runs one whole release) and of the live feed (each client's
stream is a suffix in order), with the refinements proved as those of the two ledgers
are; safety facts that the liveness properties of
`FirmwareFlash` and `MqttBridge` rest on, as theorems, so that only fairness is left to
TLC; the mutual exclusion of the drivers in `PitControl`; the hazards of `PROJECT.json`
that no property covers yet.
