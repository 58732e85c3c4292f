---------------------------- MODULE PitControl ----------------------------
(***************************************************************************)
(* Who commands the pit.  Many parts of heatermeterd drive the one board:  *)
(* the API and Home Assistant for the user, a cook program, the relay      *)
(* auto-tuner, a guided cook, the cook-completion action, the power-up     *)
(* policy and the shutdown of the host.  Some send at once, from the code  *)
(* that runs on the event loop; the program, the tuner and the MQTT thread *)
(* post a callback with call_soon_threadsafe, and so does the serial       *)
(* reader with every status line.  The board keeps the last command it     *)
(* understood, can be set from its own panel, and restarts from EEPROM.    *)
(*                                                                         *)
(* A set point is abstracted to the mode it puts the board in, and a       *)
(* command carries who sent it, which no one in the code can see.  A       *)
(* command is written and obeyed in one step: the order of the writes is   *)
(* the order in which the board obeys, and a report that a slow line       *)
(* delays is covered by the queue it waits in.                             *)
(***************************************************************************)
EXTENDS Naturals, Sequences

CONSTANTS
  Stages,      \* the number of stages of the cook program
  OffStages,   \* those that force the fan to 0%
  MaxQueue     \* bound: callbacks waiting in the event loop

ASSUME ProgramAssumption ==
  /\ Stages \in Nat \ {0}
  /\ OffStages \subseteq 1 .. Stages

ASSUME QueueAssumption == MaxQueue \in Nat

\* "auto" is PIDMODE_STARTUP, RECOVERY or NORMAL
Mode == {"auto", "manual", "off"}

\* Who may have set the board: "other" is the user, the panel and whatever the
\* daemon sends at once, "boot" is no command but what the board came back
\* with, and "noise" a command that was garbled or never written.
Sender == {"program", "tuner", "other", "boot", "noise"}

Command == [by : Sender, mode : Mode, stage : 0 .. Stages]

Cmd(by, mode) == [by |-> by, mode |-> mode, stage |-> 0]

\* What the daemon reads in a status line: a set point, or the '-' or 'U' that
\* both become None
Reading == {"number", "None"}

Reads(mode) == IF mode = "auto" THEN "number" ELSE "None"

\* A callback of the event loop: a status line of the reader thread, or a
\* deferred send.
Line(reading) == [what |-> "line", line |-> reading]
Post(c)       == [what |-> "send", cmd |-> c]
Callback      == [what : {"line"}, line : Reading] \cup [what : {"send"}, cmd : Command]

VARIABLES
  up,        \* the daemon runs
  queue,     \* callbacks the event loop has not run yet
  heard,     \* state.status.set_point
  board,     \* the board's mode, the one in EEPROM, and what set it last
  program,   \* stage_index + 1 of a running program, 0 when none runs
  tuner,     \* no tuner, one that runs, one that is done
  guided,    \* a guided cook runs
  powerup,   \* the power-up policy of this run
  halting    \* shutdown_system's grace period runs

drivers == <<program, tuner, guided>>
vars    == <<up, queue, heard, board, drivers, powerup, halting>>

-----------------------------------------------------------------------------
(* The board.                                                              *)

\* handleCommandUrl: storePidUnits turns it off and leaves EEPROM alone,
\* storeSetPoint changes the mode and stores it.
Obeys(b, c) == [mode |-> c.mode,
                nv   |-> IF c.mode = "off" THEN b.nv ELSE c.mode,
                cmd  |-> c]

\* A command that was garbled on the way, or whose write failed
Lost(b) == [b EXCEPT !.cmd = Cmd("noise", b.mode)]

\* What the board may be once link.send returned or its failure was swallowed
Sent(b, c) == {Obeys(b, c), Lost(b)}

\* A sender on the loop that has something to say, or not
MaySend(b, mode) == IF mode = "none" THEN {b} ELSE Sent(b, Cmd("other", mode))

\* The panel: long left, the set point and manual menus; all of them store.
OperatorSets(mode) ==
  /\ board' = [mode |-> mode, nv |-> mode, cmd |-> Cmd("other", mode)]
  /\ UNCHANGED <<up, queue, heard, drivers, powerup, halting>>

\* eepromLoadBaseConfig
BoardReboots ==
  /\ board' = [board EXCEPT !.mode = board.nv, !.cmd = Cmd("boot", board.nv)]
  /\ UNCHANGED <<up, queue, heard, drivers, powerup, halting>>

\* reportStatus, and the reader thread that posts the line (bound: one line
\* waits at a time).  A line with a bad checksum is as if never sent.
BoardReports ==
  /\ up
  /\ Len(queue) < MaxQueue
  /\ \A i \in DOMAIN queue : queue[i].what # "line"
  /\ queue' = Append(queue, Line(Reads(board.mode)))
  /\ UNCHANGED <<up, heard, board, drivers, powerup, halting>>

-----------------------------------------------------------------------------
(* The daemon starts and ends.                                             *)

\* start: the policy is pending, and it judges what the board came back with
Start ==
  /\ ~up
  /\ up' = TRUE
  /\ powerup' = "first"
  /\ board' = [board EXCEPT !.cmd = Cmd("boot", board.mode)]
  /\ UNCHANGED <<queue, heard, drivers, halting>>

Die ==
  /\ up' = FALSE
  /\ queue' = <<>>
  /\ heard' = "None"
  /\ program' = 0
  /\ tuner' = "none"
  /\ guided' = FALSE
  /\ powerup' = "none"
  /\ halting' = FALSE

\* stop sends nothing, a crash even less
Stop ==
  /\ up
  /\ Die
  /\ UNCHANGED board

-----------------------------------------------------------------------------
(* What the drivers want, and how it reaches the board.                    *)

\* CookProgramRunner._apply_stage
Stage(k) == [by    |-> "program",
             mode  |-> IF k \in OffStages THEN "manual" ELSE "auto",
             stage |-> k]

\* AutoTuneSession._set_relay and _finish
Relay    == Cmd("tuner", "manual")
TunerEnd == Cmd("tuner", "auto")

\* Variant: the newest callback runs first
PostsFirst(q, cs) == cs \o q

\* call_soon_threadsafe, once for each command
Posts(q, cs) == q \o cs

\* A handler posts what its drivers want (bound: MaxQueue)
Defers(q, cs) ==
  /\ Len(q) + Len(cs) <= MaxQueue
  /\ queue' = Posts(q, [i \in DOMAIN cs |-> Post(cs[i])])

\* Variant: the last stage is followed by one that does not exist
NextStageAfterEnd(k) == k + 1

\* ProgramState.advance: the stage after k, 0 when the program is done
NextStage(k) == IF k < Stages THEN k + 1 ELSE 0

\* What advance_now and on_sample post when stage k is over
AdvancePosts(k) == IF k < Stages THEN <<Stage(k + 1)>> ELSE <<>>

\* Variant: the set point is restored before the relay is let go
TunerPostsEarly == {<<>>, <<Relay>>, <<TunerEnd>>, <<TunerEnd, Relay>>}

\* AutoTuneSession.on_sample: nothing, a relay toggle, the end, or both
TunerPosts == {<<>>, <<Relay>>, <<TunerEnd>>, <<Relay, TunerEnd>>}

Ends(cs) == TunerEnd \in {cs[i] : i \in DOMAIN cs}

-----------------------------------------------------------------------------
(* The event loop runs its oldest callback.                                *)

Pending == {"first", "later"}   \* the policy waits for its first line, or on

\* Variant: the policy looks at the first line only
DecidesOnFirst(reading) == powerup = "first" /\ reading = "number"

\* _check_powerup: "no real status yet; stay pending"
Decides(reading) == powerup \in Pending /\ reading = "number"

\* What becomes of the policy, which may find a stale set point
Judged(reading, idle) ==
  IF idle = "off" THEN "idled"
  ELSE IF Decides(reading) THEN "settled"
  ELSE IF powerup = "first" THEN "later" ELSE powerup

\* _on_line: the power-up policy (resume leaves the board alone), then the
\* completion action, then a guided cook that ends in keep-warm, all sent at
\* once; after them the tuner and the program post.  (The detector cannot
\* complete a cook on the first line it sees; CookSession says when it may.)
Status(reading) ==
  \E idle   \in {"none", "off"},
     finish \in {"none", "off", "auto"},
     guide  \in IF guided THEN {"on", "over", "warm"} ELSE {"none"},
     ts     \in IF tuner = "running" THEN TunerPosts ELSE {<<>>},
     due    \in IF program # 0 THEN BOOLEAN ELSE {FALSE} :
       /\ idle = "off" => Decides(reading) /\ reading = "number"
       /\ finish # "none" => powerup # "first"
       /\ powerup' = Judged(reading, idle)
       /\ \E b1 \in MaySend(board, idle) :
          \E b2 \in MaySend(b1, finish) :
             board' \in MaySend(b2, IF guide = "warm" THEN "auto" ELSE "none")
       /\ guided' = (guide = "on")
       /\ heard' = reading
       /\ tuner' = IF Ends(ts) THEN "done" ELSE tuner
       /\ program' = IF due THEN NextStage(program) ELSE program
       /\ Defers(Tail(queue), ts \o IF due THEN AdvancePosts(program) ELSE <<>>)
       /\ UNCHANGED <<up, halting>>

\* The deferred send.
Send(c) ==
  /\ board' \in Sent(board, c)
  /\ queue' = Tail(queue)
  /\ UNCHANGED <<up, heard, drivers, powerup, halting>>

LoopRuns ==
  /\ up
  /\ queue # <<>>
  /\ IF Head(queue).what = "line"
     THEN Status(Head(queue).line)
     ELSE Send(Head(queue).cmd)

-----------------------------------------------------------------------------
(* What the user asks for.  An API handler runs on the loop and sends at    *)
(* once; Home Assistant's set point comes from the MQTT thread.            *)

\* POST /api/setpoint and /api/manual, repeat_cook
UserSets(mode) ==
  /\ up
  /\ board' \in Sent(board, Cmd("other", mode))
  /\ UNCHANGED <<up, queue, heard, drivers, powerup, halting>>

\* POST /api/lid/open: resetLidOpenResumeCountdown enters RECOVERY from any
\* mode, and stores nothing
LidOpenNow ==
  /\ up
  /\ board' \in {[board EXCEPT !.mode = "auto", !.cmd = Cmd("other", "auto")],
                 Lost(board)}
  /\ UNCHANGED <<up, queue, heard, drivers, powerup, halting>>

\* mqtt_set_setpoint: a negative number is a manual output
MqttSets(mode) ==
  /\ up
  /\ Defers(queue, <<Cmd("other", mode)>>)
  /\ UNCHANGED <<up, heard, board, drivers, powerup, halting>>

\* set_units: the set point is sent again if the last status drove
SetUnits ==
  /\ up
  /\ heard = "number"
  /\ board' \in Sent(board, Cmd("other", "auto"))
  /\ UNCHANGED <<up, queue, heard, drivers, powerup, halting>>

\* start_guided_cook: one at a time
StartGuided ==
  /\ up
  /\ ~guided
  /\ board' \in Sent(board, Cmd("other", "auto"))
  /\ guided' = TRUE
  /\ UNCHANGED <<up, queue, heard, program, tuner, powerup, halting>>

StopGuided ==
  /\ guided
  /\ guided' = FALSE
  /\ UNCHANGED <<up, queue, heard, board, program, tuner, powerup, halting>>

\* start_program replaces a running one
StartProgram ==
  /\ up
  /\ program' = 1
  /\ Defers(queue, <<Stage(1)>>)
  /\ UNCHANGED <<up, heard, board, tuner, guided, powerup, halting>>

\* advance_now
AdvanceProgram ==
  /\ program # 0
  /\ program' = NextStage(program)
  /\ Defers(queue, AdvancePosts(program))
  /\ UNCHANGED <<up, heard, board, tuner, guided, powerup, halting>>

StopProgram ==
  /\ program # 0
  /\ program' = 0
  /\ UNCHANGED <<up, queue, heard, board, tuner, guided, powerup, halting>>

\* start_autotune: refused while one runs
StartTuner ==
  /\ up
  /\ tuner # "running"
  /\ tuner' = "running"
  /\ Defers(queue, <<Relay>>)
  /\ UNCHANGED <<up, heard, board, program, guided, powerup, halting>>

\* cancel_autotune, abort
CancelTuner ==
  /\ tuner = "running"
  /\ tuner' = "done"
  /\ Defers(queue, <<TunerEnd>>)
  /\ UNCHANGED <<up, heard, board, program, guided, powerup, halting>>

\* finish_cook: the completion action, on the user's word
FinishCook ==
  /\ up
  /\ \E finish \in {"none", "off", "auto"} : board' \in MaySend(board, finish)
  /\ UNCHANGED <<up, queue, heard, drivers, powerup, halting>>

\* shutdown_system: off, then a grace period
ShutdownSystem ==
  /\ up
  /\ board' \in Sent(board, Cmd("other", "off"))
  /\ halting' = TRUE
  /\ UNCHANGED <<up, queue, heard, drivers, powerup>>

\* The grace period ends: the request is acted on, or it was a dry run.
PowerOff ==
  /\ halting
  /\ \/ Die
     \/ /\ halting' = FALSE
        /\ UNCHANGED <<up, queue, heard, drivers, powerup>>
  /\ UNCHANGED board

-----------------------------------------------------------------------------

\* The board has run for a while; nothing is known of what set it.
Init ==
  /\ \E mode \in Mode, nv \in Mode :
       board = [mode |-> mode, nv |-> nv, cmd |-> Cmd("other", mode)]
  /\ up = FALSE
  /\ queue = <<>>
  /\ heard = "None"
  /\ program = 0
  /\ tuner = "none"
  /\ guided = FALSE
  /\ powerup = "none"
  /\ halting = FALSE

Next ==
  \/ Start
  \/ Stop
  \/ BoardReports
  \/ BoardReboots
  \/ LoopRuns
  \/ \E mode \in Mode : OperatorSets(mode) \/ UserSets(mode)
  \/ \E mode \in {"auto", "manual"} : MqttSets(mode)
  \/ LidOpenNow
  \/ SetUnits
  \/ StartGuided
  \/ StopGuided
  \/ StartProgram
  \/ AdvanceProgram
  \/ StopProgram
  \/ StartTuner
  \/ CancelTuner
  \/ FinishCook
  \/ ShutdownSystem
  \/ PowerOff

\* The board reports every second, and asyncio runs what it is given.
Fairness == WF_vars(BoardReports) /\ WF_vars(LoopRuns)

Spec     == Init /\ [][Next]_vars
FairSpec == Spec /\ Fairness

-----------------------------------------------------------------------------
(* Correctness.                                                            *)

\* The type of every variable.
TypeOK ==
  /\ up \in BOOLEAN
  /\ queue \in Seq(Callback)
  /\ Len(queue) <= MaxQueue
  /\ heard \in Reading
  /\ board \in [mode : Mode, nv : Mode, cmd : Command]
  /\ program \in 0 .. Stages
  /\ tuner \in {"none", "running", "done"}
  /\ guided \in BOOLEAN
  /\ powerup \in {"none", "first", "later", "idled", "settled"}
  /\ halting \in BOOLEAN

\* Nothing that by posted is still waiting.
NoneWaits(by) ==
  \A i \in DOMAIN queue : queue[i].what = "send" => queue[i].cmd.by # by

\* Programs start, advance, stop and replace one another, and their set points
\* reach the board late and mixed with everyone else's.  Whenever the board is
\* in the hands of the program and nothing of it waits, it runs the stage the
\* program is in, never one that is over or of a program that was replaced.
StageInForce ==
  program # 0 /\ NoneWaits("program") /\ board.cmd.by = "program"
  => board.cmd = Stage(program)

\* A tune that finished, was cancelled or aborted lets the board go: it never
\* leaves it, or its EEPROM, on a manual relay level, although the relay, the
\* end and the next tune may all wait at once.
TunerLetsGo ==
  tuner = "done" /\ NoneWaits("tuner") /\ board.cmd.by = "tuner"
  => board.mode = "auto" /\ board.nv = "auto"

\* The set point a board came back with does not stay in force while the
\* power-up policy waits: it goes, is resumed, or someone else sets the board.
StaleSetPointGoes ==
  up /\ powerup \in Pending /\ board.mode = "auto" /\ board.cmd.by = "boot"
  ~> \/ ~up
     \/ powerup = "settled"
     \/ board.mode # "auto" \/ board.cmd.by # "boot"

=============================================================================
