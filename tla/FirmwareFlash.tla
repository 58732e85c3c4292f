--------------------------- MODULE FirmwareFlash ---------------------------
(***************************************************************************)
(* The in-software firmware updater.  The daemon guards, snapshots the     *)
(* board's configuration, sends Off, closes the serial line and writes a   *)
(* request into a spool; a systemd path unit starts the root helper, which *)
(* takes a backup of the board, writes the image and leaves a result.  The *)
(* daemon polls for the result, or gives the job up after a while; either  *)
(* way it opens the line again and, when the job went well, sends the      *)
(* snapshot back and idles the cooker from timers it never cancels.        *)
(* Opening the line may fail, and a command may be lost on it: neither is  *)
(* noticed, and nothing is sent twice.                                     *)
(*                                                                         *)
(* An image is the version it is, or what an interrupted write leaves; a   *)
(* setting of the configuration is the user's or the default one.  The set *)
(* point in EEPROM drives the pit, so a reset lights the cooker.           *)
(***************************************************************************)
EXTENDS Naturals, Sequences

CONSTANTS
  Versions,    \* the images: those of the manifest, and what the board may run
  Format,      \* the EEPROM_MAGIC of each of them
  Settings,    \* the number of settings that are sent back
  MaxJobs      \* bound: flashes that are started

Torn  == "torn"    \* an image a write was interrupted in
Part  == "part"    \* a backup file that is not complete
NoHex == "no hex"

ASSUME VersionsAssumption ==
  /\ Versions # {}
  /\ Versions \cap {Torn, Part, NoHex} = {}
  /\ Format \in [Versions -> Nat]

ASSUME SettingsAssumption == Settings \in Nat \ {0}

ASSUME FlashBoundAssumption == MaxJobs \in Nat \ {0}

Jobs   == 1 .. MaxJobs
Image  == Versions \cup {Torn}

\* The settings in the order in which they are sent; the unit comes first, and
\* the command that idles the cooker last, which is also sent alone.
Setting == 1 .. Settings
Unit    == 1
Off     == Settings + 1

Config == [Setting -> {"user", "default"}]
Known  == [Setting -> {"user", "default", "unknown"}]

Nothing == [k \in Setting |-> "unknown"]

\* A request: a manifest image, or the backup of the job it rolls back to.
Flash(v)    == [action |-> "flash", image |-> v, hex |-> 0]
BackupOnly  == [action |-> "backup", image |-> NoHex, hex |-> 0]
Rollback(j) == [action |-> "rollback", image |-> NoHex, hex |-> j]
Request     == {Flash(v) : v \in Versions} \cup {BackupOnly}
               \cup {Rollback(j) : j \in Jobs}

\* A callback of loop.call_later; "send" goes on with a sequence: the command that
\* is next, and the settings the sequence was built from.
Timer == [what : {"poll", "pull", "restore", "off"}, job : 0 .. MaxJobs]
         \cup [what : {"send"}, job : 0 .. MaxJobs, next : Setting \cup {Off}, of : Known]

VARIABLES
  up,        \* the daemon runs
  job,       \* self.firmware_job, 0 when it is None
  status,    \* self.firmware_status, of the last job started
  paused,    \* the line is closed, or could not be opened again: commands are
             \* swallowed, lines unread
  driving,   \* the last status line: a PID mode, an output or a fan
  live,      \* the board's settings as the daemon knows them
  snap,      \* _fw_config_snapshot
  backup,    \* _fw_last_backup_hex, by the job that took it
  timers,    \* callbacks of loop.call_later that a flash set
  lost,      \* history: what was sent in vain after the last job
  asked,     \* the requests made so far, in order
  request,   \* request.json, 0 when it is not there
  noticed,   \* the path unit has an event to start the helper for
  results,   \* the result file of each job
  hexes,     \* the backup file of each job
  helper,    \* the step of hm-flash, and its job
  board      \* the image, its EEPROM, and what drives the pit

daemon == <<up, job, status, paused, driving, live, snap, backup, timers, lost>>
spool  == <<asked, request, noticed, results, hexes>>
vars   == <<daemon, spool, helper, board>>

-----------------------------------------------------------------------------
(* The board.                                                              *)

Alive(b) == b.ver # Torn

\* setup, eepromLoadConfig: an image of another format rewrites EEPROM with the
\* defaults; the stored set point is resumed
Boots(b, why) ==
  IF ~Alive(b) THEN [b EXCEPT !.lit = "no"]
  ELSE [ver |-> b.ver,
        fmt |-> Format[b.ver],
        cfg |-> [k \in Setting |-> IF Format[b.ver] = b.fmt THEN b.cfg[k] ELSE "default"],
        lit |-> why]

\* Whether a command that the daemon writes can be obeyed
Reaches == ~paused /\ Alive(board)

Idled == [board EXCEPT !.lit = "no"]

\* _fw_safe_send of a command of a job: the board obeys, or the command is lost, to
\* a closed line, a failed write or noise, and nobody knows.
Obeyed(b) == Reaches /\ board' = b /\ UNCHANGED lost
Loses(j, c) ==
  /\ UNCHANGED board
  /\ lost' = IF j = status.job THEN lost \cup {c} ELSE lost

\* The user sets the pit, on the panel or through the daemon.
UserSets(lit) ==
  /\ Alive(board)
  /\ board' = [board EXCEPT !.lit = lit]
  /\ UNCHANGED <<daemon, spool, helper>>

\* A status line: PID mode, output and fan
BoardReports ==
  /\ up
  /\ Reaches
  /\ driving' = (board.lit # "no")
  /\ UNCHANGED <<up, job, status, paused, live, snap, backup, timers, lost>>
  /\ UNCHANGED <<spool, helper, board>>

-----------------------------------------------------------------------------
(* The daemon asks.                                                        *)

\* start: the first pull
Start ==
  /\ ~up
  /\ up' = TRUE
  /\ timers' = {[what |-> "pull", job |-> 0]}
  /\ UNCHANGED <<job, status, paused, driving, live, snap, backup, lost>>
  /\ UNCHANGED <<spool, helper, board>>

\* Nothing of a job is stored: its result file stays, unread.
Die ==
  /\ up' = FALSE
  /\ job' = 0
  /\ status' = [state |-> "idle", job |-> 0]
  /\ paused' = FALSE
  /\ driving' = FALSE
  /\ live' = Nothing
  /\ snap' = Nothing
  /\ backup' = 0
  /\ timers' = {}
  /\ lost' = {}

Crash == up /\ Die /\ UNCHANGED <<spool, helper, board>>

\* preflight_guard: nothing heard yet passes; a tuner or a program that runs is
\* one more reason to refuse.
Preflight == ~driving

\* _snapshot_config: what the daemon knows now, which may be nothing but a unit,
\* taken for the default one
SnapshotConfig == [live EXCEPT ![Unit] = IF @ = "unknown" THEN "default" ELSE @]

\* The path unit watches for changes: one while the helper runs may be missed.
Notices == IF helper.at = "idle" THEN {TRUE} ELSE {noticed, TRUE}

\* request.json is written and the poll begins; or the write fails, and the job is
\* left without either.
HandsOver ==
  \/ /\ request' = job'
     /\ noticed' \in Notices
     /\ timers' = timers \cup {[what |-> "poll", job |-> job']}
  \/ UNCHANGED <<request, noticed, timers>>

\* start_firmware_flash.  Off is sent before the line is closed; the host's own
\* update, a flash that is still being written and the timers of the one before
\* are not looked at.
StartFlash(req) ==
  /\ up
  /\ job = 0
  /\ Preflight
  /\ Len(asked) < MaxJobs
  /\ req.action = "rollback" => backup # 0
  /\ asked' = Append(asked, req)
  /\ job' = Len(asked')
  /\ snap' = SnapshotConfig
  /\ board' \in {board} \cup IF Reaches THEN {Idled} ELSE {}
  /\ lost' = {}
  /\ paused' = TRUE
  /\ status' = [state |-> "flashing", job |-> job']
  /\ HandsOver
  /\ UNCHANGED <<up, driving, live, backup>>
  /\ UNCHANGED <<results, hexes, helper>>

-----------------------------------------------------------------------------
(* The daemon hears of the end, or does not.                               *)

\* Variant: any backup the job left is taken
KeepsAnyBackup(ok) == hexes[job] # NoHex

\* A flash that went well leaves the backup one can roll back to.
KeepsBackup(ok) == ok /\ asked[job].action = "flash" /\ hexes[job] # NoHex

\* Variant: nothing is restored after a rollback
AfterFlashOnly(ok) ==
  {[what |-> "pull", job |-> job]}
  \cup IF ok /\ asked[job].action = "flash" THEN {[what |-> "restore", job |-> job]} ELSE {}

\* Variant: the callback is named after the request
AfterAction(ok) == {[what |-> asked[job].action, job |-> job]}

\* The configuration is asked for again; when the job went well it is sent back
\* and the cooker idled, after a mere backup the cooker is idled.
After(ok) ==
  {[what |-> "pull", job |-> job]}
  \cup IF ~ok THEN {}
       ELSE {[what |-> IF asked[job].action = "backup" THEN "off" ELSE "restore",
              job  |-> job]}

PollTimer == [what |-> "poll", job |-> job]

\* _fw_finish; that the line cannot be opened again is swallowed.
Finish(ok) ==
  /\ paused' \in BOOLEAN
  /\ backup' = IF KeepsBackup(ok) THEN job ELSE backup
  /\ timers' = (timers \ {PollTimer}) \cup After(ok)
  /\ status' = [state |-> IF ok THEN "success" ELSE "error", job |-> job]
  /\ job' = 0
  /\ UNCHANGED <<up, driving, live, snap, lost, spool, helper, board>>

\* _fw_poll: the result of this job
PollResult ==
  /\ job # 0
  /\ PollTimer \in timers
  /\ results[job] # "none"
  /\ Finish(results[job] = "ok")

\* _fw_poll after 180 s; the helper may run for 240, or never have started.
PollTimesOut ==
  /\ job # 0
  /\ PollTimer \in timers
  /\ results[job] = "none"
  /\ Finish(FALSE)

Poll == PollResult \/ PollTimesOut

-----------------------------------------------------------------------------
(* What the daemon does after a flash.                                     *)

\* _request_config_retry asks every four seconds, until the board answered or
\* ten requests were lost; the chain is its last request, and what arrived of the
\* answer, which counts as received when its names did.
Pull(t) ==
  /\ t.what = "pull"
  /\ timers' = timers \ {t}
  /\ \E arrived \in SUBSET Setting :
       /\ Reaches \/ arrived = {}
       /\ live' = [k \in Setting |-> IF k \in arrived THEN board.cfg[k] ELSE live[k]]
  /\ UNCHANGED <<board, lost>>

\* Variant: a sequence that does not idle the cooker
IdlesNot(j, k, of) ==
  IF k < Settings THEN {[what |-> "send", job |-> j, next |-> k + 1, of |-> of]} ELSE {}

\* The rest of a sequence of _build_restore_commands: Off comes last.
Follows(j, k, of) ==
  IF k < Off THEN {[what |-> "send", job |-> j, next |-> k + 1, of |-> of]} ELSE {}

\* One setting, which the board echoes when it obeys; what is not known is not sent.
SendSetting(t, k, of) ==
  IF of[k] = "unknown" THEN UNCHANGED <<board, live, lost>>
  ELSE \/ /\ Obeyed([board EXCEPT !.cfg[k] = of[k]])
          /\ live' \in {live, [live EXCEPT ![k] = of[k]]}
       \/ Loses(t.job, k) /\ UNCHANGED live

\* The command that idles the cooker
SendIdle(t) == (Obeyed(Idled) \/ Loses(t.job, Off)) /\ UNCHANGED live

\* _fw_send_sequence: a command, and the rest later
SendSequence(t, k, of) ==
  /\ timers' = (timers \ {t}) \cup Follows(t.job, k, of)
  /\ IF k = Off THEN SendIdle(t) ELSE SendSetting(t, k, of)

\* _fw_restore_config: the sequence is built from the snapshot of the last job.
Restore(t) ==
  /\ t.what = "restore"
  /\ SendSequence(t, Unit, snap)

SendNext(t) ==
  /\ t.what = "send"
  /\ SendSequence(t, t.next, t.of)

\* The idle command of _fw_finish, after a mere backup
SendOff(t) ==
  /\ t.what = "off"
  /\ timers' = timers \ {t}
  /\ SendIdle(t)

\* A timer fires; the poll is Poll.  The helper is over before those that idle the
\* cooker: it needs two seconds to end, they have three and four.
Fire(t) ==
  /\ up
  /\ t \in timers
  /\ t.what # "pull" => helper # [at |-> "exit", job |-> t.job]
  /\ Pull(t) \/ Restore(t) \/ SendNext(t) \/ SendOff(t)
  /\ UNCHANGED <<up, job, status, paused, driving, snap, backup>>
  /\ UNCHANGED <<spool, helper>>

-----------------------------------------------------------------------------
(* deploy/hm-flash, one run at a time.                                     *)

HelperAt(at) == [helper EXCEPT !.at = at]

Asked == asked[helper.job]

\* The unit starts and the request is consumed; without one it just ends.
HelperStarts ==
  /\ helper.at = "idle"
  /\ noticed
  /\ noticed' = FALSE
  /\ request' = 0
  /\ helper' = IF request = 0 THEN helper ELSE [at |-> "gate", job |-> request]
  /\ UNCHANGED <<daemon, asked, results, hexes, board>>

\* The image is verified, SPI enabled, the signature read: avrdude holds the
\* board in reset and lets it go.  The backup begins.
HelperGates ==
  /\ helper.at = "gate"
  /\ board' = Boots(board, "reset")
  /\ hexes' = [hexes EXCEPT ![helper.job] = Part]
  /\ helper' = HelperAt("backup")
  /\ UNCHANGED <<daemon, asked, request, noticed, results>>

\* Variant: the result is written before the image is
OkBeforeWrite == [results EXCEPT ![helper.job] = "ok"]

\* A backup alone is a result, a flash has none yet.
OkAfterBackup ==
  IF Asked.action = "backup" THEN [results EXCEPT ![helper.job] = "ok"] ELSE results

HelperBacksUp ==
  /\ helper.at = "backup"
  /\ hexes' = [hexes EXCEPT ![helper.job] = board.ver]
  /\ results' = OkAfterBackup
  /\ helper' = HelperAt(IF Asked.action = "backup" THEN "exit" ELSE "write")
  /\ board' = Boots(board, "reset")
  /\ UNCHANGED <<daemon, asked, request, noticed>>

\* Variant: a rollback writes the backup that this run has just taken
WritesOwn == IF Asked.action = "rollback" THEN hexes[helper.job] ELSE Asked.image

\* What the helper writes: an image it verified, or the backup as it is
Written == IF Asked.action = "rollback" THEN hexes[Asked.hex] ELSE Asked.image

\* avrdude erases the chip ...
HelperErases ==
  /\ helper.at = "write"
  /\ board' = [board EXCEPT !.ver = Torn, !.lit = "no"]
  /\ helper' = HelperAt("writing")
  /\ UNCHANGED <<daemon, spool>>

\* ... and has written and verified it.
HelperWrites ==
  /\ helper.at = "writing"
  /\ board' = Boots([board EXCEPT !.ver = Written], "reset")
  /\ results' = [results EXCEPT ![helper.job] = "ok"]
  /\ helper' = HelperAt("exit")
  /\ UNCHANGED <<daemon, asked, request, noticed, hexes>>

\* set -e, a refusal with its own error result, or systemd after 240 s
HelperFails ==
  /\ helper.at \in {"gate", "backup", "write", "writing"}
  /\ helper' = HelperAt("exit")
  /\ results' \in {results, [results EXCEPT ![helper.job] = "error"]}
  /\ UNCHANGED <<daemon, asked, request, noticed, hexes, board>>

\* cleanup, the EXIT trap: SPI off and a pulse on the reset pin, on every path
HelperExits ==
  /\ helper.at = "exit"
  /\ results' = [results EXCEPT ![helper.job] = IF @ = "none" THEN "error" ELSE @]
  /\ board' = Boots(board, "reset")
  /\ helper' = [at |-> "idle", job |-> 0]
  /\ UNCHANGED <<daemon, asked, request, noticed, hexes>>

Helper ==
  \/ HelperStarts
  \/ HelperGates
  \/ HelperBacksUp
  \/ HelperErases
  \/ HelperWrites
  \/ HelperExits

\* The power of the host and the board goes and comes back.
PowerCut ==
  /\ Die
  /\ helper' = [at |-> "idle", job |-> 0]
  /\ board' = Boots(board, "power")
  /\ noticed' = FALSE
  /\ UNCHANGED <<asked, request, results, hexes>>

-----------------------------------------------------------------------------

\* The user's board, which idles or cooks, and an empty spool
Init ==
  /\ up = FALSE
  /\ job = 0
  /\ status = [state |-> "idle", job |-> 0]
  /\ paused = FALSE
  /\ driving = FALSE
  /\ live = Nothing
  /\ snap = Nothing
  /\ backup = 0
  /\ timers = {}
  /\ lost = {}
  /\ asked = <<>>
  /\ request = 0
  /\ noticed = FALSE
  /\ results = [j \in Jobs |-> "none"]
  /\ hexes = [j \in Jobs |-> NoHex]
  /\ helper = [at |-> "idle", job |-> 0]
  /\ \E v \in Versions, lit \in {"no", "user"} :
       board = [ver |-> v, fmt |-> Format[v], lit |-> lit,
                cfg |-> [k \in Setting |-> "user"]]

Next ==
  \/ Start
  \/ Crash
  \/ PowerCut
  \/ \E lit \in {"no", "user"} : UserSets(lit)
  \/ BoardReports
  \/ \E v \in Versions : StartFlash(Flash(v))
  \/ StartFlash(BackupOnly)
  \/ StartFlash(Rollback(backup))
  \/ Poll
  \/ \E t \in timers : Fire(t)
  \/ Helper
  \/ HelperFails

\* asyncio polls and goes on firing what it was given; the helper goes on, fails or
\* is killed, and systemd starts it when it noticed a request.
Fairness ==
  /\ WF_vars(Poll)
  /\ WF_vars(\E t \in timers : Fire(t))
  /\ WF_vars(Helper)

Spec     == Init /\ [][Next]_vars
FairSpec == Spec /\ Fairness

-----------------------------------------------------------------------------
(* Correctness.                                                            *)

\* The type of every variable.
TypeOK ==
  /\ up \in BOOLEAN
  /\ job \in 0 .. MaxJobs
  /\ status \in [state : {"idle", "flashing", "success", "error"}, job : 0 .. MaxJobs]
  /\ paused \in BOOLEAN
  /\ driving \in BOOLEAN
  /\ live \in Known
  /\ snap \in Known
  /\ backup \in 0 .. MaxJobs
  /\ timers \subseteq Timer
  /\ lost \subseteq Setting \cup {Off}
  /\ asked \in Seq(Request)
  /\ Len(asked) <= MaxJobs
  /\ request \in 0 .. MaxJobs
  /\ noticed \in BOOLEAN
  /\ results \in [Jobs -> {"none", "ok", "error"}]
  /\ hexes \in [Jobs -> Image \cup {NoHex, Part}]
  /\ helper \in [at  : {"idle", "gate", "backup", "write", "writing", "exit"},
                 job : 0 .. MaxJobs]
  /\ board \in [ver : Image,
                fmt : {Format[v] : v \in Versions},
                cfg : Config,
                lit : {"no", "user", "reset", "power"}]

\* What the job was to leave on the board
Target(req) == IF req.action = "rollback" THEN hexes[req.hex] ELSE req.image

\* When the daemon reports a flash or a rollback as a success, the board runs
\* exactly the image that was asked for, whatever jobs were given up, killed or
\* found late by the path unit before it.
SuccessIsOnBoard ==
  status.state = "success" /\ asked[status.job].action # "backup"
  => board.ver = Target(asked[status.job])

\* The image offered for a rollback is a complete reading of the board, never
\* the file of a backup that was cut short.
BackupIsWhole == backup # 0 => hexes[backup] \in Image

\* After a success the reset board, which resumes the set point in its EEPROM,
\* is idled again, unless the one command that idles it was lost, someone starts
\* the next flash or the daemon dies.
FireGoesOut ==
  status.state = "success" /\ board.lit = "reset"
  ~> board.lit # "reset" \/ Off \in lost \/ job # 0 \/ ~up

\* After a success each setting the daemon saved is back on a board whose EEPROM
\* was reset, unless the command for that very setting was lost or the next flash
\* starts before that: a sequence of an earlier job, a later answer or a command
\* lost beside it take nothing away.
ConfigReturns ==
  \A k \in Setting :
    status.state = "success" /\ asked[status.job].action # "backup" /\ snap[k] = "user"
    ~> board.cfg[k] = "user" \/ ~Alive(board) \/ k \in lost \/ job # 0 \/ ~up

-----------------------------------------------------------------------------
(* The ledger of flashes.                                                  *)

\* How a job stands, by the files of the spool and the helper that runs
Stand(j) ==
  IF j > Len(asked) THEN "unasked"
  ELSE IF results[j] # "none" THEN results[j]
  ELSE IF helper.job = j THEN "working"
  ELSE IF request = j THEN "waiting"
  ELSE "lost"

\* What a job is to leave, and what it read before
Goal(j)   == IF j > Len(asked) THEN NoHex ELSE Target(asked[j])
Before(j) == IF hexes[j] \in Image THEN hexes[j] ELSE NoHex

\* Daemon, spool and helper together keep what the updater promises: a job runs
\* once, the newest is run, an end stays, the image is erased only after it was
\* read and a rollback brings back what was there.
Ledger == INSTANCE FlashLedger WITH
            Job     <- Jobs,
            Version <- Versions,
            NoImage <- NoHex,
            goal    <- [j \in Jobs |-> Goal(j)],
            stand   <- [j \in Jobs |-> Stand(j)],
            before  <- [j \in Jobs |-> Before(j)],
            image   <- board.ver

KeepsFlashLedger == Ledger!Spec

-----------------------------------------------------------------------------
(* What the safety properties rest on.                                     *)

Works == helper.at \in {"gate", "backup", "write", "writing"}

\* The job of the status and of the daemon is the last one that was asked for; a
\* success has its result.
StatusIsOfLast ==
  /\ job # 0 => job = Len(asked)
  /\ status.state # "idle" => status.job = Len(asked) /\ asked # <<>>
  /\ status.state = "success" => results[status.job] = "ok"

\* The helper runs a job that was asked for; its files are there as far as it got.
HelperInOrder ==
  /\ helper.at = "idle" <=> helper.job = 0
  /\ helper.job <= Len(asked)
  /\ Works => results[helper.job] = "none"
  /\ helper.at \in {"write", "writing"} => /\ hexes[helper.job] \in Image
                                           /\ Asked.action # "backup"

\* A request that waits has not been touched, nor has the last job, which is that
\* one or could not be handed over; a job that was not asked for yet has no files.
RequestIsNew ==
  /\ request # 0 => /\ request <= Len(asked)
                    /\ results[request] = "none" /\ helper.job # request
                    /\ results[Len(asked)] = "none" /\ helper.job # Len(asked)
  /\ \A j \in Jobs : j > Len(asked) => results[j] = "none"

\* A job that went well has a whole backup, and so has one that is rolled back to.
OkIsWhole ==
  /\ \A j \in Jobs : results[j] = "ok" => hexes[j] \in Image
  /\ backup # 0 => results[backup] = "ok"
  /\ \A j \in DOMAIN asked :
       asked[j].action = "rollback" => asked[j].hex # 0 /\ results[asked[j].hex] = "ok"

\* When the last job wrote an image and went well, the board has that image and
\* no other run is on the way.
LastIsOnBoard ==
  LET n == Len(asked)
  IN  n # 0 /\ results[n] = "ok" /\ asked[n].action # "backup"
      => board.ver = Target(asked[n]) /\ helper.job \in {0, n}

IInv ==
  /\ StatusIsOfLast
  /\ HelperInOrder
  /\ RequestIsNew
  /\ OkIsWhole
  /\ LastIsOnBoard

\* A job that has not begun has no backup file, and one that reads the image has
\* none that is complete.
FilesAreNew ==
  /\ \A j \in Jobs : j > Len(asked) \/ j = request => hexes[j] = NoHex
  /\ helper.at = "gate" => hexes[helper.job] = NoHex
  /\ helper.at = "backup" => hexes[helper.job] = Part

=============================================================================
