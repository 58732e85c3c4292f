----------------------- MODULE FirmwareFlash_proofs -----------------------
(***************************************************************************)
(* Proofs about FirmwareFlash, for every set of images, every format of    *)
(* theirs, any number of settings and of jobs: its type invariant, the     *)
(* inductive invariant IInv, the two safety properties that follow from    *)
(* it, and that daemon, spool, helper and board implement FlashLedger.     *)
(***************************************************************************)
EXTENDS FirmwareFlash, TLAPS

-----------------------------------------------------------------------------
(* What the operators return.                                              *)

\* A request to flash names an image, a rollback names a job.
LEMMA RequestFacts ==
  ASSUME NEW r \in Request
  PROVE  /\ r.action \in {"flash", "backup", "rollback"}
         /\ r.action = "flash" => r.image \in Versions
         /\ r.action = "rollback" => r.hex \in Jobs
BY DEF Request, Flash, BackupOnly, Rollback

\* The requests one can make are requests.
LEMMA RequestsMade ==
  /\ \A v \in Versions : Flash(v) \in Request
  /\ BackupOnly \in Request
  /\ \A j \in Jobs : Rollback(j) \in Request
BY DEF Request

\* What the board may be
Board == [ver : Image, fmt : {Format[v] : v \in Versions}, cfg : Config,
          lit : {"no", "user", "reset", "power"}]

\* A boot leaves the image as it is.
LEMMA BootFacts ==
  ASSUME NEW b \in Board, NEW why \in {"reset", "power"}
  PROVE  Boots(b, why) \in Board /\ Boots(b, why).ver = b.ver
<1>1. CASE Alive(b)
  <2>1. b.ver \in Versions  BY <1>1 DEF Alive, Board, Image
  <2>2. Format[b.ver] \in {Format[v] : v \in Versions}  BY <2>1
  <2>3. \A k \in Setting : b.cfg[k] \in {"user", "default"}
    BY DEF Board, Config
  <2>4. [k \in Setting |-> IF Format[b.ver] = b.fmt THEN b.cfg[k] ELSE "default"] \in Config
    BY <2>3 DEF Config
  <2> QED  BY <1>1, <2>1, <2>2, <2>4 DEF Boots, Board, Image
<1>2. CASE ~Alive(b)
  BY <1>2 DEF Boots, Board
<1> QED  BY <1>1, <1>2

\* The requests made are requests, and their jobs are jobs.
LEMMA AskedFacts ==
  ASSUME TypeOK, NEW j \in 1 .. Len(asked)
  PROVE  asked[j] \in Request /\ j \in Jobs
BY FlashBoundAssumption DEF TypeOK, Jobs

\* One more request is the last, and the others stay.
LEMMA AppendFacts ==
  ASSUME TypeOK, NEW req \in Request, Len(asked) < MaxJobs
  PROVE  LET u == Append(asked, req)
         IN  /\ u \in Seq(Request)
             /\ Len(u) = Len(asked) + 1
             /\ Len(u) \in Jobs
             /\ u[Len(u)] = req
             /\ \A j \in 1 .. Len(asked) : u[j] = asked[j]
BY FlashBoundAssumption DEF TypeOK, Jobs

-----------------------------------------------------------------------------
(* The first states.                                                       *)

\* The types hold initially.
LEMMA InitType == Init => TypeOK
<1> SUFFICES ASSUME Init PROVE TypeOK
  OBVIOUS
<1>1. PICK v \in Versions, lit \in {"no", "user"} :
        board = [ver |-> v, fmt |-> Format[v], lit |-> lit,
                 cfg |-> [k \in Setting |-> "user"]]
  BY DEF Init
<1>2. board \in [ver : Image, fmt : {Format[w] : w \in Versions}, cfg : Config,
                 lit : {"no", "user", "reset", "power"}]
  <2>1. Format[v] \in {Format[w] : w \in Versions}  OBVIOUS
  <2> QED  BY <1>1, <2>1 DEF Image, Config
<1>3. /\ results \in [Jobs -> {"none", "ok", "error"}]
      /\ hexes \in [Jobs -> Image \cup {NoHex, Part}]
  BY DEF Init
<1>4. asked \in Seq(Request) /\ Len(asked) <= MaxJobs
  BY FlashBoundAssumption DEF Init
<1>5. /\ status \in [state : {"idle", "flashing", "success", "error"}, job : 0 .. MaxJobs]
      /\ helper \in [at  : {"idle", "gate", "backup", "write", "writing", "exit"},
                     job : 0 .. MaxJobs]
  BY FlashBoundAssumption DEF Init
<1>6. live \in Known /\ snap \in Known
  BY DEF Init, Nothing, Known
<1> QED  BY <1>2, <1>3, <1>4, <1>5, <1>6, FlashBoundAssumption DEF Init, TypeOK

\* The invariant holds initially.
LEMMA InitInv == Init => IInv
BY FlashBoundAssumption DEF Init, IInv, StatusIsOfLast, HelperInOrder, RequestIsNew,
   OkIsWhole, LastIsOnBoard, Works, Jobs

-----------------------------------------------------------------------------
(* The daemon's steps leave the spool and the helper alone.                *)

\* Such a step keeps the invariant when the job that is over is the last one, a
\* success has its result, and the backup offered is of a job that went well.
LEMMA DaemonStep ==
  ASSUME TypeOK, IInv, UNCHANGED <<spool, helper>>, board'.ver = board.ver,
         StatusIsOfLast', backup' # 0 => results[backup'] = "ok"
  PROVE  IInv'
<1>1. HelperInOrder' /\ RequestIsNew'
  BY DEF IInv, HelperInOrder, RequestIsNew, Works, Asked, spool
<1>2. OkIsWhole'
  BY DEF IInv, OkIsWhole, spool
<1>3. LastIsOnBoard'
  BY DEF IInv, LastIsOnBoard, Target, spool
<1> QED  BY <1>1, <1>2, <1>3 DEF IInv

\* A start of the daemon.
LEMMA StartStep == ASSUME TypeOK, IInv, Start PROVE TypeOK' /\ IInv'
<1>1. TypeOK'
  BY FlashBoundAssumption DEF Start, TypeOK, Timer, spool
<1>2. StatusIsOfLast'
  BY DEF Start, IInv, StatusIsOfLast, spool
<1> QED  BY <1>1, <1>2, DaemonStep DEF Start, IInv, OkIsWhole

\* A daemon that dies knows of no job.
LEMMA DieFacts ==
  ASSUME TypeOK, Die
  PROVE  /\ up' = FALSE /\ job' = 0 /\ status'.state = "idle" /\ backup' = 0
         /\ status' \in [state : {"idle", "flashing", "success", "error"},
                         job : 0 .. MaxJobs]
         /\ paused' \in BOOLEAN /\ driving' \in BOOLEAN
         /\ live' \in Known /\ snap' \in Known
         /\ timers' \subseteq Timer /\ lost' \subseteq Setting \cup {Off}
<1>1. status' \in [state : {"idle", "flashing", "success", "error"}, job : 0 .. MaxJobs]
  BY FlashBoundAssumption DEF Die
<1> QED  BY <1>1 DEF Die, Nothing, Known

LEMMA CrashStep == ASSUME TypeOK, IInv, Crash PROVE TypeOK' /\ IInv'
<1>1. TypeOK'
  <2>1. job' \in 0 .. MaxJobs /\ backup' \in 0 .. MaxJobs
    BY FlashBoundAssumption, DieFacts DEF Crash
  <2> QED  BY <2>1, DieFacts DEF Crash, TypeOK, spool
<1>2. StatusIsOfLast'
  BY DieFacts DEF Crash, StatusIsOfLast
<1> QED  BY <1>1, <1>2, DieFacts, DaemonStep DEF Crash

LEMMA UserSetsStep ==
  ASSUME TypeOK, IInv, NEW lit \in {"no", "user"}, UserSets(lit)
  PROVE  TypeOK' /\ IInv'
<1>1. TypeOK' /\ board'.ver = board.ver
  BY DEF UserSets, TypeOK, spool, daemon
<1>2. StatusIsOfLast'
  BY DEF UserSets, IInv, StatusIsOfLast, spool, daemon
<1> QED  BY <1>1, <1>2, DaemonStep DEF UserSets, IInv, OkIsWhole, daemon

LEMMA BoardReportsStep == ASSUME TypeOK, IInv, BoardReports PROVE TypeOK' /\ IInv'
<1>1. TypeOK'
  BY DEF BoardReports, TypeOK, spool
<1>2. StatusIsOfLast'
  BY DEF BoardReports, IInv, StatusIsOfLast, spool
<1> QED  BY <1>1, <1>2, DaemonStep DEF BoardReports, IInv, OkIsWhole

\* The callbacks of a flash are timers.
LEMMA AfterType == ASSUME TypeOK, NEW ok \in BOOLEAN PROVE After(ok) \subseteq Timer
BY DEF After, Timer, TypeOK

\* The daemon hears of a job's end, or gives it up.
LEMMA PollStep == ASSUME TypeOK, IInv, Poll PROVE TypeOK' /\ IInv'
<1>1. PICK ok \in BOOLEAN : job # 0 /\ Finish(ok) /\ (ok => results[job] = "ok")
  BY DEF Poll, PollResult, PollTimesOut
<1>2. job \in Jobs
  BY <1>1, FlashBoundAssumption DEF TypeOK, Jobs
<1>3. TypeOK'
  <2>1. timers' \subseteq Timer
    BY <1>1, AfterType DEF Finish, TypeOK
  <2>2. status' \in [state : {"idle", "flashing", "success", "error"}, job : 0 .. MaxJobs]
    BY <1>1 DEF Finish, TypeOK
  <2>3. job' = 0 /\ paused' \in BOOLEAN
    BY <1>1 DEF Finish
  <2>4. backup' \in {job, backup}
    BY <1>1 DEF Finish
  <2>5. job' \in 0 .. MaxJobs /\ backup' \in 0 .. MaxJobs
    BY <2>3, <2>4, FlashBoundAssumption DEF TypeOK
  <2> QED  BY <1>1, <2>1, <2>2, <2>3, <2>5 DEF Finish, TypeOK, spool
<1>4. StatusIsOfLast'
  <2>1. job = Len(asked) /\ asked # <<>>
    BY <1>1 DEF IInv, StatusIsOfLast, TypeOK
  <2> QED  BY <1>1, <2>1 DEF Finish, StatusIsOfLast, spool
<1>5. backup' # 0 => results[backup'] = "ok"
  BY <1>1 DEF Finish, KeepsBackup, IInv, OkIsWhole
<1> QED  BY <1>1, <1>3, <1>4, <1>5, DaemonStep DEF Finish

\* The command that idles the cooker leaves the image.
LEMMA IdleFacts ==
  ASSUME TypeOK, NEW t, SendIdle(t)
  PROVE  /\ live' \in Known /\ board' \in Board
         /\ board'.ver = board.ver /\ lost' \subseteq Setting \cup {Off}
<1>1. Idled \in Board /\ Idled.ver = board.ver /\ board \in Board
  BY DEF Idled, Board, TypeOK
<1> QED  BY <1>1 DEF SendIdle, Obeyed, Loses, TypeOK

\* So does a setting; what is obeyed or echoed is one of those sent.
LEMMA SendFacts ==
  ASSUME TypeOK, NEW t, NEW k \in Setting \cup {Off}, NEW of \in Known, t.job \in 0 .. MaxJobs,
         SendSequence(t, k, of)
  PROVE  /\ timers' \subseteq Timer /\ live' \in Known /\ board' \in Board
         /\ board'.ver = board.ver /\ lost' \subseteq Setting \cup {Off}
<1>1. Follows(t.job, k, of) \subseteq Timer
  <2>1. k < Off => k + 1 \in Setting \cup {Off}
    BY SettingsAssumption DEF Setting, Off
  <2> QED  BY <2>1 DEF Follows, Timer
<1>2. timers' \subseteq Timer
  BY <1>1 DEF SendSequence, TypeOK
<1>3. CASE k = Off
  BY <1>2, <1>3, IdleFacts DEF SendSequence
<1>4. CASE k # Off
  <2>1. SendSetting(t, k, of) /\ k \in Setting
    BY <1>4 DEF SendSequence
  <2>2. CASE of[k] = "unknown"
    BY <1>2, <2>1, <2>2 DEF SendSetting, TypeOK, Board
  <2>3. CASE of[k] # "unknown"
    <3>1. of[k] \in {"user", "default"}
      BY <2>1, <2>3 DEF Known
    <3>2. [board.cfg EXCEPT ![k] = of[k]] \in Config /\ [live EXCEPT ![k] = of[k]] \in Known
      BY <2>1, <3>1 DEF TypeOK, Config, Known
    <3>3. [board EXCEPT !.cfg[k] = of[k]] \in Board /\ [board EXCEPT !.cfg[k] = of[k]].ver = board.ver
      BY <3>2 DEF TypeOK, Board
    <3>4. CASE Obeyed([board EXCEPT !.cfg[k] = of[k]]) /\ live' \in {live, [live EXCEPT ![k] = of[k]]}
      BY <1>2, <3>2, <3>3, <3>4 DEF Obeyed, TypeOK
    <3>5. CASE Loses(t.job, k) /\ UNCHANGED live
      BY <1>2, <2>1, <3>5 DEF Loses, TypeOK, Board
    <3> QED  BY <2>1, <2>3, <3>4, <3>5 DEF SendSetting
  <2> QED  BY <2>2, <2>3
<1> QED  BY <1>3, <1>4

\* Nor does any other timer write an image.
LEMMA FireFacts ==
  ASSUME TypeOK, NEW t \in timers, Fire(t)
  PROVE  /\ timers' \subseteq Timer /\ live' \in Known /\ board' \in Board
         /\ board'.ver = board.ver /\ lost' \subseteq Setting \cup {Off}
<1>1. t \in Timer
  BY DEF TypeOK
<1>2. board \in Board
  BY DEF TypeOK, Board
<1>3. CASE Pull(t)
  <2>1. PICK arrived \in SUBSET Setting :
          live' = [k \in Setting |-> IF k \in arrived THEN board.cfg[k] ELSE live[k]]
    BY <1>3 DEF Pull
  <2>2. \A k \in Setting : /\ board.cfg[k] \in {"user", "default", "unknown"}
                           /\ live[k] \in {"user", "default", "unknown"}
    BY DEF TypeOK, Config, Known
  <2>3. live' \in Known
    BY <2>1, <2>2 DEF Known
  <2> QED  BY <1>2, <1>3, <2>3 DEF Pull, TypeOK
<1>4. CASE Restore(t)
  <2>1. t.job \in 0 .. MaxJobs
    BY <1>1 DEF Timer
  <2>2. Unit \in Setting \cup {Off} /\ snap \in Known
    BY SettingsAssumption DEF Unit, Setting, TypeOK
  <2> QED  BY <1>4, <2>1, <2>2, SendFacts DEF Restore
<1>5. CASE SendNext(t)
  <2>1. t.job \in 0 .. MaxJobs /\ t.next \in Setting \cup {Off} /\ t.of \in Known
    <3>1. t.what = "send"
      BY <1>5 DEF SendNext
    <3> QED  BY <1>1, <3>1 DEF Timer
  <2> QED  BY <1>5, <2>1, SendFacts DEF SendNext
<1>6. CASE SendOff(t)
  <2>1. timers' \subseteq Timer
    BY <1>6 DEF SendOff, TypeOK
  <2> QED  BY <1>6, <2>1, IdleFacts DEF SendOff
<1> QED  BY <1>3, <1>4, <1>5, <1>6 DEF Fire

LEMMA FireStep ==
  ASSUME TypeOK, IInv, NEW t \in timers, Fire(t)
  PROVE  TypeOK' /\ IInv'
<1>1. TypeOK'
  BY FireFacts DEF Fire, TypeOK, spool, Board
<1>2. StatusIsOfLast'
  BY DEF Fire, IInv, StatusIsOfLast, spool
<1> QED  BY <1>1, <1>2, FireFacts, DaemonStep DEF Fire, IInv, OkIsWhole

\* A request is made: the files of the new job are not there yet.
LEMMA StartFlashStep ==
  ASSUME TypeOK, IInv, NEW req \in Request, StartFlash(req),
         req.action = "rollback" => req.hex = backup
  PROVE  TypeOK' /\ IInv'
<1> DEFINE n == Len(asked) + 1
<1>1. /\ asked' \in Seq(Request) /\ Len(asked') = n /\ n \in Jobs /\ asked'[n] = req
      /\ \A j \in 1 .. Len(asked) : asked'[j] = asked[j]
      /\ DOMAIN asked' = 1 .. n /\ DOMAIN asked = 1 .. Len(asked) /\ Len(asked) \in Nat
  <2>1. Len(asked) < MaxJobs /\ asked' = Append(asked, req)
    BY DEF StartFlash
  <2> QED  BY <2>1, AppendFacts DEF TypeOK
<1>2. /\ job' = n /\ status' = [state |-> "flashing", job |-> n]
      /\ board' \in {board, Idled} /\ snap' = SnapshotConfig /\ paused' = TRUE /\ lost' = {}
      /\ request' \in {n, request}
      /\ UNCHANGED <<up, driving, live, backup, results, hexes, helper>>
  BY <1>1 DEF StartFlash, HandsOver
<1>3. noticed' \in BOOLEAN
  BY DEF StartFlash, HandsOver, Notices, TypeOK
<1> HIDE DEF n
<1>4. TypeOK'
  <2>1. n \in 0 .. MaxJobs /\ Len(asked') <= MaxJobs
    BY <1>1, FlashBoundAssumption DEF Jobs
  <2>2. board' \in [ver : Image, fmt : {Format[v] : v \in Versions}, cfg : Config,
                    lit : {"no", "user", "reset", "power"}]
    BY <1>2 DEF TypeOK, Idled
  <2>3. status' \in [state : {"idle", "flashing", "success", "error"}, job : 0 .. MaxJobs]
    BY <1>2, <2>1
  <2>4. snap' \in Known
    BY <1>2 DEF SnapshotConfig, TypeOK, Known
  <2>5. timers' \subseteq Timer
    <3>1. [what |-> "poll", job |-> n] \in Timer
      BY <2>1 DEF Timer
    <3> QED  BY <1>2, <3>1 DEF StartFlash, HandsOver, TypeOK
  <2>6. request' \in 0 .. MaxJobs
    BY <1>2, <2>1 DEF TypeOK
  <2> QED  BY <1>1, <1>2, <1>3, <2>1, <2>2, <2>3, <2>4, <2>5, <2>6 DEF TypeOK
<1>5. results[n] = "none"
  BY <1>1 DEF IInv, RequestIsNew, n
<1>6. StatusIsOfLast'
  BY <1>1, <1>2 DEF StatusIsOfLast, n
<1>7. HelperInOrder'
  <2>1. helper.job <= Len(asked) /\ helper.job \in Nat
    BY DEF IInv, HelperInOrder, TypeOK
  <2>2. helper.job # 0 => asked'[helper.job] = asked[helper.job]
    BY <1>1, <2>1
  <2> QED  BY <1>1, <1>2, <2>1, <2>2 DEF IInv, HelperInOrder, Works, Asked, n
<1>8. RequestIsNew'
  <2>1. helper.job # n
    BY <1>1 DEF IInv, HelperInOrder, TypeOK, n
  <2>2. \A j \in Jobs : j > n => results[j] = "none"
    BY <1>1 DEF IInv, RequestIsNew, Jobs, n
  <2>3. request # 0 => /\ request <= n /\ results[request] = "none"
                       /\ helper.job # request
    BY <1>1 DEF IInv, RequestIsNew, TypeOK, n
  <2> QED  BY <1>1, <1>2, <1>5, <2>1, <2>2, <2>3 DEF RequestIsNew, TypeOK
<1>9. OkIsWhole'
  <2>1. \A j \in DOMAIN asked' :
          asked'[j].action = "rollback" => asked'[j].hex # 0 /\ results[asked'[j].hex] = "ok"
    <3> TAKE j \in DOMAIN asked'
    <3>1. CASE j = n
      <4>1. req.action = "rollback" => req.hex # 0 /\ results[req.hex] = "ok"
        BY DEF StartFlash, IInv, OkIsWhole
      <4> QED  BY <1>1, <3>1, <4>1
    <3>2. CASE j # n
      BY <1>1, <3>2 DEF IInv, OkIsWhole, n
    <3> QED  BY <3>1, <3>2
  <2> QED  BY <1>2, <2>1 DEF IInv, OkIsWhole
<1>10. LastIsOnBoard'
  BY <1>1, <1>2, <1>5 DEF LastIsOnBoard
<1> QED  BY <1>4, <1>6, <1>7, <1>8, <1>9, <1>10 DEF IInv

-----------------------------------------------------------------------------
(* The helper.                                                             *)

\* A step of a job whose result is still to come: the results of the others stay,
\* and those that went well keep their backup and the image on the board.
LEMMA WorkStep ==
  ASSUME TypeOK, IInv, Works,
         UNCHANGED <<daemon, asked, request>>,
         noticed' \in BOOLEAN,
         NEW r \in {"none", "ok", "error"},
         results' = [results EXCEPT ![helper.job] = r],
         NEW h \in Image \cup {NoHex, Part},
         hexes' = [hexes EXCEPT ![helper.job] = h],
         NEW at \in {"gate", "backup", "write", "writing", "exit"},
         helper' = HelperAt(at),
         at # "exit" => r = "none",
         at \in {"write", "writing"} => h \in Image /\ Asked.action # "backup",
         r = "ok" => h \in Image,
         r = "ok" /\ Asked.action # "backup" => board'.ver = Target(Asked),
         board' \in Board
  PROVE  TypeOK' /\ IInv'
<1> DEFINE k == helper.job
<1>1. /\ k \in 1 .. Len(asked) /\ k \in Jobs /\ results[k] = "none" /\ request # k
      /\ asked[k] \in Request
  <2>1. k \in 1 .. Len(asked) /\ results[k] = "none"
    BY DEF IInv, HelperInOrder, Works, TypeOK
  <2>2. request # k
    BY <2>1 DEF IInv, RequestIsNew
  <2> QED  BY <2>1, <2>2, AskedFacts
<1>2. helper' = [at |-> at, job |-> k]
  BY DEF HelperAt, TypeOK
<1>3. /\ results' \in [Jobs -> {"none", "ok", "error"}]
      /\ results'[k] = r /\ \A j \in Jobs \ {k} : results'[j] = results[j]
      /\ hexes' \in [Jobs -> Image \cup {NoHex, Part}]
      /\ hexes'[k] = h /\ \A j \in Jobs \ {k} : hexes'[j] = hexes[j]
  BY <1>1 DEF TypeOK
<1>4. asked' = asked /\ request' = request /\ job' = job /\ status' = status /\ backup' = backup
  BY DEF daemon
<1> HIDE DEF k
<1>5. TypeOK'
  <2>1. helper' \in [at : {"idle", "gate", "backup", "write", "writing", "exit"},
                     job : 0 .. MaxJobs]
    BY <1>1, <1>2 DEF Jobs
  <2> QED  BY <1>3, <2>1 DEF TypeOK, daemon, Board
<1>6. StatusIsOfLast'
  BY <1>1, <1>3, <1>4 DEF IInv, StatusIsOfLast, TypeOK, Jobs
<1>7. HelperInOrder'
  <2>1. Asked' = Asked
    BY <1>1, <1>2, <1>4 DEF Asked, k
  <2> QED  BY <1>1, <1>2, <1>3, <1>4, <2>1 DEF IInv, HelperInOrder, Works
<1>8. RequestIsNew'
  <2>1. request # 0 => /\ request \in Jobs /\ Len(asked) \in Jobs
                       /\ request <= Len(asked)
                       /\ results[request] = "none" /\ k # request
                       /\ results[Len(asked)] = "none" /\ k # Len(asked)
    BY DEF IInv, RequestIsNew, TypeOK, Jobs, k
  <2>2. \A j \in Jobs : j > Len(asked) => j # k /\ results[j] = "none"
    BY <1>1 DEF IInv, RequestIsNew
  <2>3. helper'.job = k
    BY <1>2
  <2> QED  BY <1>3, <1>4, <2>1, <2>2, <2>3 DEF RequestIsNew
\* what went well is another job
<1>9. \A j \in Jobs : results[j] = "ok" => results'[j] = "ok" /\ hexes'[j] = hexes[j]
  BY <1>1, <1>3
<1>10. \A j \in 1 .. Len(asked) :
         asked[j].action = "rollback" => asked[j].hex \in Jobs /\ results[asked[j].hex] = "ok"
  <2> TAKE j \in 1 .. Len(asked)
  <2>1. asked[j] \in Request  BY AskedFacts
  <2> QED  BY <2>1, RequestFacts DEF IInv, OkIsWhole, TypeOK
<1>11. OkIsWhole'
  <2>1. \A j \in Jobs : results'[j] = "ok" => hexes'[j] \in Image
    BY <1>3, <1>9 DEF IInv, OkIsWhole
  <2>2. backup' # 0 => results'[backup'] = "ok"
    BY <1>4, <1>9 DEF IInv, OkIsWhole, TypeOK, Jobs
  <2>3. \A j \in DOMAIN asked :
          asked[j].action = "rollback" => asked[j].hex # 0 /\ results'[asked[j].hex] = "ok"
    BY <1>9, <1>10 DEF TypeOK, Jobs
  <2> QED  BY <1>4, <2>1, <2>2, <2>3 DEF OkIsWhole
<1>12. \A j \in 1 .. Len(asked) : Target(asked[j])' = Target(asked[j])
  BY <1>4, <1>9, <1>10 DEF Target
<1>13. LastIsOnBoard'
  <2> DEFINE n == Len(asked)
  <2>1. n # 0 => n \in 1 .. Len(asked) /\ n \in Jobs
    BY AskedFacts DEF TypeOK
  <2> HIDE DEF n
  <2>2. CASE n = k
    BY <1>1, <1>2, <1>3, <1>4, <1>12, <2>1, <2>2 DEF LastIsOnBoard, Asked, k, n
  <2>3. CASE n # k
    <3>1. ~(n # 0 /\ results[n] = "ok" /\ asked[n].action # "backup")
      BY <1>1, <2>3 DEF IInv, LastIsOnBoard, k, n, Jobs
    <3> QED  BY <1>3, <1>4, <2>1, <2>3, <3>1 DEF LastIsOnBoard, n
  <2> QED  BY <2>2, <2>3
<1> QED  BY <1>5, <1>6, <1>7, <1>8, <1>11, <1>13 DEF IInv

\* The job at work was asked for and has no result.
LEMMA WorksFacts ==
  ASSUME TypeOK, IInv, Works
  PROVE  /\ helper.job \in Jobs /\ helper.job \in 1 .. Len(asked)
         /\ Asked \in Request
         /\ results[helper.job] = "none"
         /\ results = [results EXCEPT ![helper.job] = "none"]
         /\ hexes = [hexes EXCEPT ![helper.job] = hexes[helper.job]]
         /\ hexes[helper.job] \in Image \cup {NoHex, Part}
<1>1. helper.job \in 1 .. Len(asked) /\ results[helper.job] = "none"
  BY DEF IInv, HelperInOrder, Works, TypeOK
<1>2. helper.job \in Jobs /\ asked[helper.job] \in Request
  BY <1>1, AskedFacts
<1> QED  BY <1>1, <1>2 DEF TypeOK, Asked

\* A request that is picked up has no result yet.
LEMMA HelperStartsStep == ASSUME TypeOK, IInv, HelperStarts PROVE TypeOK' /\ IInv'
<1>1. TypeOK'
  <2>1. request' = 0 /\ noticed' = FALSE
    BY DEF HelperStarts
  <2>2. helper' \in [at : {"idle", "gate", "backup", "write", "writing", "exit"},
                     job : 0 .. MaxJobs]
    BY DEF HelperStarts, TypeOK
  <2>3. 0 \in 0 .. MaxJobs
    BY FlashBoundAssumption
  <2> QED  BY <2>1, <2>2, <2>3 DEF HelperStarts, TypeOK, daemon
<1>2. helper.job = 0
  BY DEF HelperStarts, IInv, HelperInOrder
<1>3. CASE request = 0
  <2>1. helper' = helper /\ request' = 0
    BY <1>3 DEF HelperStarts
  <2> QED
    BY <1>1, <1>2, <2>1 DEF HelperStarts, daemon, IInv, StatusIsOfLast, HelperInOrder,
       RequestIsNew, OkIsWhole, LastIsOnBoard, Works, Asked, Target
<1>4. CASE request # 0
  <2>1. /\ helper' = [at |-> "gate", job |-> request] /\ request' = 0
        /\ request <= Len(asked) /\ results[request] = "none" /\ results[Len(asked)] = "none"
    BY <1>4 DEF HelperStarts, IInv, RequestIsNew
  <2>2. HelperInOrder'
    BY <1>4, <2>1 DEF HelperStarts, HelperInOrder, Works, TypeOK
  <2> QED
    BY <1>1, <1>4, <2>1, <2>2 DEF HelperStarts, daemon, IInv, StatusIsOfLast,
       RequestIsNew, OkIsWhole, LastIsOnBoard, Target
<1> QED  BY <1>3, <1>4

\* The board is reset, and a backup begins.
LEMMA HelperGatesStep == ASSUME TypeOK, IInv, HelperGates PROVE TypeOK' /\ IInv'
<1>1. Works
  BY DEF HelperGates, Works
<1>2. board' \in Board
  BY BootFacts DEF HelperGates, TypeOK, Board
<1> QED  BY <1>1, <1>2, WorksFacts, WorkStep DEF HelperGates, TypeOK

\* The backup is the image of the board.
LEMMA HelperBacksUpStep == ASSUME TypeOK, IInv, HelperBacksUp PROVE TypeOK' /\ IInv'
<1>1. Works
  BY DEF HelperBacksUp, Works
<1>2. board' \in Board
  BY BootFacts DEF HelperBacksUp, TypeOK, Board
<1>3. board.ver \in Image /\ noticed \in BOOLEAN
  BY DEF TypeOK
<1>4. CASE Asked.action = "backup"
  <2>1. results' = [results EXCEPT ![helper.job] = "ok"] /\ helper' = HelperAt("exit")
    BY <1>4 DEF HelperBacksUp, OkAfterBackup
  <2> QED  BY <1>1, <1>2, <1>3, <1>4, <2>1, WorkStep DEF HelperBacksUp
<1>5. CASE Asked.action # "backup"
  <2>1. results' = [results EXCEPT ![helper.job] = "none"] /\ helper' = HelperAt("write")
    BY <1>1, <1>5, WorksFacts DEF HelperBacksUp, OkAfterBackup
  <2> QED  BY <1>1, <1>2, <1>3, <1>5, <2>1, WorkStep DEF HelperBacksUp
<1> QED  BY <1>4, <1>5

\* The chip is erased; nothing went well yet.
LEMMA HelperErasesStep == ASSUME TypeOK, IInv, HelperErases PROVE TypeOK' /\ IInv'
<1>1. Works
  BY DEF HelperErases, Works
<1>2. board' \in Board
  BY DEF HelperErases, TypeOK, Board, Image
<1>3. hexes[helper.job] \in Image /\ Asked.action # "backup" /\ noticed \in BOOLEAN
  BY DEF HelperErases, IInv, HelperInOrder, TypeOK
<1> QED  BY <1>1, <1>2, <1>3, WorksFacts, WorkStep DEF HelperErases, spool

\* The image is the one asked for.
LEMMA HelperWritesStep == ASSUME TypeOK, IInv, HelperWrites PROVE TypeOK' /\ IInv'
<1>1. Works
  BY DEF HelperWrites, Works
<1>2. hexes[helper.job] \in Image /\ Asked.action # "backup" /\ noticed \in BOOLEAN
  BY DEF HelperWrites, IInv, HelperInOrder, TypeOK
<1>3. Written \in Image /\ Written = Target(Asked)
  <2>1. Asked \in Request /\ helper.job \in DOMAIN asked
    BY <1>1, WorksFacts DEF TypeOK
  <2>2. CASE Asked.action = "rollback"
    <3>1. Asked.hex \in Jobs /\ results[Asked.hex] = "ok"
      BY <2>1, <2>2, RequestFacts DEF IInv, OkIsWhole, Asked
    <3> QED  BY <2>2, <3>1 DEF IInv, OkIsWhole, Written, Target
  <2>3. CASE Asked.action = "flash"
    BY <2>1, <2>3, RequestFacts DEF Written, Target, Image
  <2> QED  BY <1>2, <2>1, <2>2, <2>3, RequestFacts
<1>4. board' \in Board /\ board'.ver = Written
  <2>1. [board EXCEPT !.ver = Written] \in Board
    BY <1>3 DEF TypeOK, Board
  <2>2. [board EXCEPT !.ver = Written].ver = Written
    BY DEF TypeOK
  <2> QED  BY <2>1, <2>2, BootFacts DEF HelperWrites
<1> QED  BY <1>1, <1>2, <1>3, <1>4, WorksFacts, WorkStep DEF HelperWrites

\* A helper that fails leaves an error or nothing.
LEMMA HelperFailsStep == ASSUME TypeOK, IInv, HelperFails PROVE TypeOK' /\ IInv'
<1>1. Works
  BY DEF HelperFails, Works
<1>2. board' \in Board /\ noticed \in BOOLEAN
  BY DEF HelperFails, TypeOK, Board
<1>3. PICK r \in {"none", "error"} : results' = [results EXCEPT ![helper.job] = r]
  BY <1>1, WorksFacts DEF HelperFails
<1> QED  BY <1>1, <1>2, <1>3, WorksFacts, WorkStep DEF HelperFails

\* A step at which the helper's run is over: no result that is there changes, and
\* the board keeps its image.
LEMMA EndStep ==
  ASSUME TypeOK, IInv, UNCHANGED <<asked, request, hexes>>,
         results' \in [Jobs -> {"none", "ok", "error"}],
         \A j \in Jobs : results'[j] = results[j]
                        \/ (j = helper.job /\ results[j] = "none" /\ results'[j] = "error"),
         board'.ver = board.ver,
         helper' = [at |-> "idle", job |-> 0],
         StatusIsOfLast', backup' # 0 => backup' = backup
  PROVE  IInv'
<1>1. HelperInOrder'
  BY DEF HelperInOrder, Works, TypeOK
<1>2. RequestIsNew'
  <2>1. \A j \in Jobs : j > Len(asked) => j # helper.job
    BY DEF IInv, HelperInOrder, TypeOK, Jobs
  <2>2. request # 0 => /\ request \in Jobs /\ Len(asked) \in Jobs
                       /\ request <= Len(asked)
                       /\ results[request] = "none" /\ helper.job # request
                       /\ results[Len(asked)] = "none" /\ helper.job # Len(asked)
    BY DEF IInv, RequestIsNew, TypeOK, Jobs
  <2>3. \A j \in Jobs : j > Len(asked) => results[j] = "none"
    BY DEF IInv, RequestIsNew
  <2>4. request # 0 => /\ results'[request] = "none" /\ helper'.job # request
                       /\ results'[Len(asked)] = "none" /\ helper'.job # Len(asked)
    BY <2>2 DEF Jobs
  <2> QED  BY <2>1, <2>2, <2>3, <2>4 DEF RequestIsNew
<1>3. \A j \in DOMAIN asked : asked[j].action = "rollback" => asked[j].hex \in Jobs
  BY AskedFacts, RequestFacts DEF TypeOK
<1>4. backup # 0 => backup \in Jobs
  BY DEF TypeOK, Jobs
<1>5. OkIsWhole'
  BY <1>3, <1>4 DEF IInv, OkIsWhole
<1>6. LastIsOnBoard'
  <2>1. Len(asked) # 0 => Len(asked) \in Jobs
    BY AskedFacts DEF TypeOK
  <2> QED  BY <2>1 DEF IInv, LastIsOnBoard, Target
<1> QED  BY <1>1, <1>2, <1>5, <1>6 DEF IInv

\* The helper ends, and a job without a result has failed.
LEMMA HelperExitsStep == ASSUME TypeOK, IInv, HelperExits PROVE TypeOK' /\ IInv'
<1>1. board' \in Board /\ board'.ver = board.ver
  BY BootFacts DEF HelperExits, TypeOK, Board
<1>2. helper.job \in Jobs
  BY DEF HelperExits, IInv, HelperInOrder, TypeOK, Jobs
<1>3. /\ results' \in [Jobs -> {"none", "ok", "error"}]
      /\ \A j \in Jobs : results'[j] = results[j]
                        \/ (j = helper.job /\ results[j] = "none" /\ results'[j] = "error")
  <2> DEFINE r == IF results[helper.job] = "none" THEN "error" ELSE results[helper.job]
  <2>1. results' = [results EXCEPT ![helper.job] = r]
    BY DEF HelperExits
  <2>2. results \in [Jobs -> {"none", "ok", "error"}] /\ r \in {"ok", "error"}
    BY <1>2 DEF TypeOK
  <2>3. r = results[helper.job] \/ (results[helper.job] = "none" /\ r = "error")
    OBVIOUS
  <2> HIDE DEF r
  <2> QED  BY <1>2, <2>1, <2>2, <2>3
<1>4. TypeOK'
  <2>1. helper' \in [at : {"idle", "gate", "backup", "write", "writing", "exit"},
                     job : 0 .. MaxJobs]
    BY FlashBoundAssumption DEF HelperExits
  <2> QED  BY <1>1, <1>3, <2>1 DEF HelperExits, TypeOK, daemon, Board
<1>5. StatusIsOfLast'
  <2>1. status.state = "success" => status.job \in Jobs
    BY DEF IInv, StatusIsOfLast, TypeOK, Jobs
  <2> QED  BY <1>3, <2>1 DEF HelperExits, IInv, StatusIsOfLast, daemon
<1> QED  BY <1>1, <1>3, <1>4, <1>5, EndStep DEF HelperExits, daemon

\* After a power cut nothing is at work and no job is known.
LEMMA PowerCutStep == ASSUME TypeOK, IInv, PowerCut PROVE TypeOK' /\ IInv'
<1>1. board' \in Board /\ board'.ver = board.ver
  BY BootFacts DEF PowerCut, TypeOK, Board
<1>2. TypeOK'
  <2>1. job' \in 0 .. MaxJobs /\ backup' \in 0 .. MaxJobs
    BY FlashBoundAssumption, DieFacts DEF PowerCut
  <2>2. helper' \in [at : {"idle", "gate", "backup", "write", "writing", "exit"},
                     job : 0 .. MaxJobs]
    BY FlashBoundAssumption DEF PowerCut
  <2> QED  BY <1>1, <2>1, <2>2, DieFacts DEF PowerCut, TypeOK, Board
<1>3. StatusIsOfLast'
  BY DieFacts DEF PowerCut, StatusIsOfLast
<1>4. UNCHANGED <<asked, request, hexes, results>> /\ helper' = [at |-> "idle", job |-> 0]
  BY DEF PowerCut
<1>5. backup' = 0
  BY DieFacts DEF PowerCut
<1>6. results' \in [Jobs -> {"none", "ok", "error"}]
  BY <1>4 DEF TypeOK
<1> QED  BY <1>1, <1>2, <1>3, <1>4, <1>5, <1>6, EndStep

-----------------------------------------------------------------------------
(* The theorems.                                                           *)

\* Every step keeps the types and the invariant.
LEMMA NextStep == ASSUME TypeOK, IInv, [Next]_vars PROVE TypeOK' /\ IInv'
<1>1. CASE Start  BY <1>1, StartStep
<1>2. CASE Crash  BY <1>2, CrashStep
<1>3. CASE PowerCut  BY <1>3, PowerCutStep
<1>4. CASE \E lit \in {"no", "user"} : UserSets(lit)  BY <1>4, UserSetsStep
<1>5. CASE BoardReports  BY <1>5, BoardReportsStep
<1>6. CASE \E v \in Versions : StartFlash(Flash(v))
  <2>1. \A v \in Versions : Flash(v).action # "rollback"  BY DEF Flash
  <2> QED  BY <1>6, <2>1, RequestsMade, StartFlashStep
<1>7. CASE StartFlash(BackupOnly)
  <2>1. BackupOnly.action # "rollback"  BY DEF BackupOnly
  <2> QED  BY <1>7, <2>1, RequestsMade, StartFlashStep
<1>8. CASE StartFlash(Rollback(backup))
  <2>1. Rollback(backup).action = "rollback" /\ Rollback(backup).hex = backup
    BY DEF Rollback
  <2>2. backup \in Jobs
    BY <1>8, <2>1 DEF StartFlash, TypeOK, Jobs
  <2> QED  BY <1>8, <2>1, <2>2, RequestsMade, StartFlashStep
<1>9. CASE Poll  BY <1>9, PollStep
<1>10. CASE \E t \in timers : Fire(t)  BY <1>10, FireStep
<1>11. CASE Helper
  BY <1>11, HelperStartsStep, HelperGatesStep, HelperBacksUpStep, HelperErasesStep,
     HelperWritesStep, HelperExitsStep DEF Helper
<1>12. CASE HelperFails  BY <1>12, HelperFailsStep
<1>13. CASE UNCHANGED vars
  <2>1. UNCHANGED <<daemon, spool, helper, board>>  BY <1>13 DEF vars
  <2>2. TypeOK'  BY <2>1 DEF TypeOK, daemon, spool
  <2>3. StatusIsOfLast'  BY <2>1 DEF IInv, StatusIsOfLast, daemon, spool
  <2> QED  BY <2>1, <2>2, <2>3, DaemonStep DEF IInv, OkIsWhole, daemon
<1> QED
  BY <1>1, <1>2, <1>3, <1>4, <1>5, <1>6, <1>7, <1>8, <1>9, <1>10, <1>11, <1>12, <1>13
     DEF Next

\* The invariant that the others follow from.
THEOREM FlashInvariant == Spec => [](TypeOK /\ IInv)
<1>1. Init => TypeOK /\ IInv
  BY InitType, InitInv
<1>2. TypeOK /\ IInv /\ [Next]_vars => (TypeOK /\ IInv)'
  BY NextStep
<1> QED  BY <1>1, <1>2, PTL DEF Spec

\* Every variable keeps its type, whatever images there are.
THEOREM TypeCorrect == Spec => []TypeOK
BY FlashInvariant, PTL

\* When the daemon reports a flash or a rollback as a success, the board runs the
\* image that was asked for, however many jobs were given up, killed or picked up
\* late before it.
THEOREM FlashIsOnBoard == Spec => []SuccessIsOnBoard
<1>1. TypeOK /\ IInv => SuccessIsOnBoard
  BY DEF TypeOK, IInv, StatusIsOfLast, LastIsOnBoard, SuccessIsOnBoard
<1> QED  BY <1>1, FlashInvariant, PTL

\* The image offered for a rollback is a whole reading of the board.
THEOREM BackupsAreWhole == Spec => []BackupIsWhole
<1>1. TypeOK /\ IInv => BackupIsWhole
  BY DEF TypeOK, IInv, OkIsWhole, BackupIsWhole, Jobs
<1> QED  BY <1>1, FlashInvariant, PTL

-----------------------------------------------------------------------------
(* The files of a job that has not read the image.                         *)

\* What is no image.
LEMMA NoImages == NoHex \notin Image /\ Part \notin Image /\ NoHex # Part
BY VersionsAssumption DEF Image, NoHex, Part, Torn

LEMMA FilesInit == Init => FilesAreNew
BY DEF Init, FilesAreNew

\* Only a helper that works writes a backup file, and only its own.
LEMMA FilesStep == ASSUME TypeOK, IInv, FilesAreNew, [Next]_vars PROVE FilesAreNew'
<1>1. CASE UNCHANGED <<spool, helper>>
  BY <1>1 DEF FilesAreNew, spool
<1>2. ASSUME NEW req \in Request, StartFlash(req) PROVE FilesAreNew'
  <2>1. Len(asked') = Len(asked) + 1 /\ request' \in {request, Len(asked')}
    BY <1>2, AppendFacts DEF StartFlash, HandsOver
  <2> QED  BY <1>2, <2>1 DEF StartFlash, FilesAreNew, Jobs, TypeOK
<1>3. CASE HelperStarts
  <2>1. request # 0 => request \in Jobs /\ request <= Len(asked)
    BY DEF IInv, RequestIsNew, TypeOK, Jobs
  <2>2. helper.at = "idle" /\ 0 \notin Jobs
    BY <1>3 DEF HelperStarts, Jobs
  <2> QED  BY <1>3, <2>1, <2>2 DEF HelperStarts, FilesAreNew
<1>4. ASSUME Works, UNCHANGED <<asked, request>>,
             hexes' = hexes \/ \E h : hexes' = [hexes EXCEPT ![helper.job] = h],
             helper'.at # "gate",
             helper'.at = "backup" => hexes'[helper'.job] = Part
      PROVE  FilesAreNew'
  <2>1. helper.job <= Len(asked) /\ helper.job # request /\ helper.job \in Jobs
    BY <1>4, WorksFacts DEF IInv, HelperInOrder, RequestIsNew, TypeOK
  <2>2. \A j \in Jobs \ {helper.job} : hexes'[j] = hexes[j]
    BY <1>4 DEF TypeOK
  <2>3. \A j \in Jobs : j > Len(asked) => j # helper.job
    BY <2>1 DEF Jobs, TypeOK
  <2> QED  BY <1>4, <2>1, <2>2, <2>3 DEF FilesAreNew
<1>5. CASE HelperGates
  <2>1. Works /\ helper' = [helper EXCEPT !.at = "backup"]
    BY <1>5 DEF HelperGates, Works, HelperAt
  <2>2. helper'.at = "backup" /\ helper'.job = helper.job
    BY <2>1 DEF TypeOK
  <2>3. hexes'[helper'.job] = Part
    BY <1>5, <2>1, <2>2, WorksFacts DEF HelperGates, TypeOK
  <2> QED  BY <1>4, <1>5, <2>1, <2>2, <2>3 DEF HelperGates
<1>6. CASE HelperBacksUp \/ HelperErases \/ HelperWrites \/ HelperFails
  <2>1. Works /\ UNCHANGED <<asked, request>>
    BY <1>6 DEF HelperBacksUp, HelperErases, HelperWrites, HelperFails, Works, spool
  <2>2. \E at \in {"write", "writing", "exit"} : helper' = [helper EXCEPT !.at = at]
    BY <1>6 DEF HelperBacksUp, HelperErases, HelperWrites, HelperFails, HelperAt
  <2>3. helper'.at \in {"write", "writing", "exit"}
    BY <2>2 DEF TypeOK
  <2>4. hexes' = hexes \/ \E h : hexes' = [hexes EXCEPT ![helper.job] = h]
    BY <1>6 DEF HelperBacksUp, HelperErases, HelperWrites, HelperFails, spool
  <2> QED  BY <1>4, <2>1, <2>3, <2>4
<1>7. CASE HelperExits \/ PowerCut
  BY <1>7 DEF HelperExits, PowerCut, FilesAreNew
<1>8. CASE Start \/ Crash \/ (\E lit \in {"no", "user"} : UserSets(lit)) \/ BoardReports
           \/ Poll \/ (\E t \in timers : Fire(t)) \/ UNCHANGED vars
  BY <1>1, <1>8 DEF Start, Crash, UserSets, BoardReports, Poll, PollResult, PollTimesOut,
     Finish, Fire, vars
<1>9. CASE (\E v \in Versions : StartFlash(Flash(v))) \/ StartFlash(BackupOnly)
  BY <1>2, <1>9, RequestsMade
<1>10. CASE StartFlash(Rollback(backup))
  <2>1. Rollback(backup).action = "rollback"
    BY DEF Rollback
  <2>2. backup \in Jobs
    BY <1>10, <2>1 DEF StartFlash, TypeOK, Jobs
  <2> QED  BY <1>2, <1>10, <2>2, RequestsMade
<1> QED
  BY <1>3, <1>5, <1>6, <1>7, <1>8, <1>9, <1>10 DEF Next, Helper

-----------------------------------------------------------------------------
(* The updater keeps its ledger.                                           *)

LedgerStep == [Ledger!Next]_(Ledger!ledger)

\* How the jobs stand is read off the files.
LEMMA LedgerInit == Init => Ledger!Init
<1> SUFFICES ASSUME Init PROVE Ledger!Init
  OBVIOUS
<1>1. asked = <<>> /\ hexes = [j \in Jobs |-> NoHex] /\ board.ver \in Versions
  BY DEF Init
<1>2. \A j \in Jobs : j > Len(asked)
  BY <1>1 DEF Jobs
<1>3. \A j \in Jobs : Stand(j) = "unasked" /\ Goal(j) = NoHex /\ Before(j) = NoHex
  BY <1>1, <1>2 DEF Stand, Goal, Before
<1> QED  BY <1>1, <1>3 DEF Ledger!Init

\* A step that shows nothing is a stutter.
LEMMA LedgerStutters ==
  ASSUME \A j \in Jobs : /\ Goal(j)' = Goal(j) /\ Stand(j)' = Stand(j)
                         /\ Before(j)' = Before(j),
         board'.ver = board.ver
  PROVE  LedgerStep
BY DEF LedgerStep, Ledger!ledger

\* What the ledger has of a job that is not asked for anew.
LEMMA GoalsStay ==
  ASSUME TypeOK, IInv, asked' = asked,
         \A j \in Jobs : results[j] = "ok" => hexes'[j] = hexes[j]
  PROVE  \A j \in Jobs : Goal(j)' = Goal(j)
<1> SUFFICES ASSUME NEW j \in Jobs, j <= Len(asked)
             PROVE  Target(asked[j])' = Target(asked[j])
  BY DEF Goal, Jobs
<1>1. j \in 1 .. Len(asked) /\ asked[j] \in Request
  BY AskedFacts DEF Jobs, TypeOK
<1>2. asked[j].action = "rollback" => asked[j].hex \in Jobs /\ results[asked[j].hex] = "ok"
  BY <1>1, RequestFacts DEF IInv, OkIsWhole, TypeOK
<1> QED  BY <1>1, <1>2 DEF Target

\* The daemon's steps, a request apart, leave the ledger alone.
LEMMA QuietImplements ==
  ASSUME TypeOK, IInv, UNCHANGED <<spool, helper>>, board'.ver = board.ver
  PROVE  LedgerStep
<1>1. \A j \in Jobs : Goal(j)' = Goal(j)
  BY GoalsStay DEF spool
<1>2. \A j \in Jobs : Stand(j)' = Stand(j) /\ Before(j)' = Before(j)
  BY DEF spool, Stand, Before
<1> QED  BY <1>1, <1>2, LedgerStutters

\* A request is one more job, in the place of the one that waits; or it could not be
\* handed over, and that one waits on.
LEMMA StartFlashImplements ==
  ASSUME TypeOK, IInv, FilesAreNew, NEW req \in Request, StartFlash(req),
         req.action = "rollback" => req.hex = backup
  PROVE  LedgerStep
<1>1. PICK n \in Jobs : n = Len(asked) + 1
  BY AppendFacts DEF StartFlash
<1>2. /\ Len(asked') = n /\ asked'[n] = req
      /\ \A j \in 1 .. Len(asked) : asked'[j] = asked[j]
      /\ request' \in {n, request} /\ Len(asked) \in Nat
      /\ UNCHANGED <<results, hexes, helper>> /\ board'.ver = board.ver
  BY <1>1, AppendFacts DEF StartFlash, HandsOver, Idled, TypeOK
<1>3. results[n] = "none" /\ helper.job # n
  BY <1>1, <1>2 DEF IInv, RequestIsNew, HelperInOrder, TypeOK
<1>4. \A j \in Jobs : Before(j)' = Before(j)
  BY <1>2 DEF Before
<1>5. PICK w : w = Target(req)
  OBVIOUS
<1>6. \A j \in Jobs : Goal(j)' = IF j = n THEN w ELSE Goal(j)
  <2> TAKE j \in Jobs
  <2>1. CASE j = n
    <3>1. Goal(j)' = Target(req)'
      BY <1>1, <1>2, <2>1 DEF Goal
    <3> QED  BY <1>2, <1>5, <2>1, <3>1 DEF Target
  <2>2. CASE j # n /\ j <= Len(asked)
    BY <1>1, <1>2, <2>2 DEF Goal, Target, Jobs
  <2>3. CASE j # n /\ j > Len(asked)
    BY <1>1, <1>2, <2>3 DEF Goal, Jobs
  <2> QED  BY <1>2, <2>1, <2>2, <2>3 DEF Jobs
<1>7. \A j \in Jobs \ {n} : /\ j > Len(asked') <=> j > Len(asked)
                            /\ results[j] \in {"none", "ok", "error"}
  BY <1>1, <1>2 DEF Jobs, TypeOK
<1>8. Stand(n) = "unasked" /\ \A i \in Jobs : i < n => Stand(i) # "unasked"
  <2>1. \A i \in Jobs : i < n => ~(i > Len(asked)) /\ results[i] \in {"none", "ok", "error"}
    BY <1>1, <1>2 DEF TypeOK, Jobs
  <2> QED  BY <1>1, <1>2, <2>1 DEF Stand
<1>9. w \in Ledger!Wishes
  <2>1. CASE req.action = "flash"
    BY <1>5, <2>1, RequestFacts DEF Ledger!Wishes, Target
  <2>2. CASE req.action = "backup"
    <3>1. req = BackupOnly
      BY <2>2 DEF Request, Flash, BackupOnly, Rollback
    <3> QED  BY <1>5, <3>1 DEF Ledger!Wishes, Target, BackupOnly
  <2>3. CASE req.action = "rollback"
    <3>1. req.hex \in Jobs /\ results[req.hex] = "ok" /\ hexes[req.hex] \in Image
      BY <2>3, RequestFacts DEF StartFlash, IInv, OkIsWhole
    <3>2. ~(req.hex > Len(asked))
      BY <3>1 DEF IInv, RequestIsNew
    <3>3. Stand(req.hex) = "ok" /\ Before(req.hex) = w
      BY <1>5, <2>3, <3>1, <3>2 DEF Stand, Before, Target
    <3> QED  BY <3>1, <3>3 DEF Ledger!Wishes
  <2> QED  BY <2>1, <2>2, <2>3, RequestFacts
<1>10. CASE request' = n
  <2>1. \A j \in Jobs : Stand(j)' = IF j = n THEN "waiting"
                                    ELSE IF Stand(j) = "waiting" THEN "lost" ELSE Stand(j)
    <3> TAKE j \in Jobs
    <3>1. CASE j = n
      BY <1>1, <1>2, <1>3, <1>10, <3>1 DEF Stand
    <3>2. CASE j # n
      BY <1>2, <1>7, <1>10, <3>2 DEF Stand
    <3> QED  BY <3>1, <3>2
  <2>2. Ledger!Ask(n, w)
    BY <1>2, <1>4, <1>6, <1>8, <2>1 DEF Ledger!Ask
  <2> QED  BY <1>9, <2>2 DEF LedgerStep, Ledger!Next
<1>11. CASE request' = request
  <2>1. request # n
    BY <1>1, <1>2 DEF IInv, RequestIsNew, TypeOK, Jobs
  <2>2. \A j \in Jobs : Stand(j)' = IF j = n THEN "lost" ELSE Stand(j)
    <3> TAKE j \in Jobs
    <3>1. CASE j = n
      BY <1>1, <1>2, <1>3, <1>11, <2>1, <3>1 DEF Stand
    <3>2. CASE j # n
      BY <1>2, <1>7, <1>11, <3>2 DEF Stand
    <3> QED  BY <3>1, <3>2
  <2>3. Ledger!Drop(n, w)
    BY <1>2, <1>4, <1>6, <1>8, <2>2 DEF Ledger!Drop
  <2> QED  BY <1>9, <2>3 DEF LedgerStep, Ledger!Next
<1> QED  BY <1>2, <1>10, <1>11

\* A request that is picked up begins, while no other job is at work.
LEMMA HelperStartsImplements ==
  ASSUME TypeOK, IInv, HelperStarts
  PROVE  LedgerStep
<1>1. /\ UNCHANGED <<asked, results, hexes>> /\ board'.ver = board.ver /\ request' = 0
      /\ helper.job = 0
  BY DEF HelperStarts, IInv, HelperInOrder
<1>2. \A j \in Jobs : Goal(j)' = Goal(j) /\ Before(j)' = Before(j)
  BY <1>1, GoalsStay DEF Before
<1>3. \A j \in Jobs : j # 0
  BY DEF Jobs
<1>4. CASE request = 0
  <2>1. helper' = helper
    BY <1>4 DEF HelperStarts
  <2>2. \A j \in Jobs : Stand(j)' = Stand(j)
    BY <1>1, <1>4, <2>1 DEF Stand
  <2> QED  BY <1>1, <1>2, <2>2, LedgerStutters
<1>5. CASE request # 0
  <2>1. PICK k \in Jobs : k = request
    BY <1>5 DEF TypeOK, Jobs
  <2>2. helper'.job = k /\ results[k] = "none" /\ k <= Len(asked)
    BY <1>5, <2>1 DEF HelperStarts, IInv, RequestIsNew
  <2>3. Stand(k) = "waiting"
    BY <1>1, <1>3, <2>1, <2>2 DEF Stand, Jobs
  <2>4. \A j \in Jobs : Stand(j) # "working"
    <3>1. \A j \in Jobs : results[j] \in {"none", "ok", "error"} /\ helper.job # j
      BY <1>1, <1>3 DEF TypeOK
    <3> QED  BY <3>1 DEF Stand
  <2>5. \A j \in Jobs : Stand(j)' = IF j = k THEN "working" ELSE Stand(j)
    <3> TAKE j \in Jobs
    <3>1. CASE j = k
      BY <1>1, <2>2, <3>1 DEF Stand, Jobs
    <3>2. CASE j # k
      BY <1>1, <1>3, <2>1, <2>2, <3>2 DEF Stand
    <3> QED  BY <3>1, <3>2
  <2>6. Ledger!Begin(k)
    BY <1>1, <1>2, <2>3, <2>4, <2>5 DEF Ledger!Begin
  <2> QED  BY <2>6 DEF LedgerStep, Ledger!Next
<1> QED  BY <1>4, <1>5

\* The job at work is at work in the ledger.
LEMMA WorkingFacts ==
  ASSUME TypeOK, IInv, Works
  PROVE  /\ Stand(helper.job) = "working"
         /\ Goal(helper.job) = Target(Asked)
         /\ (Goal(helper.job) = NoHex) <=> (Asked.action = "backup")
<1>1. helper.job \in 1 .. Len(asked) /\ results[helper.job] = "none" /\ Asked \in Request
  BY WorksFacts
<1>2. ~(helper.job > Len(asked))
  BY <1>1 DEF TypeOK
<1>3. Goal(helper.job) = Target(Asked)
  BY <1>2 DEF Goal, Asked
<1>s. Stand(helper.job) = "working"
  BY <1>1, <1>2 DEF Stand
<1>4. CASE Asked.action = "flash"
  BY <1>1, <1>3, <1>4, <1>s, RequestFacts, NoImages DEF Target, Image
<1>5. CASE Asked.action = "backup"
  <2>1. Asked = BackupOnly
    BY <1>1, <1>5 DEF Request, Flash, BackupOnly, Rollback
  <2> QED  BY <1>3, <1>s, <2>1 DEF Target, BackupOnly
<1>6. CASE Asked.action = "rollback"
  <2>1. Asked.hex \in Jobs /\ results[Asked.hex] = "ok"
    BY <1>1, <1>6, RequestFacts DEF IInv, OkIsWhole, Asked, TypeOK
  <2>2. hexes[Asked.hex] \in Image
    BY <2>1 DEF IInv, OkIsWhole
  <2> QED  BY <1>3, <1>6, <1>s, <2>2, NoImages DEF Target
<1> QED  BY <1>1, <1>4, <1>5, <1>6, RequestFacts

\* What a step of the helper that runs shows of the other jobs, and of its own.
LEMMA WorkShows ==
  ASSUME TypeOK, IInv, Works, UNCHANGED <<asked, request>>,
         helper'.job = helper.job,
         NEW r \in {"none", "ok", "error"},
         results' = [results EXCEPT ![helper.job] = r],
         NEW h, hexes' = [hexes EXCEPT ![helper.job] = h]
  PROVE  /\ \A j \in Jobs : Goal(j)' = Goal(j)
         /\ \A j \in Jobs \ {helper.job} : Stand(j)' = Stand(j) /\ Before(j)' = Before(j)
         /\ Stand(helper.job)' = IF r = "none" THEN "working" ELSE r
         /\ Before(helper.job)' = IF h \in Image THEN h ELSE NoHex
<1> DEFINE k == helper.job
<1>1. k \in Jobs /\ k \in 1 .. Len(asked) /\ results[k] = "none"
  BY WorksFacts
<1>2. results'[k] = r /\ hexes'[k] = h
  BY <1>1 DEF TypeOK
<1>3. \A j \in Jobs \ {k} : results'[j] = results[j] /\ hexes'[j] = hexes[j]
  BY DEF TypeOK
<1>4. \A j \in Jobs : Goal(j)' = Goal(j)
  BY <1>1, <1>3, GoalsStay
<1>5. \A j \in Jobs \ {k} : Stand(j)' = Stand(j) /\ Before(j)' = Before(j)
  BY <1>3 DEF Stand, Before
<1>6. ~(k > Len(asked))
  BY <1>1 DEF TypeOK
<1>7. Stand(helper.job)' = IF r = "none" THEN "working" ELSE r
  BY <1>2, <1>6 DEF Stand
<1>8. Before(helper.job)' = IF h \in Image THEN h ELSE NoHex
  BY <1>2 DEF Before
<1> QED  BY <1>4, <1>5, <1>7, <1>8

\* The gates are passed unseen: what the job had read stays nothing.
LEMMA HelperGatesImplements ==
  ASSUME TypeOK, IInv, FilesAreNew, HelperGates
  PROVE  LedgerStep
<1>1. Works /\ helper'.job = helper.job
  BY DEF HelperGates, Works, HelperAt, TypeOK
<1>2. /\ results' = [results EXCEPT ![helper.job] = "none"]
      /\ hexes' = [hexes EXCEPT ![helper.job] = Part] /\ UNCHANGED <<asked, request>>
  BY <1>1, WorksFacts DEF HelperGates
<1>3. board'.ver = board.ver
  BY BootFacts DEF HelperGates, TypeOK, Board
<1>4. Before(helper.job) = NoHex
  BY NoImages DEF HelperGates, FilesAreNew, Before
<1>5. PICK k \in Jobs : k = helper.job
  BY <1>1, WorksFacts
<1>6. \A j \in Jobs : /\ Goal(j)' = Goal(j) /\ Stand(j)' = Stand(j)
                      /\ Before(j)' = Before(j)
  BY <1>1, <1>2, <1>4, <1>5, WorkShows, WorkingFacts, NoImages
<1> QED  BY <1>3, <1>6, LedgerStutters

\* The backup is the image, read once.
LEMMA HelperBacksUpImplements ==
  ASSUME TypeOK, IInv, FilesAreNew, HelperBacksUp
  PROVE  LedgerStep
<1>1. Works /\ helper'.job = helper.job
  BY DEF HelperBacksUp, Works, HelperAt, TypeOK
<1>2. PICK k \in Jobs : k = helper.job
  BY <1>1, WorksFacts
<1> DEFINE r == IF Asked.action = "backup" THEN "ok" ELSE "none"
<1>3. results' = [results EXCEPT ![helper.job] = r]
  BY <1>1, WorksFacts DEF HelperBacksUp, OkAfterBackup
<1>4. /\ hexes' = [hexes EXCEPT ![helper.job] = board.ver]
      /\ UNCHANGED <<asked, request>>
      /\ board.ver \in Image
  BY DEF HelperBacksUp, TypeOK
<1>5. board'.ver = board.ver
  BY BootFacts DEF HelperBacksUp, TypeOK, Board
<1>6. Before(k) = NoHex
  BY <1>2, NoImages DEF HelperBacksUp, FilesAreNew, Before
<1>7. Stand(k) = "working" /\ (Goal(k) = NoHex <=> Asked.action = "backup")
  BY <1>1, <1>2, WorkingFacts
<1>8. /\ \A j \in Jobs : Goal(j)' = Goal(j)
      /\ \A j \in Jobs : Stand(j)' = IF j = k THEN IF Goal(k) = NoHex THEN "ok" ELSE "working"
                                     ELSE Stand(j)
      /\ \A j \in Jobs : Before(j)' = IF j = k THEN board.ver ELSE Before(j)
  BY <1>1, <1>2, <1>3, <1>4, <1>7, WorkShows
<1>9. Ledger!Save(k)
  BY <1>5, <1>6, <1>7, <1>8 DEF Ledger!Save
<1> QED  BY <1>9 DEF LedgerStep, Ledger!Next

\* The image is erased by a job that has read it and has one to write.
LEMMA WriterFacts ==
  ASSUME TypeOK, IInv, helper.at \in {"write", "writing"},
         NEW k \in Jobs, k = helper.job
  PROVE  Ledger!Writes(k) /\ Goal(k) = Target(Asked)
<1>1. Works
  BY DEF Works
<1>2. hexes[k] \in Image /\ Asked.action # "backup"
  BY DEF IInv, HelperInOrder
<1>3. Before(k) # NoHex
  BY <1>2, NoImages DEF Before
<1> QED  BY <1>1, <1>2, <1>3, WorkingFacts DEF Ledger!Writes

LEMMA HelperErasesImplements == ASSUME TypeOK, IInv, HelperErases PROVE LedgerStep
<1>1. PICK k \in Jobs : k = helper.job
  BY WorksFacts DEF HelperErases, Works
<1>2. helper'.job = helper.job /\ UNCHANGED <<asked, request, results, hexes>>
  BY DEF HelperErases, HelperAt, TypeOK, spool
<1>3. \A j \in Jobs : Goal(j)' = Goal(j) /\ Stand(j)' = Stand(j) /\ Before(j)' = Before(j)
  BY <1>2, GoalsStay DEF Stand, Before
<1>4. board'.ver = Torn
  BY DEF HelperErases, TypeOK
<1>5. Ledger!Writes(k)
  BY <1>1, WriterFacts DEF HelperErases
<1>6. Ledger!Erase(k)
  BY <1>3, <1>4, <1>5 DEF Ledger!Erase
<1> QED  BY <1>6 DEF LedgerStep, Ledger!Next

\* What is written is what was asked for, a rollback included.
LEMMA HelperWritesImplements == ASSUME TypeOK, IInv, HelperWrites PROVE LedgerStep
<1>1. Works /\ helper'.job = helper.job
  BY DEF HelperWrites, Works, HelperAt, TypeOK
<1>2. PICK k \in Jobs : k = helper.job
  BY <1>1, WorksFacts
<1>3. /\ results' = [results EXCEPT ![helper.job] = "ok"]
      /\ hexes' = [hexes EXCEPT ![helper.job] = hexes[helper.job]]
      /\ UNCHANGED <<asked, request>>
  BY <1>1, WorksFacts DEF HelperWrites
<1>4. Before(k)' = Before(k)
  BY <1>2 DEF HelperWrites, Before
<1>5. /\ \A j \in Jobs : Goal(j)' = Goal(j) /\ Before(j)' = Before(j)
      /\ \A j \in Jobs : Stand(j)' = IF j = k THEN "ok" ELSE Stand(j)
  BY <1>1, <1>2, <1>3, <1>4, WorkShows
<1>6. Written = Target(Asked) /\ Written \in Image
  <2>1. Asked \in Request /\ helper.job \in DOMAIN asked
    BY <1>1, WorksFacts DEF TypeOK
  <2>2. CASE Asked.action = "rollback"
    <3>1. Asked.hex \in Jobs /\ results[Asked.hex] = "ok"
      BY <2>1, <2>2, RequestFacts DEF IInv, OkIsWhole, Asked
    <3> QED  BY <2>2, <3>1 DEF IInv, OkIsWhole, Written, Target
  <2>3. CASE Asked.action = "flash"
    BY <2>1, <2>3, RequestFacts DEF Written, Target, Image
  <2>4. Asked.action # "backup"
    BY DEF HelperWrites, IInv, HelperInOrder
  <2> QED  BY <2>1, <2>2, <2>3, <2>4, RequestFacts
<1>7. board'.ver = Goal(k)
  <2>1. [board EXCEPT !.ver = Written] \in Board
    BY <1>6 DEF TypeOK, Board
  <2>2. [board EXCEPT !.ver = Written].ver = Written
    BY DEF TypeOK
  <2>3. Goal(k) = Target(Asked)
    BY <1>2, WriterFacts DEF HelperWrites
  <2> QED  BY <1>6, <2>1, <2>2, <2>3, BootFacts DEF HelperWrites
<1>8. Ledger!Writes(k)
  BY <1>2, WriterFacts DEF HelperWrites
<1>9. Ledger!Write(k)
  BY <1>5, <1>7, <1>8 DEF Ledger!Write
<1> QED  BY <1>9 DEF LedgerStep, Ledger!Next

\* A job whose stand is all that changes, from working to failed or lost.
LEMMA FailImplements ==
  ASSUME NEW k \in Jobs, Stand(k) = "working", NEW end \in {"error", "lost"},
         \A j \in Jobs : /\ Goal(j)' = Goal(j) /\ Before(j)' = Before(j)
                         /\ Stand(j)' = IF j = k THEN end ELSE Stand(j),
         board'.ver = board.ver
  PROVE  LedgerStep
<1>1. Ledger!Fail(k)
  BY DEF Ledger!Fail
<1> QED  BY <1>1 DEF LedgerStep, Ledger!Next

\* A helper that fails says so, or nothing yet.
LEMMA HelperFailsImplements == ASSUME TypeOK, IInv, HelperFails PROVE LedgerStep
<1>1. Works /\ helper'.job = helper.job
  BY DEF HelperFails, Works, HelperAt, TypeOK
<1>2. PICK k \in Jobs : k = helper.job
  BY <1>1, WorksFacts
<1>3. PICK r \in {"none", "error"} : results' = [results EXCEPT ![helper.job] = r]
  BY <1>1, WorksFacts DEF HelperFails
<1>4. /\ hexes' = [hexes EXCEPT ![helper.job] = hexes[helper.job]]
      /\ UNCHANGED <<asked, request>> /\ board'.ver = board.ver
  BY <1>1, WorksFacts DEF HelperFails
<1>5. Before(k)' = Before(k)
  BY <1>2 DEF HelperFails, Before
<1>6. Stand(k) = "working"
  BY <1>1, <1>2, WorkingFacts
<1>7. \A j \in Jobs : /\ Goal(j)' = Goal(j) /\ Before(j)' = Before(j)
                      /\ Stand(j)' = IF j = k THEN IF r = "none" THEN "working" ELSE r
                                     ELSE Stand(j)
  BY <1>1, <1>2, <1>3, <1>4, <1>5, WorkShows
<1>8. CASE r = "none"
  BY <1>4, <1>6, <1>7, <1>8, LedgerStutters
<1>9. CASE r = "error"
  BY <1>4, <1>6, <1>7, <1>9, FailImplements
<1> QED  BY <1>8, <1>9

\* The trap of a run that left no result, and a cut of its power, end its job.
LEMMA EndImplements ==
  ASSUME TypeOK, IInv, HelperExits \/ PowerCut
  PROVE  LedgerStep
<1> DEFINE k == helper.job
           end == IF HelperExits THEN "error" ELSE "lost"
<1>1. UNCHANGED <<asked, request, hexes>> /\ helper'.job = 0
  BY DEF HelperExits, PowerCut
<1>2. board'.ver = board.ver
  BY BootFacts DEF HelperExits, PowerCut, TypeOK, Board
<1>3. \A j \in Jobs : Goal(j)' = Goal(j) /\ Before(j)' = Before(j)
  BY <1>1, GoalsStay DEF Before
<1>4. \A j \in Jobs : j # 0
  BY DEF Jobs
<1>5. \A j \in Jobs \ {k} : Stand(j)' = Stand(j)
  <2>1. \A j \in Jobs \ {k} : results'[j] = results[j]
    BY DEF HelperExits, PowerCut, TypeOK
  <2> QED  BY <1>1, <1>4, <2>1 DEF Stand
<1>6. CASE k \in Jobs /\ results[k] = "none"
  <2>1. k <= Len(asked) /\ request # k
    BY <1>6, <1>4 DEF IInv, HelperInOrder, RequestIsNew
  <2>2. ~(k > Len(asked))
    BY <1>6, <2>1 DEF Jobs, TypeOK
  <2>3. Stand(k) = "working"
    BY <1>6, <2>2 DEF Stand
  <2>4. PICK m \in Jobs : m = k
    BY <1>6
  <2>5. results'[m] = IF HelperExits THEN "error" ELSE "none"
    BY <1>6, <2>4 DEF HelperExits, PowerCut, TypeOK
  <2>6. Stand(m)' = end
    BY <1>1, <1>4, <2>1, <2>2, <2>4, <2>5 DEF Stand
  <2>7. \A j \in Jobs : Stand(j)' = IF j = m THEN end ELSE Stand(j)
    BY <1>5, <2>4, <2>6
  <2> QED  BY <1>2, <1>3, <2>3, <2>4, <2>7, FailImplements
<1>7. CASE ~(k \in Jobs /\ results[k] = "none")
  <2>1. \A j \in Jobs : Stand(j)' = Stand(j)
    <3> TAKE j \in Jobs
    <3>1. CASE j # k
      BY <1>5, <3>1
    <3>2. CASE j = k
      <4>1. results[j] # "none" /\ results'[j] = results[j]
        BY <1>7, <3>2 DEF HelperExits, PowerCut, TypeOK
      <4> QED  BY <1>1, <4>1 DEF Stand
    <3> QED  BY <3>1, <3>2
  <2> QED  BY <1>2, <1>3, <2>1, LedgerStutters
<1> QED  BY <1>6, <1>7

\* Every step is a step of the ledger, or none.
LEMMA LedgerNext == ASSUME TypeOK, IInv, FilesAreNew, [Next]_vars PROVE LedgerStep
<1> USE QuietImplements
<1>1. CASE Start \/ Crash
  <2>1. UNCHANGED <<spool, helper>> /\ board'.ver = board.ver
    BY <1>1 DEF Start, Crash
  <2> QED  BY <2>1
<1>2. CASE (\E lit \in {"no", "user"} : UserSets(lit)) \/ BoardReports
  <2>1. UNCHANGED <<spool, helper>> /\ board'.ver = board.ver
    BY <1>2 DEF UserSets, BoardReports, TypeOK
  <2> QED  BY <2>1
<1>3. CASE Poll
  <2>1. UNCHANGED <<spool, helper>> /\ board'.ver = board.ver
    BY <1>3 DEF Poll, PollResult, PollTimesOut, Finish
  <2> QED  BY <2>1
<1>4. CASE \E t \in timers : Fire(t)
  <2>1. UNCHANGED <<spool, helper>> /\ board'.ver = board.ver
    BY <1>4, FireFacts DEF Fire
  <2> QED  BY <2>1
<1>5. CASE UNCHANGED vars
  <2>1. UNCHANGED <<spool, helper>> /\ board'.ver = board.ver
    BY <1>5 DEF vars
  <2> QED  BY <2>1
<1>6. CASE \E v \in Versions : StartFlash(Flash(v))
  <2>1. \A v \in Versions : Flash(v).action # "rollback"  BY DEF Flash
  <2> QED  BY <1>6, <2>1, RequestsMade, StartFlashImplements
<1>7. CASE StartFlash(BackupOnly)
  <2>1. BackupOnly.action # "rollback"  BY DEF BackupOnly
  <2> QED  BY <1>7, <2>1, RequestsMade, StartFlashImplements
<1>8. CASE StartFlash(Rollback(backup))
  <2>1. Rollback(backup).action = "rollback" /\ Rollback(backup).hex = backup
    BY DEF Rollback
  <2>2. backup \in Jobs
    BY <1>8, <2>1 DEF StartFlash, TypeOK, Jobs
  <2> QED  BY <1>8, <2>1, <2>2, RequestsMade, StartFlashImplements
<1>9. CASE HelperStarts  BY <1>9, HelperStartsImplements
<1>10. CASE HelperGates  BY <1>10, HelperGatesImplements
<1>11. CASE HelperBacksUp  BY <1>11, HelperBacksUpImplements
<1>12. CASE HelperErases  BY <1>12, HelperErasesImplements
<1>13. CASE HelperWrites  BY <1>13, HelperWritesImplements
<1>14. CASE HelperFails  BY <1>14, HelperFailsImplements
<1>15. CASE HelperExits \/ PowerCut  BY <1>15, EndImplements
<1> QED
  BY <1>1, <1>2, <1>3, <1>4, <1>5, <1>6, <1>7, <1>8, <1>9, <1>10, <1>11, <1>12, <1>13,
     <1>14, <1>15 DEF Next, Helper

\* Daemon, spool, helper and board implement the ledger of flashes, over crashes,
\* power cuts, late helpers and jobs that were given up: a job runs at most once, an
\* end stays, nothing is erased that was not read, and a rollback brings back what
\* was there.
THEOREM ImplementsLedger == Spec => KeepsFlashLedger
<1>1. Init => Ledger!Init /\ FilesAreNew
  BY LedgerInit, FilesInit
<1>2. TypeOK /\ IInv /\ FilesAreNew /\ [Next]_vars
        => FilesAreNew' /\ [Ledger!Next]_(Ledger!ledger)
  BY FilesStep, LedgerNext DEF LedgerStep
<1> QED  BY <1>1, <1>2, FlashInvariant, PTL DEF Spec, KeepsFlashLedger, Ledger!Spec

=============================================================================
