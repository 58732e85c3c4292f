------------------------ MODULE PitControl_proofs -------------------------
(***************************************************************************)
(* Proofs about PitControl, for every program, every set of stages that    *)
(* shut the fan and every length of the event loop's queue: its type       *)
(* invariant, and that the program and the tuner get their last word.      *)
(***************************************************************************)
EXTENDS PitControl, SequenceTheorems, TLAPS

-----------------------------------------------------------------------------
(* Types.                                                                  *)

Board == [mode : Mode, nv : Mode, cmd : Command]

\* A command of a sender other than the program.
LEMMA CmdType ==
  ASSUME NEW by \in Sender, NEW mode \in Mode
  PROVE  Cmd(by, mode) \in Command
BY ProgramAssumption DEF Cmd, Command

\* What the program and the tuner want are commands.
LEMMA DriverType ==
  /\ \A k \in 1 .. Stages : Stage(k) \in Command
  /\ Relay \in Command
  /\ TunerEnd \in Command
BY ProgramAssumption DEF Stage, Relay, TunerEnd, Cmd, Command, Sender, Mode

\* What a send leaves of the board is a board.
LEMMA SentType ==
  ASSUME NEW b \in Board, NEW c \in Command, NEW r \in Sent(b, c)
  PROVE  r \in Board
<1>1. Obeys(b, c) \in Board
  BY DEF Obeys, Board, Command
<1>2. Cmd("noise", b.mode) \in Command
  BY CmdType DEF Board, Sender
<1>3. Lost(b) \in Board
  BY <1>2 DEF Lost, Board
<1> QED  BY <1>1, <1>3 DEF Sent

\* A sender that may stay silent leaves a board, too.
LEMMA MaySendType ==
  ASSUME NEW b \in Board, NEW mode \in Mode \cup {"none"}, NEW r \in MaySend(b, mode)
  PROVE  r \in Board
<1>1. CASE mode = "none"
  BY <1>1 DEF MaySend
<1>2. CASE mode # "none"
  <2>1. Cmd("other", mode) \in Command
    BY <1>2, CmdType DEF Sender
  <2> QED  BY <1>2, <2>1, SentType DEF MaySend
<1> QED  BY <1>1, <1>2

\* Callbacks are lines and sends.
LEMMA CallbackType ==
  /\ \A reading \in Reading : Line(reading) \in Callback
  /\ \A c \in Command : Post(c) \in Callback
  /\ \A cb \in Callback : \/ cb.what = "line" /\ cb.line \in Reading
                          \/ cb.what = "send" /\ cb.cmd \in Command
BY DEF Line, Post, Callback

\* What a handler posts.
Posted(cs) == [i \in DOMAIN cs |-> Post(cs[i])]

\* Posts are callbacks.
LEMMA PostedType ==
  ASSUME NEW cs \in Seq(Command)
  PROVE  /\ Posted(cs) \in Seq(Callback)
         /\ Len(Posted(cs)) = Len(cs)
         /\ \A i \in 1 .. Len(cs) : /\ Posted(cs)[i].what = "send"
                                    /\ Posted(cs)[i].cmd = cs[i]
<1>1. \A i \in 1 .. Len(cs) : cs[i] \in Command
  OBVIOUS
<1>2. \A i \in 1 .. Len(cs) : Post(cs[i]) \in Callback
  BY <1>1, CallbackType
<1>3. Posted(cs) = [i \in 1 .. Len(cs) |-> Post(cs[i])]
  BY DEF Posted
<1>4. \A i \in 1 .. Len(cs) : Posted(cs)[i] = Post(cs[i])
  BY <1>3
<1>5. \A c : Post(c).what = "send" /\ Post(c).cmd = c
  BY DEF Post
<1>6. \A i \in 1 .. Len(cs) : Posted(cs)[i].what = "send" /\ Posted(cs)[i].cmd = cs[i]
  BY <1>4, <1>5
<1> QED  BY <1>2, <1>3, <1>6

\* The queue once a handler has posted.
LEMMA DefersType ==
  ASSUME NEW q \in Seq(Callback), NEW cs \in Seq(Command), Defers(q, cs)
  PROVE  queue' \in Seq(Callback) /\ Len(queue') <= MaxQueue
<1>1. queue' = q \o Posted(cs)
  BY DEF Defers, Posts, Posted
<1>2. Len(q) + Len(cs) <= MaxQueue
  BY DEF Defers
<1>3. Posted(cs) \in Seq(Callback) /\ Len(Posted(cs)) = Len(cs)
  BY PostedType
<1>4. \A r \in Seq(Callback) : /\ q \o r \in Seq(Callback)
                               /\ Len(q \o r) = Len(q) + Len(r)
  BY ConcatProperties
<1> QED  BY <1>1, <1>2, <1>3, <1>4

\* What the end of a stage posts, and what the tuner posts.
LEMMA PostsType ==
  /\ \A k \in 1 .. Stages : AdvancePosts(k) \in Seq(Command)
  /\ \A k \in 1 .. Stages : NextStage(k) \in 0 .. Stages
  /\ \A ts \in TunerPosts : ts \in Seq(Command)
<1>1. ASSUME NEW k \in 1 .. Stages PROVE AdvancePosts(k) \in Seq(Command)
  <2>1. CASE k < Stages
    <3>1. k + 1 \in 1 .. Stages
      BY <2>1, ProgramAssumption
    <3>2. Stage(k + 1) \in Command
      BY <3>1, DriverType
    <3> QED  BY <2>1, <3>2 DEF AdvancePosts
  <2>2. CASE ~(k < Stages)
    BY <2>2 DEF AdvancePosts
  <2> QED  BY <2>1, <2>2
<1>2. ASSUME NEW k \in 1 .. Stages PROVE NextStage(k) \in 0 .. Stages
  BY ProgramAssumption DEF NextStage
<1>3. ASSUME NEW ts \in TunerPosts PROVE ts \in Seq(Command)
  <2>1. <<>> \in Seq(Command)
    OBVIOUS
  <2>2. <<Relay>> \in Seq(Command) /\ <<TunerEnd>> \in Seq(Command)
    BY DriverType
  <2>3. <<Relay, TunerEnd>> \in Seq(Command)
    BY DriverType
  <2> QED  BY <2>1, <2>2, <2>3 DEF TunerPosts
<1> QED  BY <1>1, <1>2, <1>3

\* What a status line posts.
LEMMA StatusPostsType ==
  ASSUME NEW ts \in TunerPosts, NEW k \in 0 .. Stages, NEW due \in BOOLEAN, due => k # 0
  PROVE  ts \o (IF due THEN AdvancePosts(k) ELSE <<>>) \in Seq(Command)
<1>1. (IF due THEN AdvancePosts(k) ELSE <<>>) \in Seq(Command)
  BY ProgramAssumption, PostsType
<1>2. ts \in Seq(Command)
  BY PostsType
<1> QED  BY <1>1, <1>2, ConcatProperties

\* The queue without its oldest callback.
LEMMA TailType ==
  ASSUME NEW q \in Seq(Callback), q # <<>>
  PROVE  /\ Tail(q) \in Seq(Callback)
         /\ Len(Tail(q)) = Len(q) - 1
         /\ \A i \in 1 .. Len(Tail(q)) : Tail(q)[i] = q[i + 1]
         /\ Head(q) = q[1] /\ Head(q) \in Callback
BY HeadTailProperties

-----------------------------------------------------------------------------
(* Type correctness.                                                       *)

\* Every initial state is well typed.
LEMMA TypeInit == Init => TypeOK
<1> SUFFICES ASSUME Init PROVE TypeOK
  OBVIOUS
<1>1. \A mode \in Mode : Cmd("other", mode) \in Command
  BY CmdType DEF Sender
<1>2. board \in Board
  BY <1>1 DEF Init, Board
<1>3. queue \in Seq(Callback) /\ Len(queue) <= MaxQueue
  BY QueueAssumption DEF Init
<1>4. program \in 0 .. Stages
  BY ProgramAssumption DEF Init
<1> QED  BY <1>2, <1>3, <1>4 DEF Init, TypeOK, Board, Reading

\* A line from the board leaves a well-typed state.
LEMMA StatusType ==
  ASSUME TypeOK, queue # <<>>, NEW reading \in Reading, Status(reading)
  PROVE  TypeOK'
<1>1. PICK idle   \in {"none", "off"},
           finish \in {"none", "off", "auto"},
           guide  \in IF guided THEN {"on", "over", "warm"} ELSE {"none"},
           ts     \in IF tuner = "running" THEN TunerPosts ELSE {<<>>},
           due    \in IF program # 0 THEN BOOLEAN ELSE {FALSE} :
        /\ idle = "off" => Decides(reading) /\ reading = "number"
        /\ finish # "none" => powerup # "first"
        /\ powerup' = Judged(reading, idle)
        /\ \E b1 \in MaySend(board, idle) :
           \E b2 \in MaySend(b1, finish) :
              board' \in MaySend(b2, IF guide = "warm" THEN "auto" ELSE "none")
        /\ guided' = (guide = "on")
        /\ heard' = reading
        /\ tuner' = IF Ends(ts) THEN "done" ELSE tuner
        /\ program' = IF due THEN NextStage(program) ELSE program
        /\ Defers(Tail(queue), ts \o IF due THEN AdvancePosts(program) ELSE <<>>)
        /\ UNCHANGED <<up, halting>>
  BY DEF Status
<1>2. board' \in Board
  <2>a. board \in Board /\ idle \in Mode \cup {"none"} /\ finish \in Mode \cup {"none"}
    BY DEF TypeOK, Board, Mode
  <2>1. PICK b1 \in MaySend(board, idle) :
          \E b2 \in MaySend(b1, finish) :
             board' \in MaySend(b2, IF guide = "warm" THEN "auto" ELSE "none")
    BY <1>1
  <2>0. PICK b2 \in MaySend(b1, finish) :
          board' \in MaySend(b2, IF guide = "warm" THEN "auto" ELSE "none")
    BY <2>1
  <2>2. b1 \in Board
    BY <2>a, MaySendType
  <2>3. b2 \in Board
    BY <2>a, <2>2, MaySendType
  <2>4. (IF guide = "warm" THEN "auto" ELSE "none") \in Mode \cup {"none"}
    BY DEF Mode
  <2> QED  BY <2>0, <2>3, <2>4, MaySendType
<1>3. /\ ts \in TunerPosts
      /\ program \in 0 .. Stages
      /\ due \in BOOLEAN /\ (due => program # 0)
  BY DEF TypeOK, TunerPosts
<1>4. queue' \in Seq(Callback) /\ Len(queue') <= MaxQueue
  <2>1. ts \o (IF due THEN AdvancePosts(program) ELSE <<>>) \in Seq(Command)
    BY <1>3, StatusPostsType
  <2>2. Tail(queue) \in Seq(Callback)
    BY TailType DEF TypeOK
  <2> QED  BY <1>1, <2>1, <2>2, DefersType
<1>5. program' \in 0 .. Stages
  BY <1>1, <1>3, PostsType, ProgramAssumption
<1>6. powerup' \in {"none", "first", "later", "idled", "settled"}
  BY <1>1 DEF Judged, TypeOK
<1> QED  BY <1>1, <1>2, <1>4, <1>5, <1>6 DEF TypeOK, Board

\* Every step leaves a well-typed state.
LEMMA TypeStep == TypeOK /\ [Next]_vars => TypeOK'
<1> SUFFICES ASSUME TypeOK, [Next]_vars PROVE TypeOK'
  OBVIOUS
<1>a. board \in Board /\ queue \in Seq(Callback) /\ Len(queue) <= MaxQueue
  BY DEF TypeOK, Board
<1>b. \A mode \in Mode : \A by \in Sender : Cmd(by, mode) \in Command
  BY CmdType
<1>c. ASSUME NEW mode \in Mode, board' \in Sent(board, Cmd("other", mode))
      PROVE  board' \in Board
  <2>1. Cmd("other", mode) \in Command
    BY <1>b DEF Sender
  <2> QED  BY <1>a, <1>c, <2>1, SentType
<1>d. ASSUME NEW c \in Command, Defers(queue, <<c>>)
      PROVE  queue' \in Seq(Callback) /\ Len(queue') <= MaxQueue
  <2>1. <<c>> \in Seq(Command)
    OBVIOUS
  <2> QED  BY <1>a, <1>d, <2>1, DefersType
<1>e. Die => /\ queue' \in Seq(Callback)
             /\ Len(queue') <= MaxQueue
             /\ program' \in 0 .. Stages
  BY ProgramAssumption, QueueAssumption DEF Die
<1>1. CASE Start
  <2>1. board' \in Board
    BY <1>1, <1>a, <1>b DEF Start, Board, Sender
  <2> QED  BY <1>1, <2>1 DEF Start, TypeOK, Board, drivers
<1>2. CASE Stop
  BY <1>2, <1>e DEF Stop, Die, TypeOK, Reading
<1>3. CASE BoardReports
  <2>1. Line(Reads(board.mode)) \in Callback
    BY CallbackType DEF Reads, Reading
  <2>2. queue' \in Seq(Callback) /\ Len(queue') = Len(queue) + 1
    BY <1>3, <1>a, <2>1, AppendProperties DEF BoardReports
  <2>3. Len(queue) < MaxQueue
    BY <1>3 DEF BoardReports
  <2>4. Len(queue') <= MaxQueue
    BY <1>a, <2>2, <2>3, QueueAssumption, LenProperties
  <2> QED  BY <1>3, <2>2, <2>4 DEF BoardReports, TypeOK, drivers
<1>4. CASE BoardReboots
  <2>1. board' \in Board
    BY <1>4, <1>a, <1>b DEF BoardReboots, Board, Sender
  <2> QED  BY <1>4, <2>1 DEF BoardReboots, TypeOK, Board, drivers
<1>5. CASE LoopRuns
  <2>1. queue # <<>> /\ Head(queue) \in Callback
    BY <1>5, <1>a, TailType DEF LoopRuns
  <2>2. CASE Head(queue).what = "line"
    <3>1. Status(Head(queue).line)
      BY <1>5, <2>2 DEF LoopRuns
    <3>2. Head(queue).line \in Reading
      BY <2>1, <2>2, CallbackType
    <3> QED  BY <2>1, <3>1, <3>2, StatusType
  <2>3. CASE Head(queue).what # "line"
    <3>1. Send(Head(queue).cmd)
      BY <1>5, <2>3 DEF LoopRuns
    <3>2. Head(queue).cmd \in Command
      BY <2>1, <2>3, CallbackType
    <3>3. board' \in Board
      BY <1>a, <3>1, <3>2, SentType DEF Send
    <3>4. queue' \in Seq(Callback) /\ Len(queue') <= MaxQueue
      BY <1>a, <2>1, <3>1, TailType, QueueAssumption, LenProperties DEF Send
    <3> QED  BY <3>1, <3>3, <3>4 DEF Send, TypeOK, Board, drivers
  <2> QED  BY <2>2, <2>3
<1>6. ASSUME NEW mode \in Mode, OperatorSets(mode) PROVE TypeOK'
  <2>1. board' \in Board
    BY <1>6, <1>b DEF OperatorSets, Board, Sender
  <2> QED  BY <1>6, <2>1 DEF OperatorSets, TypeOK, Board, drivers
<1>7. ASSUME NEW mode \in Mode, UserSets(mode) PROVE TypeOK'
  <2>1. board' \in Board
    BY <1>7, <1>c DEF UserSets
  <2> QED  BY <1>7, <2>1 DEF UserSets, TypeOK, Board, drivers
<1>8. ASSUME NEW mode \in {"auto", "manual"}, MqttSets(mode) PROVE TypeOK'
  <2>1. Cmd("other", mode) \in Command
    BY <1>b DEF Sender, Mode
  <2>2. queue' \in Seq(Callback) /\ Len(queue') <= MaxQueue
    BY <1>8, <1>d, <2>1 DEF MqttSets
  <2> QED  BY <1>8, <2>2 DEF MqttSets, TypeOK, drivers
<1>9. CASE LidOpenNow
  <2>1. Cmd("other", "auto") \in Command /\ Cmd("noise", board.mode) \in Command
    BY <1>a, <1>b DEF Sender, Mode, Board
  <2>2. board' \in Board
    BY <1>9, <1>a, <2>1 DEF LidOpenNow, Lost, Board, Mode
  <2> QED  BY <1>9, <2>2 DEF LidOpenNow, TypeOK, Board, drivers
<1>10. CASE SetUnits
  <2>1. board' \in Board
    BY <1>10, <1>c DEF SetUnits, Mode
  <2> QED  BY <1>10, <2>1 DEF SetUnits, TypeOK, Board, drivers
<1>11. CASE StartGuided
  <2>1. board' \in Board
    BY <1>11, <1>c DEF StartGuided, Mode
  <2> QED  BY <1>11, <2>1 DEF StartGuided, TypeOK, Board, drivers
<1>12. CASE StopGuided
  BY <1>12 DEF StopGuided, TypeOK
<1>13. CASE StartProgram
  <2>1. 1 \in 1 .. Stages /\ 1 \in 0 .. Stages
    BY ProgramAssumption
  <2>2. queue' \in Seq(Callback) /\ Len(queue') <= MaxQueue
    BY <1>13, <1>d, <2>1, DriverType DEF StartProgram
  <2> QED  BY <1>13, <2>1, <2>2 DEF StartProgram, TypeOK
<1>14. CASE AdvanceProgram
  <2>1. program \in 1 .. Stages
    BY <1>14, ProgramAssumption DEF AdvanceProgram, TypeOK
  <2>2. queue' \in Seq(Callback) /\ Len(queue') <= MaxQueue
    BY <1>14, <1>a, <2>1, PostsType, DefersType DEF AdvanceProgram
  <2> QED  BY <1>14, <2>1, <2>2, PostsType DEF AdvanceProgram, TypeOK
<1>15. CASE StopProgram
  <2>1. 0 \in 0 .. Stages
    BY ProgramAssumption
  <2> QED  BY <1>15, <2>1 DEF StopProgram, TypeOK
<1>16. CASE StartTuner
  <2>1. queue' \in Seq(Callback) /\ Len(queue') <= MaxQueue
    BY <1>16, <1>d, DriverType DEF StartTuner
  <2> QED  BY <1>16, <2>1 DEF StartTuner, TypeOK
<1>17. CASE CancelTuner
  <2>1. queue' \in Seq(Callback) /\ Len(queue') <= MaxQueue
    BY <1>17, <1>d, DriverType DEF CancelTuner
  <2> QED  BY <1>17, <2>1 DEF CancelTuner, TypeOK
<1>18. CASE FinishCook
  <2>1. board' \in Board
    BY <1>18, <1>a, MaySendType DEF FinishCook, Mode
  <2> QED  BY <1>18, <2>1 DEF FinishCook, TypeOK, Board, drivers
<1>19. CASE ShutdownSystem
  <2>1. board' \in Board
    BY <1>19, <1>c DEF ShutdownSystem, Mode
  <2> QED  BY <1>19, <2>1 DEF ShutdownSystem, TypeOK, Board, drivers
<1>20. CASE PowerOff
  BY <1>20, <1>e DEF PowerOff, Die, TypeOK, Reading, drivers
<1>21. CASE UNCHANGED vars
  BY <1>21 DEF vars, drivers, TypeOK
<1> QED
  BY <1>1, <1>2, <1>3, <1>4, <1>5, <1>6, <1>7, <1>8, <1>9, <1>10, <1>11,
     <1>12, <1>13, <1>14, <1>15, <1>16, <1>17, <1>18, <1>19, <1>20, <1>21
  DEF Next

\* PitControl is well typed, for every program and every length of the queue.
THEOREM TypeCorrect == Spec => []TypeOK
BY TypeInit, TypeStep, PTL DEF Spec

-----------------------------------------------------------------------------
(* The last word of a driver: whatever else waits, its newest command is    *)
(* the one it means, and the board obeys that one last.                    *)

\* A callback that will send a command of by
Speaks(cb, by) == cb.what = "send" /\ cb.cmd.by = by

\* by has nothing to say in q
Quiet(q, by) == \A i \in DOMAIN q : ~Speaks(q[i], by)

\* The newest command of by in q, if any, is c
EndsWith(q, by, c) ==
  \A i \in DOMAIN q :
    Speaks(q[i], by) /\ (\A j \in DOMAIN q : j > i => ~Speaks(q[j], by))
    => q[i].cmd = c

\* c is the last thing by said: it waits, or the board heard it
LastWord(q, b, by, c) ==
  /\ EndsWith(q, by, c)
  /\ Quiet(q, by) /\ b.cmd.by = by => b.cmd = c

\* The oldest callback leaves the queue; its newest command stays.
LEMMA TailEnds ==
  ASSUME NEW q \in Seq(Callback), q # <<>>, NEW by, NEW c, EndsWith(q, by, c)
  PROVE  EndsWith(Tail(q), by, c)
<1> DEFINE t == Tail(q)
<1>1. /\ t \in Seq(Callback) /\ Len(t) = Len(q) - 1
      /\ \A i \in 1 .. Len(t) : t[i] = q[i + 1]
  BY TailType
<1> HIDE DEF t
<1>2. DOMAIN t = 1 .. Len(t) /\ DOMAIN q = 1 .. Len(q) /\ Len(q) \in Nat
  BY <1>1
<1> SUFFICES ASSUME NEW i \in DOMAIN t, Speaks(t[i], by),
                    \A j \in DOMAIN t : j > i => ~Speaks(t[j], by)
             PROVE  t[i].cmd = c
  BY DEF EndsWith, t
<1>3. i + 1 \in DOMAIN q /\ Speaks(q[i + 1], by)
  BY <1>1, <1>2
<1>4. ASSUME NEW j \in DOMAIN q, j > i + 1 PROVE ~Speaks(q[j], by)
  <2>1. j - 1 \in DOMAIN t /\ j - 1 > i
    BY <1>1, <1>2, <1>4
  <2>2. t[j - 1] = q[j]
    BY <1>1, <1>2, <2>1
  <2> QED  BY <2>1, <2>2
<1>5. q[i + 1].cmd = c
  BY <1>3, <1>4 DEF EndsWith
<1> QED  BY <1>1, <1>2, <1>5

\* A callback that is not by's leaves by's last word alone.
LEMMA LinePasses ==
  ASSUME NEW q \in Seq(Callback), q # <<>>, NEW b, NEW by, NEW c,
         LastWord(q, b, by, c), ~Speaks(Head(q), by)
  PROVE  LastWord(Tail(q), b, by, c)
<1>1. EndsWith(Tail(q), by, c)
  BY TailEnds DEF LastWord
<1>2. DOMAIN Tail(q) = 1 .. Len(Tail(q))
  BY TailType
<1>3. ASSUME Quiet(Tail(q), by) PROVE Quiet(q, by)
  <2> SUFFICES ASSUME NEW i \in 1 .. Len(q) PROVE ~Speaks(q[i], by)
    BY DEF Quiet
  <2>1. CASE i = 1
    BY <2>1, TailType
  <2>2. CASE i # 1
    <3>1. i - 1 \in 1 .. Len(Tail(q)) /\ Tail(q)[i - 1] = q[i]
      BY <2>2, TailType
    <3>2. ~Speaks(Tail(q)[i - 1], by)
      BY <1>3, <3>1, <1>2 DEF Quiet
    <3> QED  BY <3>1, <3>2
  <2> QED  BY <2>1, <2>2
<1> QED  BY <1>1, <1>3 DEF LastWord

\* The deferred send, when it arrives and when it is lost.
LEMMA SendLands ==
  ASSUME NEW q \in Seq(Callback), q # <<>>, NEW b \in Board, NEW by, NEW c,
         by # "noise", LastWord(q, b, by, c), Head(q).what = "send",
         NEW r \in Sent(b, Head(q).cmd)
  PROVE  LastWord(Tail(q), r, by, c)
<1>1. EndsWith(Tail(q), by, c)
  BY TailEnds DEF LastWord
<1>2. DOMAIN Tail(q) = 1 .. Len(Tail(q))
  BY TailType
<1>3. ASSUME Quiet(Tail(q), by), r.cmd.by = by PROVE r.cmd = c
  <2>1. r # Lost(b)
    BY <1>3 DEF Lost, Cmd, Board
  <2>2. r.cmd = Head(q).cmd
    BY <2>1 DEF Sent, Obeys
  <2>3. 1 \in DOMAIN q /\ Speaks(q[1], by)
    BY <1>3, <2>2, TailType DEF Speaks
  <2>4. ASSUME NEW j \in 1 .. Len(q), j > 1 PROVE ~Speaks(q[j], by)
    <3>1. j - 1 \in 1 .. Len(Tail(q)) /\ Tail(q)[j - 1] = q[j]
      BY <2>4, TailType
    <3>2. ~Speaks(Tail(q)[j - 1], by)
      BY <1>3, <3>1, <1>2 DEF Quiet
    <3> QED  BY <3>1, <3>2
  <2>5. q[1].cmd = c
    BY <2>3, <2>4 DEF LastWord, EndsWith
  <2> QED  BY <2>2, <2>5, TailType
<1> QED  BY <1>1, <1>3 DEF LastWord

\* What a queue holds once others have joined it.
LEMMA JoinedType ==
  ASSUME NEW q \in Seq(Callback), NEW r \in Seq(Callback)
  PROVE  /\ DOMAIN (q \o r) = 1 .. (Len(q) + Len(r))
         /\ \A i \in DOMAIN q : i \in DOMAIN (q \o r) /\ (q \o r)[i] = q[i]
         /\ \A i \in DOMAIN r : /\ i + Len(q) \in DOMAIN (q \o r)
                                 /\ (q \o r)[i + Len(q)] = r[i]
         /\ \A i \in DOMAIN (q \o r) : i \in DOMAIN q \/ i - Len(q) \in DOMAIN r
BY ConcatProperties

\* Callbacks that are not by's join the queue, and others set the board.
LEMMA OthersJoin ==
  ASSUME NEW q \in Seq(Callback), NEW r \in Seq(Callback), NEW b, NEW b2,
         NEW by, NEW c,
         LastWord(q, b, by, c), Quiet(r, by), b2 = b \/ b2.cmd.by # by
  PROVE  LastWord(q \o r, b2, by, c)
<1> DEFINE s == q \o r
<1>1. /\ \A i \in DOMAIN q : i \in DOMAIN s /\ s[i] = q[i]
      /\ \A i \in DOMAIN r : i + Len(q) \in DOMAIN s /\ s[i + Len(q)] = r[i]
      /\ \A i \in DOMAIN s : i \in DOMAIN q \/ i - Len(q) \in DOMAIN r
      /\ DOMAIN s \subseteq Nat /\ Len(q) \in Nat
  BY JoinedType
<1> HIDE DEF s
<1>2. ASSUME NEW i \in DOMAIN s, Speaks(s[i], by) PROVE i \in DOMAIN q
  <2> SUFFICES ASSUME i - Len(q) \in DOMAIN r PROVE FALSE
    BY <1>1
  <2>1. (i - Len(q)) + Len(q) = i
    BY <1>1
  <2>2. s[i] = r[i - Len(q)]
    BY <1>1, <2>1
  <2> QED  BY <1>2, <2>2 DEF Quiet
<1>3. EndsWith(s, by, c)
  BY <1>1, <1>2 DEF LastWord, EndsWith
<1>4. Quiet(s, by) => Quiet(q, by)
  BY <1>1 DEF Quiet
<1> QED  BY <1>3, <1>4 DEF LastWord, s

\* The driver speaks, and its last word is c: it waits in the queue.
LEMMA DriverJoins ==
  ASSUME NEW q \in Seq(Callback), NEW r \in Seq(Callback), NEW b,
         NEW by, NEW c, NEW m \in DOMAIN r,
         Speaks(r[m], by), r[m].cmd = c,
         \A i \in DOMAIN r : i > m => ~Speaks(r[i], by)
  PROVE  LastWord(q \o r, b, by, c)
<1> DEFINE s == q \o r
<1>1. /\ \A i \in DOMAIN q : i \in DOMAIN s /\ s[i] = q[i]
      /\ \A i \in DOMAIN r : i + Len(q) \in DOMAIN s /\ s[i + Len(q)] = r[i]
      /\ \A i \in DOMAIN s : i \in DOMAIN q \/ i - Len(q) \in DOMAIN r
      /\ DOMAIN s \subseteq Nat /\ Len(q) \in Nat
      /\ DOMAIN q = 1 .. Len(q) /\ DOMAIN r \subseteq Nat \ {0}
  BY JoinedType
<1> HIDE DEF s
<1>2. m + Len(q) \in DOMAIN s /\ Speaks(s[m + Len(q)], by) /\ s[m + Len(q)].cmd = c
  BY <1>1
<1>3. ~Quiet(s, by)
  BY <1>2 DEF Quiet
<1>4. ASSUME NEW i \in DOMAIN s, Speaks(s[i], by),
             \A j \in DOMAIN s : j > i => ~Speaks(s[j], by)
      PROVE  s[i].cmd = c
  <2>1. i >= m + Len(q)
    BY <1>1, <1>2, <1>4
  <2>2. i - Len(q) \in DOMAIN r /\ i - Len(q) >= m
    BY <1>1, <2>1
  <2>3. s[i] = r[i - Len(q)]
    <3>1. (i - Len(q)) + Len(q) = i
      BY <1>1
    <3> QED  BY <1>1, <2>2, <3>1
  <2>4. i - Len(q) = m
    BY <1>1, <1>4, <2>2, <2>3
  <2> QED  BY <2>3, <2>4
<1>5. EndsWith(s, by, c)
  BY <1>4 DEF EndsWith
<1> QED  BY <1>3, <1>5 DEF LastWord, s

\* What a handler posts that is not by's leaves by's last word alone.
LEMMA OthersPost ==
  ASSUME NEW q \in Seq(Callback), NEW cs \in Seq(Command), NEW b, NEW b2,
         NEW by, NEW c,
         LastWord(q, b, by, c), \A i \in 1 .. Len(cs) : cs[i].by # by,
         b2 = b \/ b2.cmd.by # by
  PROVE  LastWord(q \o Posted(cs), b2, by, c)
<1> DEFINE r == Posted(cs)
<1>1. r \in Seq(Callback) /\ DOMAIN r = 1 .. Len(cs)
  BY PostedType
<1>2. \A i \in 1 .. Len(cs) : r[i].cmd = cs[i]
  BY PostedType
<1>3. Quiet(r, by)
  BY <1>1, <1>2 DEF Quiet, Speaks
<1> HIDE DEF r
<1>4. LastWord(q \o r, b2, by, c)
  BY <1>1, <1>3, OthersJoin
<1> QED  BY <1>4 DEF r

\* A driver's last command among the posts is its last word.
LEMMA DriverPosts ==
  ASSUME NEW q \in Seq(Callback), NEW cs \in Seq(Command), NEW b,
         NEW by, NEW c, NEW m \in 1 .. Len(cs),
         cs[m] = c, c.by = by, \A i \in 1 .. Len(cs) : i > m => cs[i].by # by
  PROVE  LastWord(q \o Posted(cs), b, by, c)
<1> DEFINE r == Posted(cs)
<1>1. r \in Seq(Callback) /\ DOMAIN r = 1 .. Len(cs)
  BY PostedType
<1>2. \A i \in 1 .. Len(cs) : r[i].what = "send" /\ r[i].cmd = cs[i]
  BY PostedType
<1> HIDE DEF r
<1>3. \A i \in DOMAIN r : i > m => ~Speaks(r[i], by)
  BY <1>1, <1>2 DEF Speaks
<1>4. Speaks(r[m], by) /\ r[m].cmd = c /\ m \in DOMAIN r
  BY <1>1, <1>2 DEF Speaks
<1>5. LastWord(q \o r, b, by, c)
  BY <1>1, <1>3, <1>4, DriverJoins
<1> QED  BY <1>5 DEF r

-----------------------------------------------------------------------------
(* The invariant: the program and the tuner have their last word, and what  *)
(* the tuner set is what the board does.                                   *)

ProgramSpeaks == program # 0 => LastWord(queue, board, "program", Stage(program))

TunerSpeaks == tuner = "done" => LastWord(queue, board, "tuner", TunerEnd)

InHand(b) == b.cmd.by = "tuner" => /\ b.mode = b.cmd.mode
                                   /\ b.cmd.mode # "off" => b.nv = b.cmd.mode

DriverInv == ProgramSpeaks /\ TunerSpeaks /\ InHand(board)

\* The senders that neither the program nor the tuner is
Others == {"other", "boot", "noise"}

\* b2 is b, or others set it
LeftTo(b, b2) == b2 = b \/ b2.cmd.by \in Others

\* The invariant says what StageInForce and TunerLetsGo ask for.
LEMMA DriverImplies == DriverInv => StageInForce /\ TunerLetsGo
<1> SUFFICES ASSUME DriverInv PROVE StageInForce /\ TunerLetsGo
  OBVIOUS
<1>1. \A by : NoneWaits(by) => Quiet(queue, by)
  BY DEF NoneWaits, Quiet, Speaks
<1>2. StageInForce
  BY <1>1 DEF StageInForce, DriverInv, ProgramSpeaks, LastWord
<1>3. TunerLetsGo
  <2> SUFFICES ASSUME tuner = "done", NoneWaits("tuner"), board.cmd.by = "tuner"
               PROVE  board.mode = "auto" /\ board.nv = "auto"
    BY DEF TunerLetsGo
  <2>1. board.cmd = TunerEnd
    BY <1>1 DEF DriverInv, TunerSpeaks, LastWord
  <2>2. board.cmd.mode = "auto"
    BY <2>1 DEF TunerEnd, Cmd
  <2> QED  BY <2>2 DEF DriverInv, InHand
<1> QED  BY <1>2, <1>3

\* A step that posts nothing, and leaves the board to others.
LEMMA DirectStep ==
  ASSUME DriverInv, UNCHANGED <<queue, tuner>>, LeftTo(board, board'),
         program' = program \/ program' = 0
  PROVE  DriverInv'
<1>1. ASSUME NEW by \in {"program", "tuner"}, NEW c, LastWord(queue, board, by, c)
      PROVE  LastWord(queue', board', by, c)
  BY <1>1 DEF LastWord, LeftTo, Others
<1>2. (program # 0 => LastWord(queue, board, "program", Stage(program)))'
  BY <1>1 DEF DriverInv, ProgramSpeaks, Stage
<1>3. (tuner = "done" => LastWord(queue, board, "tuner", TunerEnd))'
  BY <1>1 DEF DriverInv, TunerSpeaks, TunerEnd, Cmd
<1>4. InHand(board')
  BY DEF DriverInv, InHand, LeftTo, Others
<1> QED  BY <1>2, <1>3, <1>4 DEF DriverInv, ProgramSpeaks, TunerSpeaks

\* What is sent on the loop leaves the board to others.
LEMMA SentByOthers ==
  ASSUME NEW b \in Board, NEW mode, NEW r \in Sent(b, Cmd("other", mode))
  PROVE  LeftTo(b, r)
<1>1. Obeys(b, Cmd("other", mode)).cmd.by = "other"
  BY DEF Obeys, Cmd
<1>2. Lost(b).cmd.by = "noise"
  BY DEF Lost, Cmd, Board
<1> QED  BY <1>1, <1>2 DEF Sent, LeftTo, Others

\* So is what a sender that may stay silent sends.
LEMMA MaySendByOthers ==
  ASSUME NEW b \in Board, NEW mode, NEW r \in MaySend(b, mode)
  PROVE  LeftTo(b, r)
<1>1. CASE mode = "none"
  BY <1>1 DEF MaySend, LeftTo
<1>2. CASE mode # "none"
  BY <1>2, SentByOthers DEF MaySend
<1> QED  BY <1>1, <1>2

\* A queue that one command joins.
LEMMA SingleType ==
  ASSUME NEW c \in Command
  PROVE  <<c>> \in Seq(Command) /\ Len(<<c>>) = 1 /\ <<c>>[1] = c
OBVIOUS

\* What a status line posts: the tuner's commands, then the program's stage
StatusSends(ts, k, due) == ts \o IF due THEN AdvancePosts(k) ELSE <<>>

\* Each of them is of the driver it should be of, in that order.
LEMMA StatusPosts ==
  ASSUME NEW ts \in TunerPosts, NEW k \in 0 .. Stages, NEW due \in BOOLEAN, due => k # 0,
         NEW cs, cs = StatusSends(ts, k, due)
  PROVE  /\ cs \in Seq(Command)
         /\ \A i \in 1 .. Len(ts) : i \in 1 .. Len(cs) /\ cs[i] = ts[i] /\ ts[i].by = "tuner"
         /\ \A i \in 1 .. Len(cs) : i > Len(ts) => cs[i].by = "program"
         /\ due /\ k < Stages => /\ Len(cs) = Len(ts) + 1
                                 /\ cs[Len(cs)] = Stage(k + 1)
         /\ ~due => Len(cs) = Len(ts)
         /\ Len(ts) \in Nat
<1> DEFINE ps == IF due THEN AdvancePosts(k) ELSE <<>>
<1>1. ts \in Seq(Command) /\ ps \in Seq(Command)
  BY ProgramAssumption, PostsType
<1>2. \A i \in 1 .. Len(ts) : ts[i].by = "tuner"
  <2>1. Relay.by = "tuner" /\ TunerEnd.by = "tuner"
    BY DEF Relay, TunerEnd, Cmd
  <2> QED  BY <2>1 DEF TunerPosts
<1>3. \A i \in 1 .. Len(ps) : ps[i].by = "program"
  <2>1. \A j : Stage(j).by = "program"
    BY DEF Stage
  <2> QED  BY <2>1 DEF AdvancePosts
<1>4. /\ due /\ k < Stages => Len(ps) = 1 /\ ps[1] = Stage(k + 1)
      /\ ~due => Len(ps) = 0
  BY DEF AdvancePosts
<1> HIDE DEF ps
<1>5. /\ cs \in Seq(Command)
      /\ Len(cs) = Len(ts) + Len(ps)
      /\ \A i \in 1 .. Len(cs) : cs[i] = IF i <= Len(ts) THEN ts[i] ELSE ps[i - Len(ts)]
  BY <1>1, ConcatProperties DEF ps, StatusSends
<1>6. Len(ts) \in Nat /\ Len(ps) \in Nat
  BY <1>1
<1>7. \A i \in 1 .. Len(ts) : i \in 1 .. Len(cs) /\ cs[i] = ts[i]
  BY <1>5, <1>6
<1>8. ASSUME NEW i \in 1 .. Len(cs), i > Len(ts) PROVE cs[i].by = "program"
  <2>1. cs[i] = ps[i - Len(ts)] /\ i - Len(ts) \in 1 .. Len(ps)
    BY <1>5, <1>6, <1>8
  <2> QED  BY <1>3, <2>1
<1>9. ASSUME due, k < Stages PROVE Len(cs) = Len(ts) + 1 /\ cs[Len(cs)] = Stage(k + 1)
  <2>1. Len(cs) = Len(ts) + 1
    BY <1>4, <1>5, <1>9
  <2>2. Len(cs) \in 1 .. Len(cs) /\ ~(Len(cs) <= Len(ts)) /\ Len(cs) - Len(ts) = 1
    BY <1>6, <2>1
  <2>3. cs[Len(cs)] = ps[1]
    BY <1>5, <2>2
  <2> QED  BY <1>4, <1>9, <2>1, <2>3
<1>10. ~due => Len(cs) = Len(ts)
  BY <1>4, <1>5, <1>6
<1> QED  BY <1>2, <1>5, <1>6, <1>7, <1>8, <1>9, <1>10

\* A line from the board, with what the drivers make of it.
LEMMA StatusStep ==
  ASSUME TypeOK, DriverInv, queue # <<>>, Head(queue).what = "line",
         NEW reading, Status(reading)
  PROVE  DriverInv'
<1>1. PICK idle   \in {"none", "off"},
           finish \in {"none", "off", "auto"},
           guide  \in IF guided THEN {"on", "over", "warm"} ELSE {"none"},
           ts     \in IF tuner = "running" THEN TunerPosts ELSE {<<>>},
           due    \in IF program # 0 THEN BOOLEAN ELSE {FALSE} :
        /\ idle = "off" => Decides(reading) /\ reading = "number"
        /\ finish # "none" => powerup # "first"
        /\ powerup' = Judged(reading, idle)
        /\ \E b1 \in MaySend(board, idle) :
           \E b2 \in MaySend(b1, finish) :
              board' \in MaySend(b2, IF guide = "warm" THEN "auto" ELSE "none")
        /\ guided' = (guide = "on")
        /\ heard' = reading
        /\ tuner' = IF Ends(ts) THEN "done" ELSE tuner
        /\ program' = IF due THEN NextStage(program) ELSE program
        /\ Defers(Tail(queue), ts \o IF due THEN AdvancePosts(program) ELSE <<>>)
        /\ UNCHANGED <<up, halting>>
  BY DEF Status
<1>2. LeftTo(board, board')
  <2>a. board \in Board /\ idle \in Mode \cup {"none"} /\ finish \in Mode \cup {"none"}
    BY DEF TypeOK, Board, Mode
  <2>1. PICK b1 \in MaySend(board, idle) :
          \E b2 \in MaySend(b1, finish) :
             board' \in MaySend(b2, IF guide = "warm" THEN "auto" ELSE "none")
    BY <1>1
  <2>2. PICK b2 \in MaySend(b1, finish) :
          board' \in MaySend(b2, IF guide = "warm" THEN "auto" ELSE "none")
    BY <2>1
  <2>3. b1 \in Board /\ LeftTo(board, b1)
    BY <2>a, MaySendType, MaySendByOthers
  <2>4. b2 \in Board /\ LeftTo(b1, b2)
    BY <2>a, <2>3, MaySendType, MaySendByOthers
  <2>5. LeftTo(b2, board')
    BY <2>2, <2>4, MaySendByOthers
  <2> QED  BY <2>3, <2>4, <2>5 DEF LeftTo
<1> DEFINE cs == StatusSends(ts, program, due)
           t  == Tail(queue)
<1>3. /\ ts \in TunerPosts
      /\ program \in 0 .. Stages
      /\ due \in BOOLEAN /\ (due => program # 0)
  BY DEF TypeOK, TunerPosts
<1>a. cs = StatusSends(ts, program, due)
  OBVIOUS
<1>b. t = Tail(queue)
  OBVIOUS
<1> HIDE DEF cs, t
<1>4. /\ cs \in Seq(Command)
      /\ \A i \in 1 .. Len(ts) : i \in 1 .. Len(cs) /\ cs[i] = ts[i] /\ ts[i].by = "tuner"
      /\ \A i \in 1 .. Len(cs) : i > Len(ts) => cs[i].by = "program"
      /\ due /\ program < Stages => /\ Len(cs) = Len(ts) + 1
                                    /\ cs[Len(cs)] = Stage(program + 1)
      /\ ~due => Len(cs) = Len(ts)
      /\ Len(ts) \in Nat
  BY <1>3, <1>a, StatusPosts
<1>5. t \in Seq(Callback) /\ queue \in Seq(Callback)
  BY <1>b, TailType DEF TypeOK
<1>6. queue' = t \o Posted(cs)
  BY <1>1, <1>a, <1>b DEF Defers, Posts, Posted, StatusSends
<1>7. ASSUME NEW by, NEW c, LastWord(queue, board, by, c)
      PROVE  LastWord(t, board, by, c)
  BY <1>5, <1>7, <1>b, LinePasses DEF Speaks
<1>8. ASSUME program' # 0 PROVE LastWord(queue', board', "program", Stage(program'))
  <2>1. CASE due
    <3>1. program < Stages /\ program' = program + 1
      BY <1>1, <1>3, <1>8, <2>1, ProgramAssumption DEF NextStage
    <3>2. Len(cs) \in 1 .. Len(cs) /\ cs[Len(cs)] = Stage(program')
      BY <1>4, <2>1, <3>1
    <3>3. Stage(program').by = "program"
      BY DEF Stage
    <3>4. \A i \in 1 .. Len(cs) : i > Len(cs) => cs[i].by # "program"
      BY <3>2
    <3> QED  BY <1>4, <1>5, <1>6, <3>2, <3>3, <3>4, DriverPosts
  <2>2. CASE ~due
    <3>1. program' = program /\ program # 0
      BY <1>1, <1>8, <2>2
    <3>2. LastWord(t, board, "program", Stage(program'))
      BY <1>7, <3>1 DEF DriverInv, ProgramSpeaks
    <3>3. \A i \in 1 .. Len(cs) : cs[i].by # "program"
      BY <1>4, <2>2
    <3>4. board' = board \/ board'.cmd.by # "program"
      BY <1>2 DEF LeftTo, Others
    <3> QED  BY <1>4, <1>5, <1>6, <3>2, <3>3, <3>4, OthersPost
  <2> QED  BY <1>3, <2>1, <2>2
<1>9. ASSUME tuner' = "done" PROVE LastWord(queue', board', "tuner", TunerEnd)
  <2>1. CASE Ends(ts)
    <3>1. Len(ts) \in 1 .. Len(ts) /\ ts[Len(ts)] = TunerEnd
      <4>1. Relay # TunerEnd
        BY DEF Relay, TunerEnd, Cmd
      <4> QED  BY <1>3, <2>1, <4>1 DEF Ends, TunerPosts
    <3>2. Len(ts) \in 1 .. Len(cs) /\ cs[Len(ts)] = TunerEnd
      BY <1>4, <3>1
    <3>3. \A i \in 1 .. Len(cs) : i > Len(ts) => cs[i].by # "tuner"
      BY <1>4
    <3>4. TunerEnd.by = "tuner"
      BY DEF TunerEnd, Cmd
    <3> QED  BY <1>4, <1>5, <1>6, <3>2, <3>3, <3>4, DriverPosts
  <2>2. CASE ~Ends(ts)
    <3>1. tuner = "done" /\ ts = <<>>
      BY <1>1, <1>9, <2>2
    <3>2. LastWord(t, board, "tuner", TunerEnd)
      BY <1>7, <3>1 DEF DriverInv, TunerSpeaks
    <3>3. \A i \in 1 .. Len(cs) : cs[i].by # "tuner"
      BY <1>4, <3>1
    <3>4. board' = board \/ board'.cmd.by # "tuner"
      BY <1>2 DEF LeftTo, Others
    <3> QED  BY <1>4, <1>5, <1>6, <3>2, <3>3, <3>4, OthersPost
  <2> QED  BY <2>1, <2>2
<1>10. InHand(board')
  BY <1>2 DEF DriverInv, InHand, LeftTo, Others
<1> QED  BY <1>8, <1>9, <1>10 DEF DriverInv, ProgramSpeaks, TunerSpeaks

\* A deferred send reaches the board, or is lost.
LEMMA SendStep ==
  ASSUME TypeOK, DriverInv, queue # <<>>, Head(queue).what = "send",
         Send(Head(queue).cmd)
  PROVE  DriverInv'
<1> DEFINE c == Head(queue).cmd
<1>1. /\ board \in Board /\ queue \in Seq(Callback)
      /\ board' \in Sent(board, c) /\ queue' = Tail(queue)
      /\ UNCHANGED <<program, tuner>>
  BY DEF TypeOK, Board, Send, drivers
<1>2. ASSUME NEW by \in {"program", "tuner"}, NEW d, LastWord(queue, board, by, d)
      PROVE  LastWord(queue', board', by, d)
  BY <1>1, <1>2, SendLands
<1>3. program' # 0 => LastWord(queue', board', "program", Stage(program'))
  BY <1>1, <1>2 DEF DriverInv, ProgramSpeaks
<1>4. tuner' = "done" => LastWord(queue', board', "tuner", TunerEnd)
  BY <1>1, <1>2 DEF DriverInv, TunerSpeaks
<1>5. InHand(board')
  <2>1. CASE board' = Obeys(board, c)
    BY <2>1 DEF InHand, Obeys
  <2>2. CASE board' = Lost(board)
    BY <1>1, <2>2 DEF InHand, Lost, Cmd, Board
  <2> QED  BY <1>1, <2>1, <2>2 DEF Sent
<1> QED  BY <1>3, <1>4, <1>5 DEF DriverInv, ProgramSpeaks, TunerSpeaks

\* A handler posts one command of a driver, whose last word it becomes.
LEMMA OneSpeaks ==
  ASSUME TypeOK, NEW c \in Command, Defers(queue, <<c>>)
  PROVE  /\ \A b : LastWord(queue', b, c.by, c)
         /\ \A by, d : by # c.by /\ LastWord(queue, board, by, d)
                      => LastWord(queue', board, by, d)
<1> DEFINE cs == <<c>>
<1>1. cs \in Seq(Command) /\ Len(cs) = 1 /\ cs[1] = c
  BY SingleType
<1>2. queue \in Seq(Callback)
  BY DEF TypeOK
<1>3. queue' = queue \o Posted(cs)
  BY DEF Defers, Posts, Posted
<1> HIDE DEF cs
<1>4. ASSUME NEW b PROVE LastWord(queue', b, c.by, c)
  <2>1. 1 \in 1 .. Len(cs) /\ \A i \in 1 .. Len(cs) : i > 1 => cs[i].by # c.by
    BY <1>1
  <2> QED  BY <1>1, <1>2, <1>3, <2>1, DriverPosts
<1>5. ASSUME NEW by, NEW d, by # c.by, LastWord(queue, board, by, d)
      PROVE  LastWord(queue', board, by, d)
  <2>1. \A i \in 1 .. Len(cs) : cs[i].by # by
    BY <1>1, <1>5
  <2> QED  BY <1>1, <1>2, <1>3, <1>5, <2>1, OthersPost
<1> QED  BY <1>4, <1>5

\* Initially no driver runs.
LEMMA DriverInit == Init => DriverInv
BY DEF Init, DriverInv, ProgramSpeaks, TunerSpeaks, InHand, Cmd

\* Every step keeps the invariant.
LEMMA DriverStep == TypeOK /\ DriverInv /\ [Next]_vars => DriverInv'
<1> SUFFICES ASSUME TypeOK, DriverInv, [Next]_vars PROVE DriverInv'
  OBVIOUS
<1>a. board \in Board /\ queue \in Seq(Callback)
  BY DEF TypeOK, Board
<1>b. board' = board => LeftTo(board, board') /\ (InHand(board) => InHand(board'))
  BY DEF LeftTo
<1>c. Die /\ board' = board => DriverInv'
  BY DEF Die, DriverInv, ProgramSpeaks, TunerSpeaks, InHand
<1>d. Stage(1).by = "program" /\ Relay.by = "tuner" /\ TunerEnd.by = "tuner"
  BY DEF Stage, Relay, TunerEnd, Cmd
<1>1. CASE Start
  <2>1. LeftTo(board, board')
    BY <1>1, <1>a DEF Start, LeftTo, Others, Cmd, Board
  <2> QED  BY <1>1, <2>1, DirectStep DEF Start, drivers
<1>2. CASE Stop
  BY <1>2, <1>c DEF Stop
<1>3. CASE BoardReports
  <2>1. PICK r \in Reading : queue' = Append(queue, Line(r))
    BY <1>3 DEF BoardReports, Reads, Reading
  <2>2. /\ <<Line(r)>> \in Seq(Callback)
        /\ \A by : Quiet(<<Line(r)>>, by)
    <3>1. Line(r) \in Callback
      BY CallbackType
    <3>2. Line(r).what # "send"
      BY DEF Line
    <3> QED  BY <3>1, <3>2 DEF Quiet, Speaks
  <2>3. queue' = queue \o <<Line(r)>>
    BY <1>a, <2>1, <2>2, CallbackType, AppendIsConcat
  <2>4. \A by, c : LastWord(queue, board, by, c) => LastWord(queue', board, by, c)
    BY <1>a, <2>2, <2>3, OthersJoin
  <2> QED  BY <1>3, <2>4 DEF BoardReports, drivers, DriverInv, ProgramSpeaks, TunerSpeaks
<1>4. CASE BoardReboots
  <2>1. LeftTo(board, board')
    BY <1>4, <1>a DEF BoardReboots, LeftTo, Others, Cmd, Board
  <2> QED  BY <1>4, <2>1, DirectStep DEF BoardReboots, drivers
<1>5. CASE LoopRuns
  <2>1. queue # <<>> /\ Head(queue) \in Callback
    BY <1>5, <1>a, TailType DEF LoopRuns
  <2>2. CASE Head(queue).what = "line"
    BY <1>5, <2>1, <2>2, StatusStep DEF LoopRuns
  <2>3. CASE Head(queue).what # "line"
    <3>1. Head(queue).what = "send"
      BY <2>1, <2>3, CallbackType
    <3> QED  BY <1>5, <2>1, <2>3, <3>1, SendStep DEF LoopRuns
  <2> QED  BY <2>2, <2>3
<1>6. ASSUME NEW mode \in Mode, OperatorSets(mode) PROVE DriverInv'
  <2>1. LeftTo(board, board')
    BY <1>6 DEF OperatorSets, LeftTo, Others, Cmd
  <2> QED  BY <1>6, <2>1, DirectStep DEF OperatorSets, drivers
<1>7. ASSUME NEW mode \in Mode, UserSets(mode) PROVE DriverInv'
  <2>1. LeftTo(board, board')
    BY <1>7, <1>a, SentByOthers DEF UserSets
  <2> QED  BY <1>7, <2>1, DirectStep DEF UserSets, drivers
<1>8. ASSUME NEW mode \in {"auto", "manual"}, MqttSets(mode) PROVE DriverInv'
  <2>1. Cmd("other", mode) \in Command /\ Cmd("other", mode).by = "other"
    <3>1. Cmd("other", mode) \in Command
      BY CmdType DEF Sender, Mode
    <3> QED  BY <3>1 DEF Cmd
  <2>2. \A by, d : by # "other" /\ LastWord(queue, board, by, d)
                  => LastWord(queue', board, by, d)
    BY <1>8, <2>1, OneSpeaks DEF MqttSets
  <2> QED  BY <1>8, <2>2 DEF MqttSets, drivers, DriverInv, ProgramSpeaks, TunerSpeaks
<1>9. CASE LidOpenNow
  <2>1. LeftTo(board, board')
    <3>1. [board EXCEPT !.mode = "auto", !.cmd = Cmd("other", "auto")].cmd.by = "other"
      BY <1>a DEF Cmd, Board
    <3>2. Lost(board).cmd.by = "noise"
      BY <1>a DEF Lost, Cmd, Board
    <3> QED  BY <1>9, <3>1, <3>2 DEF LidOpenNow, LeftTo, Others
  <2> QED  BY <1>9, <2>1, DirectStep DEF LidOpenNow, drivers
<1>10. CASE SetUnits
  <2>1. LeftTo(board, board')
    BY <1>10, <1>a, SentByOthers DEF SetUnits
  <2> QED  BY <1>10, <2>1, DirectStep DEF SetUnits, drivers
<1>11. CASE StartGuided
  <2>1. LeftTo(board, board')
    BY <1>11, <1>a, SentByOthers DEF StartGuided
  <2> QED  BY <1>11, <2>1, DirectStep DEF StartGuided
<1>12. CASE StopGuided
  BY <1>12, <1>b, DirectStep DEF StopGuided
<1>13. CASE StartProgram
  <2>1. Stage(1) \in Command
    BY DriverType, ProgramAssumption
  <2>2. /\ \A b : LastWord(queue', b, "program", Stage(1))
        /\ \A d : LastWord(queue, board, "tuner", d) => LastWord(queue', board, "tuner", d)
    BY <1>13, <1>d, <2>1, OneSpeaks DEF StartProgram
  <2> QED  BY <1>13, <2>2 DEF StartProgram, DriverInv, ProgramSpeaks, TunerSpeaks
<1>14. CASE AdvanceProgram
  <2>1. program \in 1 .. Stages
    BY <1>14, ProgramAssumption DEF AdvanceProgram, TypeOK
  <2>2. CASE program < Stages
    <3>1. Stage(program + 1) \in Command /\ Stage(program + 1).by = "program"
      <4>1. program + 1 \in 1 .. Stages
        BY <2>1, <2>2, ProgramAssumption
      <4>2. Stage(program + 1) \in Command
        BY <4>1, DriverType
      <4> QED  BY <4>2 DEF Stage
    <3>2. Defers(queue, <<Stage(program + 1)>>) /\ program' = program + 1
      BY <1>14, <2>2 DEF AdvanceProgram, AdvancePosts, NextStage
    <3>3. /\ \A b : LastWord(queue', b, "program", Stage(program + 1))
          /\ \A d : LastWord(queue, board, "tuner", d) => LastWord(queue', board, "tuner", d)
      BY <3>1, <3>2, OneSpeaks
    <3> QED
      BY <1>14, <3>2, <3>3 DEF AdvanceProgram, DriverInv, ProgramSpeaks, TunerSpeaks
  <2>3. CASE ~(program < Stages)
    <3>1. program' = 0 /\ Defers(queue, <<>>)
      BY <1>14, <2>3 DEF AdvanceProgram, AdvancePosts, NextStage
    <3>2. queue' = queue
      <4>1. queue' = queue \o Posted(<<>>)
        BY <3>1 DEF Defers, Posts, Posted
      <4>2. Posted(<<>>) = <<>>
        BY PostedType, EmptySeq
      <4> QED  BY <1>a, <4>1, <4>2, ConcatEmptySeq
    <3> QED  BY <1>14, <1>b, <3>1, <3>2, DirectStep DEF AdvanceProgram
  <2> QED  BY <2>2, <2>3
<1>15. CASE StopProgram
  BY <1>15, <1>b, DirectStep DEF StopProgram
<1>16. CASE StartTuner
  <2>1. \A d : LastWord(queue, board, "program", d) => LastWord(queue', board, "program", d)
    BY <1>16, <1>d, DriverType, OneSpeaks DEF StartTuner
  <2> QED  BY <1>16, <2>1 DEF StartTuner, DriverInv, ProgramSpeaks, TunerSpeaks
<1>17. CASE CancelTuner
  <2>1. /\ \A b : LastWord(queue', b, "tuner", TunerEnd)
        /\ \A d : LastWord(queue, board, "program", d)
               => LastWord(queue', board, "program", d)
    BY <1>17, <1>d, DriverType, OneSpeaks DEF CancelTuner
  <2> QED  BY <1>17, <2>1 DEF CancelTuner, DriverInv, ProgramSpeaks, TunerSpeaks
<1>18. CASE FinishCook
  <2>1. LeftTo(board, board')
    BY <1>18, <1>a, MaySendByOthers DEF FinishCook
  <2> QED  BY <1>18, <2>1, DirectStep DEF FinishCook, drivers
<1>19. CASE ShutdownSystem
  <2>1. LeftTo(board, board')
    BY <1>19, <1>a, SentByOthers DEF ShutdownSystem
  <2> QED  BY <1>19, <2>1, DirectStep DEF ShutdownSystem, drivers
<1>20. CASE PowerOff
  BY <1>20, <1>b, <1>c, DirectStep DEF PowerOff, drivers
<1>21. CASE UNCHANGED vars
  BY <1>21, <1>b, DirectStep DEF vars, drivers
<1> QED
  BY <1>1, <1>2, <1>3, <1>4, <1>5, <1>6, <1>7, <1>8, <1>9, <1>10, <1>11,
     <1>12, <1>13, <1>14, <1>15, <1>16, <1>17, <1>18, <1>19, <1>20, <1>21
  DEF Next

\* Once nothing of the program waits, a board in its hands runs the stage the
\* program is in, whoever else commands it and however the program got there.
THEOREM StageCorrect == Spec => []StageInForce
<1>1. TypeOK /\ DriverInv /\ [Next]_vars => TypeOK' /\ DriverInv'
  BY TypeStep, DriverStep
<1> QED  BY <1>1, TypeInit, DriverInit, DriverImplies, PTL DEF Spec

\* Once nothing of it waits, a tune that ended has let the board and its EEPROM
\* go, for every order in which its commands and everyone else's were sent.
THEOREM TunerCorrect == Spec => []TunerLetsGo
<1>1. TypeOK /\ DriverInv /\ [Next]_vars => TypeOK' /\ DriverInv'
  BY TypeStep, DriverStep
<1> QED  BY <1>1, TypeInit, DriverInit, DriverImplies, PTL DEF Spec

=============================================================================
