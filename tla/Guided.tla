------------------------------- MODULE Guided -------------------------------
(***************************************************************************)
(* Guided cooks: the daemon sets the pit, the probe's name and its target, *)
(* watches one food channel and prompts at the milestones of the recipe.   *)
(* The pull ends the run and may drop the pit to its keep-warm.            *)
(***************************************************************************)
EXTENDS Integers, Sequences, Functions

CONSTANTS
  Recipes,   \* the keys of GUIDED_COOKS that are cooked
  KeepWarm   \* keep_warm_temp

None == -1

\* A milestone: its key, the least temperature (0: any), whether it waits for
\* the stall, whether it is the wrap.
At(key, temp)   == [key |-> key, temp |-> temp, stall |-> FALSE, wrap |-> FALSE]
Wrap(temp)      == [At("wrap", temp) EXCEPT !.wrap = TRUE]
WrapAtStall     == [Wrap(150) EXCEPT !.stall = TRUE]

\* GUIDED_COOKS: the set point, the target and the milestones before the pull
Recipe(set, target, before) ==
  [set |-> set, target |-> target, milestones |-> Append(before, At("pull", target))]

GuidedCooks ==
  [brisket_packer |-> Recipe(250, 203, <<At("settle", 140), WrapAtStall,
                                         At("probe_tender", 198)>>),
   pork_butt      |-> Recipe(250, 203, <<At("spritz", 140), WrapAtStall>>),
   ribs_321       |-> Recipe(225, 195, <<Wrap(165), At("glaze", 188)>>),
   chicken_whole  |-> Recipe(375, 160, <<At("check", 140)>>),
   turkey_whole   |-> Recipe(325, 160, <<At("baste", 130)>>),
   beef_ribs      |-> Recipe(250, 205, <<WrapAtStall>>),
   salmon         |-> Recipe(180, 145, <<>>),
   reverse_sear   |-> Recipe(225, 115, <<>>)]

GuidedConstants ==
  /\ Recipes \subseteq DOMAIN GuidedCooks
  /\ KeepWarm \in Nat

VARIABLES
  run,       \* self.guided, NoRun when it is None
  keepWarm,  \* _guided_keep_warm
  meat,      \* the channel on the last line: temperature, stalled
  sets,      \* the last set point the run sent, 0 before any
  diary      \* history: of each line that prompted in this run, what the cook was
             \* told, and the keep-warm

guidedVars == <<run, keepWarm, meat, sets, diary>>

NoRun == [cook |-> "none", fired |-> {}, wrapPending |-> FALSE, wrapped |-> FALSE,
          done |-> FALSE]

Milestones(r) == Range(GuidedCooks[r.cook].milestones)
Keys(r)       == {m.key : m \in Milestones(r)}

\* the temperatures at which something may happen, and one below each
Temps == {0} \cup UNION {{m.temp - 1, m.temp} :
           m \in UNION {Range(GuidedCooks[c].milestones) : c \in Recipes}}

Prompted == UNION {Keys([NoRun EXCEPT !.cook = c]) : c \in Recipes}

TypeOK ==
  /\ \/ run = NoRun
     \/ /\ run \in [cook : Recipes, fired : SUBSET Prompted, wrapPending : BOOLEAN,
                    wrapped : BOOLEAN, done : BOOLEAN]
        /\ run.fired \subseteq Keys(run)
  /\ keepWarm \in BOOLEAN
  /\ meat \in [temp : Temps \cup {None}, stalled : BOOLEAN]
  /\ sets \in {0, KeepWarm} \cup {GuidedCooks[c].set : c \in Recipes}
  /\ diary \in Seq(SUBSET (Prompted \cup {"warm"}))

Init ==
  /\ run = NoRun
  /\ keepWarm = FALSE
  /\ meat = [temp |-> None, stalled |-> FALSE]
  /\ sets = 0
  /\ diary = <<>>

-----------------------------------------------------------------------------

\* start_guided_cook: one at a time, a finished one may be followed
Start(cook, warm) ==
  /\ run = NoRun \/ run.done
  /\ run' = [NoRun EXCEPT !.cook = cook]
  /\ keepWarm' = warm
  /\ sets' = GuidedCooks[cook].set
  /\ diary' = <<>>
  /\ UNCHANGED meat

\* The serial line fails after the set point or before it.
StartFails(cook) ==
  /\ run = NoRun \/ run.done
  /\ sets' \in {sets, GuidedCooks[cook].set}
  /\ UNCHANGED <<run, keepWarm, meat, diary>>

\* stop_guided_cook: the pit keeps its set point
Stop ==
  /\ run # NoRun
  /\ run' = NoRun
  /\ diary' = <<>>
  /\ UNCHANGED <<keepWarm, meat, sets>>

\* confirm_wrap
WrapWaits == run.wrapPending /\ ~run.wrapped

ConfirmWrap ==
  /\ WrapWaits
  /\ run' = [run EXCEPT !.wrapPending = FALSE, !.wrapped = TRUE]
  /\ UNCHANGED <<keepWarm, meat, sets, diary>>

\* the milestones of update() that a line reaches
Reached(m, t, stalled) ==
  /\ m.temp = 0 \/ (t # None /\ t >= m.temp)
  /\ m.stall => stalled
Firing(t, stalled) ==
  {m \in Milestones(run) : m.key \notin run.fired /\ Reached(m, t, stalled)}

Prompts(t, stalled) ==
  LET now  == Firing(t, stalled)
      told == {m.key : m \in now}
      warm == "pull" \in told /\ keepWarm
  IN  /\ run' = [run EXCEPT
                   !.fired = @ \cup told,
                   !.wrapPending = @ \/ \E m \in now : m.wrap,
                   !.done = @ \/ "pull" \in told]
      /\ sets' = IF warm THEN KeepWarm ELSE sets
      /\ diary' = IF now = {} THEN diary
                  ELSE Append(diary, told \cup (IF warm THEN {"warm"} ELSE {}))

\* Variant: a run that is over goes on prompting
DrivesOn == run # NoRun

Drives == run # NoRun /\ ~run.done

\* _drive_guided on a status line
Sample ==
  \E t \in Temps \cup {None}, stalled \in BOOLEAN :
    /\ meat' = [temp |-> t, stalled |-> stalled]
    /\ IF Drives THEN Prompts(t, stalled)
       ELSE UNCHANGED <<run, sets, diary>>
    /\ UNCHANGED keepWarm

\* the daemon restarts: the run is in memory only
Restart ==
  /\ run' = NoRun
  /\ keepWarm' = FALSE
  /\ diary' = <<>>
  /\ UNCHANGED <<meat, sets>>

Next ==
  \/ \E cook \in Recipes : StartFails(cook) \/ \E warm \in BOOLEAN : Start(cook, warm)
  \/ Stop
  \/ ConfirmWrap
  \/ Sample
  \/ Restart

Spec == Init /\ [][Next]_guidedVars

-----------------------------------------------------------------------------
(* Properties.                                                             *)

\* "each fires once": over a whole run, whatever the temperatures do and
\* however many milestones one line reaches, no prompt comes on two lines, none
\* comes after the line of the pull, and the pit is dropped only on that line.
EachPromptOnce ==
  /\ \A i, j \in DOMAIN diary : i # j => diary[i] \cap diary[j] = {}
  /\ \A i \in DOMAIN diary : "pull" \in diary[i] => i = Len(diary)
  /\ \A i \in DOMAIN diary : "warm" \in diary[i] => "pull" \in diary[i]

-----------------------------------------------------------------------------
(* What the properties rest on.                                            *)

\* What was told is what has fired, and a pull ends the run.
DiaryIsOfRun ==
  /\ run = NoRun => diary = <<>>
  /\ \A i \in DOMAIN diary : diary[i] \ {"warm"} \subseteq run.fired
  /\ "pull" \in run.fired => run.done

=============================================================================
