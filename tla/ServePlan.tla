----------------------------- MODULE ServePlan -----------------------------
(***************************************************************************)
(* The serve-time plan of a cook.  Every refresh of the forecasts compares *)
(* when the food will be ready with the serve time; a change of the        *)
(* verdict is recorded and, for some, pushed.  The plan is saved to a file *)
(* and belongs to one cook.  Times are in coarse steps after the start of  *)
(* the cook.                                                               *)
(***************************************************************************)
EXTENDS Integers, FiniteSetsExt

CONSTANTS
  Channels,   \* the food channels
  Estimates,  \* what a forecast may say: a time and its pessimistic bound
  Due,        \* serve_ts - rest_secs
  HoldWindow, \* hold_window_secs
  MaxCooks    \* bound: sessions that are opened

ServePlanConstants ==
  /\ Estimates \subseteq Nat \X Nat
  /\ {Due, HoldWindow, MaxCooks} \subseteq Nat

\* A fresh forecast with a usable confidence: an estimate with its pessimistic
\* bound, or levelling off below the target. NoForecast: none, or too old.
Forecast(kind, lo, hi) == [kind |-> kind, lo |-> lo, hi |-> hi]
Plateau    == Forecast("flat", 0, 0)
NoForecast == Forecast("none", 0, 0)
Forecasts  == {Forecast("eta", e[1], e[2]) : e \in Estimates} \cup {Plateau, NoForecast}

Bands == {"late", "at_risk", "on_track", "early", "past"}

VARIABLES
  plan,      \* _serveplan_cfg: whether there is one, the channel, and
             \* (history) the cook it was made in
  planFile,  \* the plan in the file
  band,      \* _serve_status_prev
  clock,     \* where the time is to the serve time
  cook,      \* the sessions opened so far, and whether one is open
  heard      \* history: the last push about this plan, and whether the last save
             \* or read of the file failed

servePlanVars == <<plan, planFile, band, clock, cook, heard>>

NoPlan == [on |-> FALSE, channel |-> "auto", of |-> 0]
Plans  == [on : BOOLEAN, channel : Channels \cup {"auto"}, of : 0 .. MaxCooks]

TypeOK ==
  /\ plan \in Plans
  /\ planFile \in Plans
  /\ band \in Bands \cup {"none"}
  /\ clock \in {"before", "past", "stale"}
  /\ cook \in [number : 0 .. MaxCooks, open : BOOLEAN]
  /\ heard \in [push : {"none", "late", "at_risk", "back"}, lost : BOOLEAN]

Init ==
  /\ plan = NoPlan
  /\ planFile = NoPlan
  /\ band = "none"
  /\ clock = "before"
  /\ cook = [number |-> 0, open |-> FALSE]
  /\ heard = [push |-> "none", lost |-> FALSE]

-----------------------------------------------------------------------------
(* Saving.                                                                 *)

\* save_serveplan: the write may fail, and nobody is told; open truncates what
\* was there, and a file that cannot be read is no plan.
Save(p) ==
  /\ plan' = p
  /\ band' = "none"
  /\ \/ planFile' = p /\ heard' = [push |-> "none", lost |-> FALSE]
     \/ planFile' \in {planFile, NoPlan} /\ heard' = [push |-> "none", lost |-> TRUE]

SavePlan ==
  /\ \E c \in Channels \cup {"auto"} :
       Save([on |-> TRUE, channel |-> c, of |-> cook.number])
  /\ clock' = "before"
  /\ UNCHANGED cook

ClearPlan ==
  /\ Save(NoPlan)
  /\ UNCHANGED <<clock, cook>>

ClearIfOn ==
  IF plan.on THEN Save(NoPlan) ELSE UNCHANGED <<plan, planFile, band, heard>>

\* Variant: a new cook goes on with the plan it finds
KeepsPlan == UNCHANGED <<plan, planFile, band, heard>>

\* "a serve time belongs to one cook"
ClearsOld == ClearIfOn

\* _ensure_session opens a session
OpenSession ==
  /\ ~cook.open
  /\ cook.number < MaxCooks
  /\ cook' = [number |-> cook.number + 1, open |-> TRUE]
  /\ ClearsOld
  /\ UNCHANGED clock

\* a long silence, or the end of the cook
CloseSession ==
  /\ cook.open
  /\ cook' = [cook EXCEPT !.open = FALSE]
  /\ UNCHANGED <<plan, planFile, band, clock, heard>>

\* finish_cook
FinishCook ==
  /\ cook.open
  /\ ClearIfOn
  /\ UNCHANGED <<clock, cook>>

\* The daemon restarts with the plan it can read, and resumes the session or not.
Restart ==
  /\ \/ plan' = planFile /\ heard' = [heard EXCEPT !.push = "none"]
     \/ plan' = NoPlan /\ heard' = [push |-> "none", lost |-> TRUE]
  /\ band' = "none"
  /\ cook' \in {cook, [cook EXCEPT !.open = FALSE]}
  /\ UNCHANGED <<planFile, clock>>

-----------------------------------------------------------------------------
(* assess()                                                                *)

Looks(p) == IF p.channel = "auto" THEN Channels ELSE {p.channel}
Fresh(f) == {c \in Looks(plan) : f[c] # NoForecast}

\* pick_bounds: the last item governs, and one that never finishes first of all
Lo(f) == Max({f[c].lo : c \in Fresh(f)})
Hi(f) == Max({f[c].hi : c \in Fresh(f)} \cup {Lo(f)})

Verdict(f, now) ==
  CASE now = "stale"                       -> "stale"
    [] now = "past"                        -> "past"
    [] now = "before" /\ Fresh(f) = {}     -> "no_eta"
    [] OTHER ->
         IF (\E c \in Fresh(f) : f[c].kind = "flat") \/ Lo(f) > Due THEN "late"
         ELSE IF Hi(f) > Due THEN "at_risk"
         ELSE IF Due - Hi(f) > HoldWindow THEN "early"
         ELSE "on_track"

\* Variant: the first verdict is always silent
FirstIsSilent(prev, st) ==
  IF prev \in {"none", st} \/ st \notin {"late", "at_risk"} THEN "none" ELSE st

\* What _drive_serveplan pushes when the verdict is st and was prev: the first
\* is silent unless it is late.
Pushes(prev, st) ==
  IF st = prev \/ (prev = "none" /\ st # "late") THEN "none"
  ELSE IF st \in {"late", "at_risk"} THEN st
  ELSE IF st = "on_track" /\ prev \in {"late", "at_risk"} THEN "back"
  ELSE "none"

\* "prediction hiccups (no_eta) leave the previous state alone"
Drive(f, now) ==
  LET st == Verdict(f, now)
  IN  CASE ~plan.on    -> UNCHANGED <<plan, planFile, band, heard>>
        [] plan.on /\ st = "stale" -> Save(NoPlan)
        [] plan.on /\ st \in Bands ->
             /\ band' = st
             /\ heard' = [heard EXCEPT !.push =
                            IF Pushes(band, st) = "none" THEN @ ELSE Pushes(band, st)]
             /\ UNCHANGED <<plan, planFile>>
        [] plan.on /\ st = "no_eta" -> UNCHANGED <<plan, planFile, band, heard>>

\* _refresh_predictions. A channel without a target, or at it, has no forecast;
\* one whose series cannot be read keeps its old one as long as it is fresh: of
\* the verdict, any forecast of each channel.
Refresh ==
  \E f \in [Channels -> Forecasts], now \in {"before", "past", "stale"} :
    /\ clock = "past" => now # "before"
    /\ clock = "stale" => now = "stale"
    /\ clock' = now
    /\ Drive(f, now)
    /\ UNCHANGED cook

Next ==
  \/ SavePlan
  \/ ClearPlan
  \/ OpenSession
  \/ CloseSession
  \/ FinishCook
  \/ Restart
  \/ Refresh

Spec == Init /\ [][Next]_servePlanVars

-----------------------------------------------------------------------------
(* Properties.                                                             *)

\* A cook whose dinner is late has been told so, and whatever it was told since
\* then was not that it is back on track; over gaps in the forecasts, restarts
\* and any order of verdicts.
LateIsTold == plan.on /\ band = "late" => heard.push = "late"

\* "a serve time belongs to one cook": a plan that is on while a session is open
\* was made in it, unless the file could not be written or read.
PlanOfThisCook == plan.on /\ cook.open /\ ~heard.lost => plan.of = cook.number

-----------------------------------------------------------------------------
(* What the properties rest on.                                            *)

\* The file has the plan, unless the last save or read failed; and the plan is of the last
\* cook, open or not.
FileHasPlan ==
  ~heard.lost => planFile = plan /\ (plan.on => plan.of = cook.number)

=============================================================================
