------------------------------ MODULE CookDone ------------------------------
(***************************************************************************)
(* Cook completion.  A food probe that has reached its target and then     *)
(* falls towards ambient, or goes blank, is a pull candidate; it is done   *)
(* when it stays out for a grace time and in food again when it rises.     *)
(* The cook completes when every probe in use is done.                     *)
(*                                                                         *)
(* The detector sees readings; the world it judges is modelled with it:    *)
(* where a probe is, and that a probe put back into food warms up.         *)
(***************************************************************************)
EXTENDS Integers

CONSTANTS
  Probes,    \* FOOD_PROBES
  Targets,   \* the targets a probe may have
  Top,       \* the hottest reading
  Ambients,  \* the ambient readings, FALLBACK_AMBIENT among them
  Drop, Rise, Band, Grace,   \* the configuration; Grace in samples
  Lag        \* samples in which a probe put back into food warms by Rise

None == -1   \* no reading, no target, no timer

\* What the proofs need of the constants.
CookDoneConstants ==
  /\ Top \in Nat /\ Drop \in Nat \ {0} /\ Rise \in Nat /\ Band \in Nat
  /\ Grace \in Nat \ {0} /\ Lag \in Nat /\ Rise < Lag
  /\ Targets \subseteq 1 .. Top
  /\ Ambients \subseteq 0 .. Top

VARIABLES
  food,      \* each probe: place, heat, samples since it was put in, target
  unseen,    \* history: candidates with a sample the detector had no reading of, or
             \* that were in food when they became one
  watch,     \* self.probes
  doneCfg,   \* cfg["enabled"]
  completed  \* self.completed

cookDoneVars == <<food, unseen, watch, doneCfg, completed>>

Fresh == [reached |-> FALSE, out |-> None, low |-> None, done |-> FALSE]

TypeOK ==
  /\ food \in [Probes -> [place : {"food", "air", "unplugged"},
                          heat : 0 .. Top,
                          inFor : 0 .. Lag,
                          target : Targets \cup {None}]]
  /\ unseen \subseteq Probes
  /\ watch \in [Probes -> [reached : BOOLEAN, out : None .. Grace,
                           low : None .. Top, done : BOOLEAN]]
  /\ doneCfg \in BOOLEAN
  /\ completed \in BOOLEAN

Init ==
  /\ food = [p \in Probes |-> [place |-> "food", heat |-> 0, inFor |-> Lag,
                               target |-> None]]
  /\ unseen = {}
  /\ watch = [p \in Probes |-> Fresh]
  /\ doneCfg = TRUE
  /\ completed = FALSE

Smaller(a, b) == IF a <= b THEN a ELSE b

-----------------------------------------------------------------------------
(* The world.                                                              *)

Reading(f) == IF f.place = "unplugged" THEN None ELSE f.heat

\* One sample later: food never cools, a probe put into it warms up first, a
\* probe in the air cools down.
Later(f) ==
  CASE f.place = "food" ->
         {[f EXCEPT !.heat = Smaller(Top, h), !.inFor = Smaller(Lag, f.inFor + 1)] :
            h \in IF f.inFor < Lag THEN {f.heat + 1} ELSE {f.heat, f.heat + 1}}
    [] f.place = "air" ->
         {[f EXCEPT !.heat = h] : h \in {x \in {f.heat - 1, f.heat - 2} : x >= 0} \cup
                                        (IF f.heat = 0 THEN {0} ELSE {})}
    [] f.place = "unplugged" -> {f}

Move(p, place) ==
  /\ food[p].place # place
  /\ food' = [food EXCEPT ![p].place = place,
                          ![p].inFor = 0,
                          ![p].heat = IF place = "unplugged" THEN 0 ELSE @]
  /\ UNCHANGED <<unseen, watch, doneCfg, completed>>

SetTarget(p, goal) ==
  /\ food[p].target # goal
  /\ food' = [food EXCEPT ![p].target = goal]
  /\ UNCHANGED <<unseen, watch, doneCfg, completed>>

-----------------------------------------------------------------------------
(* The detector.                                                           *)

\* Variant: a probe that went blank is not a candidate
ArmsOnDrop(t, goal, amb) == t # None /\ t <= goal - Drop /\ t <= amb + Band

\* a big drop towards ambient, or a probe that went blank
Arms(t, goal, amb) == t = None \/ (t <= goal - Drop /\ t <= amb + Band)

\* Variant: a rise off the minimum does not count
BackAboveLine(low, t, goal) == t # None /\ t > goal - Drop

\* it rose off the minimum, or back above the arm line
Reinserted(low, t, goal) ==
  t # None /\ (t - low >= Rise \/ t > goal - Drop)

Lowest(low, t) ==
  IF t = None THEN low ELSE IF low = None THEN t ELSE Smaller(low, t)

Pulled(w, t, goal, amb) ==
  IF Arms(t, goal, amb) THEN [w EXCEPT !.out = 0, !.low = t] ELSE w

StillOut(w, low) ==
  LET out == Smaller(Grace, w.out + 1)
  IN  [w EXCEPT !.out = out, !.low = low, !.done = out >= Grace]

\* update(), for one probe with a target
Update(w, t, goal, amb) ==
  LET r   == [w EXCEPT !.reached = @ \/ t >= goal]
      low == Lowest(w.low, t)
  IN  IF w.done \/ ~r.reached THEN r
      ELSE IF w.out = None THEN Pulled(r, t, goal, amb)
      ELSE IF Reinserted(low, t, goal) THEN [r EXCEPT !.out = None, !.low = None]
      ELSE StillOut(r, low)

Participating(f) == {p \in Probes : f[p].target # None}

\* a probe that reached its target or is reading holds the completion up
Blocks(f, w, p) == ~w[p].done /\ (w[p].reached \/ Reading(f[p]) # None)

Completes(f, w) ==
  /\ ~completed
  /\ \E p \in Participating(f) : w[p].done
  /\ \A p \in Participating(f) : ~Blocks(f, w, p)

\* _check_cook_done on a status line of an open session
Sample ==
  \E f \in [Probes -> UNION {Later(food[p]) : p \in Probes}], amb \in Ambients :
    /\ \A p \in Probes : f[p] \in Later(food[p])
    /\ LET looks == IF doneCfg THEN Participating(f) ELSE {}
           w     == [p \in Probes |->
                       IF p \in looks
                       THEN Update(watch[p], Reading(f[p]), f[p].target, amb)
                       ELSE watch[p]]
       IN  /\ food' = f
           /\ watch' = w
           /\ unseen' = {p \in Probes : /\ w[p].out # None
                                        /\ \/ p \in unseen \/ p \notin looks
                                           \/ Reading(f[p]) = None
                                           \/ watch[p].out = None /\ f[p].place = "food"}
           /\ completed' = (completed \/ (doneCfg /\ Completes(f, w)))
    /\ UNCHANGED doneCfg

\* save_cookdone: what the detector remembers stays
SaveConfig ==
  /\ doneCfg' = ~doneCfg
  /\ UNCHANGED <<food, unseen, watch, completed>>

\* _ensure_session opens a session: reset()
NewCook ==
  /\ watch' = [p \in Probes |-> Fresh]
  /\ unseen' = {}
  /\ completed' = FALSE
  /\ UNCHANGED <<food, doneCfg>>

\* finish_cook, and the start of a daemon that resumes a completed session:
\* mark_already_complete()
Finish ==
  /\ completed' = TRUE
  /\ UNCHANGED <<food, unseen, watch, doneCfg>>

\* the daemon restarts within a cook: completed comes back from the store
Restart ==
  /\ watch' = [p \in Probes |-> Fresh]
  /\ unseen' = {}
  /\ UNCHANGED <<food, doneCfg, completed>>

Next ==
  \/ Sample
  \/ \E p \in Probes : \/ \E place \in {"food", "air", "unplugged"} : Move(p, place)
                       \/ \E goal \in Targets \cup {None} : SetTarget(p, goal)
  \/ SaveConfig
  \/ NewCook
  \/ Finish
  \/ Restart

\* The board sends a status line every second.
Spec == Init /\ [][Next]_cookDoneVars /\ WF_cookDoneVars(Sample)

-----------------------------------------------------------------------------
(* Properties.                                                             *)

\* "A probe moved to a different spot must NOT end the cook": a probe that was
\* pulled, put back and has warmed up for Lag samples is not found done, as long
\* as the detector saw all its readings.
NotDoneInFood ==
  [][\A p \in Probes :
       ~watch[p].done /\ watch'[p].done /\ p \notin unseen'
         => ~(food'[p].place = "food" /\ food'[p].inFor >= Lag)]_cookDoneVars

\* A probe that reached its target and stays out of the food is found done, if
\* it keeps its target and nobody turns the detector off or restarts it.
PulledIsNoticed ==
  \A p \in Probes :
    <>[](/\ food[p].place # "food"
         /\ food[p].target # None
         /\ watch[p].reached
         /\ doneCfg)
    => <>(watch[p].done)

-----------------------------------------------------------------------------
(* What the properties rest on.                                            *)

\* A candidate reached its target.
CandidatesReached == \A p \in Probes : watch[p].out # None => watch[p].reached

\* A candidate whose readings were all seen has risen off its lowest since it was
\* put back; the first sample in food may be the lowest.
RisesInFood ==
  \A p \in Probes \ unseen :
    watch[p].out # None /\ ~watch[p].done =>
      /\ watch[p].low # None
      /\ food[p].place = "food" /\ food[p].inFor > 0 =>
           food[p].heat = Top \/ food[p].heat - watch[p].low >= food[p].inFor - 1

=============================================================================
