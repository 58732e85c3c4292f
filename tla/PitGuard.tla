------------------------------ MODULE PitGuard ------------------------------
(***************************************************************************)
(* The pit guard: low, fire dying and running hot, judged by the gap       *)
(* between the pit and the set point.  The low side is armed once the pit  *)
(* was at temperature, keeps still while the lid is open and for a grace   *)
(* time after, and both sides want an excursion to last.  Times are in     *)
(* status lines.                                                           *)
(***************************************************************************)
EXTENDS Integers

CONSTANTS
  Gaps,        \* the values of pit - set_point
  LowBand, Half, Epsilon,   \* low at -LowBand, near the set point from -Half,
                            \* at temperature from -Epsilon
  HighMargin, HighHalf,     \* hot from HighMargin, over again at HighHalf
  LowDwell, FireDwell, HighDwell, LidGrace

None == -99

PitGuardConstants ==
  /\ Gaps \subseteq Int /\ None \notin Gaps
  /\ LowBand \in Nat \ {0} /\ Half \in 0 .. LowBand /\ Epsilon \in 0 .. Half
  /\ HighMargin \in Nat \ {0} /\ HighHalf \in 0 .. HighMargin
  /\ {LowDwell, FireDwell, HighDwell} \subseteq Nat \ {0}
  /\ LidGrace \in Nat

VARIABLES
  pit,      \* the last status line: set point on, gap or none, lid, output at its
            \* most, and whether the set point moved by REARM_SETPOINT_DELTA
  guard,    \* the state of the PitGuard
  guardOn,  \* cfg["enabled"]
  told,     \* the events of the last status line
  past      \* history, since the guard was last on: lines since the last that was
            \* not low, not at full output, within a lid window or unrecovered from one

pitGuardVars == <<pit, guard, guardOn, told, past>>

Fresh == [armed |-> FALSE, inLid |-> FALSE, grace |-> None,
          low |-> None, lowTold |-> FALSE, peg |-> None, fireTold |-> FALSE,
          high |-> None, highTold |-> FALSE]

\* how far the lines are counted
MostLow == (IF LowDwell < FireDwell THEN FireDwell ELSE LowDwell) + 1

TypeOK ==
  /\ pit \in [on : BOOLEAN, gap : Gaps \cup {None}, lid : BOOLEAN, full : BOOLEAN,
             bump : BOOLEAN]
  /\ guard \in [armed : BOOLEAN, inLid : BOOLEAN, grace : 0 .. LidGrace \cup {None},
                low : 0 .. LowDwell \cup {None}, lowTold : BOOLEAN,
                peg : 0 .. FireDwell \cup {None}, fireTold : BOOLEAN,
                high : 0 .. HighDwell \cup {None}, highTold : BOOLEAN]
  /\ guardOn \in BOOLEAN
  /\ told \subseteq {"pit_low", "fire_dying", "overtemp"}
  /\ past \in [low : 0 .. MostLow, full : 0 .. FireDwell + 1, shut : 0 .. LidGrace]

Init ==
  /\ pit = [on |-> FALSE, gap |-> None, lid |-> FALSE, full |-> FALSE, bump |-> FALSE]
  /\ guard = Fresh
  /\ guardOn = TRUE
  /\ told = {}
  /\ past = [low |-> 0, full |-> 0, shut |-> LidGrace]

Older(age, most) == IF age = None \/ age = most THEN age ELSE age + 1
Starts(age)      == IF age = None THEN 0 ELSE age

-----------------------------------------------------------------------------
(* update(), one status line later.                                        *)

Aged(g) ==
  [g EXCEPT !.low = Older(@, LowDwell), !.peg = Older(@, FireDwell),
            !.high = Older(@, HighDwell),
            !.grace = IF @ = None \/ @ = 0 THEN @ ELSE @ - 1]

\* a set point that moved far
Rearmed(g, p) ==
  IF p.bump THEN [g EXCEPT !.armed = FALSE, !.low = None, !.peg = None,
                         !.lowTold = FALSE, !.fireTold = FALSE]
  ELSE g

Armed(g, p, normal) ==
  [g EXCEPT !.armed = @ \/ normal \/ (p.gap # None /\ p.gap >= -Epsilon)]

\* Variant: a dip goes on over an open lid
LidKeepsDip(g, p) ==
  IF p.lid THEN [g EXCEPT !.inLid = TRUE, !.grace = None]
  ELSE IF g.inLid THEN [g EXCEPT !.inLid = FALSE, !.grace = LidGrace]
  ELSE g

Lidded(g, p) ==
  IF p.lid THEN [g EXCEPT !.inLid = TRUE, !.grace = None, !.low = None, !.peg = None]
  ELSE IF g.inLid THEN [g EXCEPT !.inLid = FALSE, !.grace = LidGrace]
  ELSE g

Recovered(g, p) ==
  IF p.gap # None /\ p.gap >= -LowBand THEN [g EXCEPT !.grace = None] ELSE g

Suppressed(g, p) == p.lid \/ (g.grace # None /\ g.grace > 0) \/ ~g.armed
Low(p)           == p.gap <= -LowBand

\* Variant: full output is counted from the last line
PegRestarts(g, p) ==
  [g EXCEPT !.peg = IF g.lowTold /\ p.full THEN 0 ELSE None]

\* the output at its most after the warning, or less again
Pegged(g, p) ==
  [g EXCEPT !.peg = IF ~p.full THEN None ELSE IF g.lowTold THEN Starts(@) ELSE @]

LowSide(g, p) ==
  IF Suppressed(g, p) \/ ~Low(p)
  THEN LET near == ~Low(p) /\ p.gap >= -Half
       IN  [g EXCEPT !.low = None, !.peg = None,
                     !.lowTold = @ /\ ~near, !.fireTold = @ /\ ~near]
  ELSE LET since  == Starts(g.low)
           warned == [g EXCEPT !.low = since, !.lowTold = @ \/ since >= LowDwell]
           burnt  == Pegged(warned, p)
       IN  [burnt EXCEPT !.fireTold = @ \/ (burnt.lowTold /\ p.full /\ burnt.peg >= FireDwell)]

HighSide(g, p) ==
  IF p.gap >= HighMargin
  THEN [g EXCEPT !.high = Starts(@),
                 !.highTold = @ \/ (g.high # None /\ g.high >= HighDwell)]
  ELSE [g EXCEPT !.high = None, !.highTold = @ /\ p.gap > HighHalf]

Updated(g, p, normal) ==
  IF ~guardOn \/ ~p.on THEN Fresh
  ELSE LET seen == Recovered(Lidded(Armed(Rearmed(Aged(g), p), p, normal), p), p)
       IN  IF p.gap = None THEN seen ELSE HighSide(LowSide(seen, p), p)

Events(g, h) ==
  (IF ~g.lowTold /\ h.lowTold THEN {"pit_low"} ELSE {}) \cup
  (IF ~g.fireTold /\ h.fireTold THEN {"fire_dying"} ELSE {}) \cup
  (IF ~g.highTold /\ h.highTold THEN {"overtemp"} ELSE {})

-----------------------------------------------------------------------------

Lines == [on : BOOLEAN, gap : Gaps \cup {None}, lid : BOOLEAN, full : BOOLEAN,
          bump : BOOLEAN]

\* what the line says to a warning: the dip is not over, the output is at its
\* most, the last lid window is over and the pit recovered or had its time. A
\* line without a pit reading contradicts nothing; a guard that is off sees none,
\* and knows of no lid window after.
Longer(n, most) == IF n = most THEN n ELSE n + 1
Looks(p)        == guardOn /\ p.on
Since(p) ==
  [low  |-> IF Looks(p) /\ ~p.lid /\ (p.gap = None \/ Low(p))
            THEN Longer(past.low, MostLow) ELSE 0,
   full |-> IF Looks(p) /\ ~p.lid /\ (p.gap = None \/ p.full)
            THEN Longer(past.full, FireDwell + 1) ELSE 0,
   shut |-> IF ~Looks(p) THEN LidGrace
            ELSE IF p.lid THEN 0
            ELSE IF p.gap # None /\ p.gap >= -LowBand THEN LidGrace
            ELSE Longer(past.shut, LidGrace)]

\* _drive_pitguard on a status line: what it says is recorded and pushed
Says(p) ==
  /\ pit' = p
  /\ \E normal \in BOOLEAN :
       /\ p.on \/ (~p.lid /\ ~p.full /\ ~p.bump /\ ~normal)
       /\ guard' = Updated(guard, p, normal)
  /\ told' = IF p.on /\ guardOn THEN Events(Rearmed(guard, p), guard') ELSE {}
  /\ past' = Since(p)
  /\ UNCHANGED guardOn

Sample == \E p \in Lines : Says(p)

\* save_pitguard
SaveConfig ==
  /\ guardOn' = ~guardOn
  /\ told' = {}
  /\ UNCHANGED <<pit, guard, past>>

\* the daemon restarts
Restart ==
  /\ guard' = Fresh
  /\ past' = [low |-> 0, full |-> 0, shut |-> LidGrace]
  /\ told' = {}
  /\ UNCHANGED <<pit, guardOn>>

Next == Sample \/ SaveConfig \/ Restart

\* The board sends a status line every second: what it says may stay as it is
\* for ever, and is then said again and again.
Spec == Init /\ [][Next]_pitGuardVars /\ WF_pitGuardVars(Says(pit))

-----------------------------------------------------------------------------
(* Properties.                                                             *)

\* A warning is never a spritz: the pit was low on every line of the dwell, with
\* the lid closed, and after a lid window that the guard saw it recovered or had
\* its grace time; the fire is dying only at full output on every line with a
\* reading.
AlertsAreSustained ==
  /\ "pit_low" \in told    => past.low > LowDwell /\ past.shut >= LidGrace
  /\ "fire_dying" \in told => past.low > FireDwell /\ past.full > FireDwell

\* A fire that burns down is told: an armed guard that sees the pit low at full
\* output on and on, the lid closed and the set point kept, escalates.
DyingFireIsTold ==
  <>[](pit.on /\ pit.gap # None /\ pit.gap <= -LowBand /\ pit.full /\ ~pit.lid
       /\ ~pit.bump /\ guardOn /\ guard.armed)
    => <>guard.fireTold

-----------------------------------------------------------------------------
(* What the properties rest on.                                            *)

\* The guard's timers count no line that the history does not.
TimersAreLived ==
  /\ guard.low # None => past.low > guard.low
  /\ guard.peg # None => past.low > guard.peg /\ past.full > guard.peg

\* A lid window that is not over is known, or what is left of its grace.
LidIsKnown ==
  /\ guard.grace # None => past.shut + guard.grace >= LidGrace
  /\ guard.grace = None /\ ~guard.inLid => past.shut >= LidGrace

=============================================================================
