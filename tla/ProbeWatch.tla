----------------------------- MODULE ProbeWatch -----------------------------
(***************************************************************************)
(* Probe health and the stall, for one channel, with the badge the service *)
(* keeps of it.  A channel that was reading and is blank for a while is    *)
(* disconnected, one that reads garbage is at fault, and a food channel    *)
(* whose rate of rise over a full window is small within the stall band is *)
(* stalled.  Rates are left open: a full window may show any.              *)
(***************************************************************************)
EXTENDS Integers

CONSTANTS
  Dropout,   \* dropout_secs, in status lines
  Window     \* lines until the trailing window is full enough to trust

None == -1

ProbeWatchConstants == Dropout \in Nat \ {0} /\ Window \in Nat \ {0}

VARIABLES
  reading,   \* the last status line: nothing, garbage, or where it is to the stall band
  channel,   \* the _ChannelState
  health,    \* probe_health of the channel
  watching   \* the switches enabled and stall_enabled

probeWatchVars == <<reading, channel, health, watching>>

Plausible == {"below", "in band", "above"}
Readings  == Plausible \cup {"blank", "garbage"}

Unseen == [seen |-> FALSE, present |-> FALSE, missing |-> None, fault |-> FALSE,
           window |-> None, stalled |-> FALSE]

TypeOK ==
  /\ reading \in Readings
  /\ channel \in [seen : BOOLEAN, present : BOOLEAN, missing : None .. Dropout,
                  fault : BOOLEAN, window : None .. Window, stalled : BOOLEAN]
  /\ health \in {"none", "ok", "disconnected", "fault"}
  /\ watching \in [enabled : BOOLEAN, stall : BOOLEAN]

Init ==
  /\ reading = "blank"
  /\ channel = Unseen
  /\ health = "none"
  /\ watching = [enabled |-> TRUE, stall |-> TRUE]

Older(age, most) == IF age < most THEN age + 1 ELSE age

-----------------------------------------------------------------------------
(* update(), by what the line says of the channel.                         *)

\* no reading: count how long, and clear the stall window
Drops(c) == c.seen /\ c.present /\ c.missing # None /\ Older(c.missing, Dropout) >= Dropout

\* Variant: every blank line starts the count over
BlankRestarts(c) == [c EXCEPT !.window = None, !.missing = 0]

Blank(c) ==
  LET cleared == [c EXCEPT !.window = None]
  IN  IF ~(watching.enabled /\ c.seen /\ c.present) THEN cleared
      ELSE [cleared EXCEPT
              !.missing = IF c.missing = None THEN 0 ELSE Older(c.missing, Dropout),
              !.present = ~Drops(c)]

\* any reading: the channel is there, a new connection forgets the stall
Returns(c) == c.seen /\ ~c.present
Back(c) == [c EXCEPT !.seen = TRUE, !.present = TRUE, !.missing = None,
                     !.stalled = @ /\ ~Returns(c)]

Garbage(c) == [Back(c) EXCEPT !.fault = TRUE, !.window = None]

\* _stall_step: an edge needs a full window
StallEdges(c, r, rate) ==
  IF ~c.stalled THEN r = "in band" /\ rate = "slow"
  ELSE rate = "fast" \/ r = "above"

Good(c, r, rate) ==
  LET b == [Back(c) EXCEPT !.fault = FALSE]
      w == IF c.window = None THEN 0 ELSE Older(c.window, Window)
  IN  IF ~watching.stall THEN [b EXCEPT !.window = None]
      ELSE [b EXCEPT !.window = w,
                     !.stalled = IF w >= Window /\ StallEdges(b, r, rate)
                                 THEN ~@ ELSE @]

Updated(r, rate) ==
  CASE r = "blank"     -> Blank(channel)
    [] r = "garbage"   -> Garbage(channel)
    [] r \in Plausible -> Good(channel, r, rate)

\* _on_probe_event: the last event of the line about the connection or a fault
Badge(r) ==
  CASE r = "blank" /\ watching.enabled /\ Drops(channel) -> "disconnected"
    [] r = "garbage" /\ ~channel.fault                   -> "fault"
    [] r # "blank" /\ Returns(channel)                   -> "ok"
    [] OTHER                                             -> health

\* _check_probe_health
Watch(r, rate) ==
  IF watching.enabled \/ watching.stall
  THEN channel' = Updated(r, rate) /\ health' = Badge(r)
  ELSE UNCHANGED <<channel, health>>

\* a status line
Says(r) ==
  /\ reading' = r
  /\ \E rate \in {"slow", "steady", "fast"} : Watch(r, rate)
  /\ UNCHANGED watching

Sample == \E r \in Readings : Says(r)

\* save_probewatch
SaveConfig ==
  /\ watching' \in [enabled : BOOLEAN, stall : BOOLEAN]
  /\ UNCHANGED <<reading, channel, health>>

\* Variant: the badge stays
ForgetsWatch == channel' = Unseen /\ UNCHANGED health

\* A session opens, or its cook completes: reset(), and no badge
Forgets == channel' = Unseen /\ health' = "none"

NewOrFinishedCook == Forgets /\ UNCHANGED <<reading, watching>>

Next == Sample \/ SaveConfig \/ NewOrFinishedCook

\* The board sends a status line every second: what it says may stay as it is
\* for ever, and is then said again and again.
Spec == Init /\ [][Next]_probeWatchVars /\ WF_probeWatchVars(Says(reading))

-----------------------------------------------------------------------------
(* Properties.                                                             *)

\* The badge says "disconnected" exactly while the watcher holds the channel
\* for gone: over config changes, resets and faults the two never part.
BadgeTellsPresence ==
  health = "disconnected" <=> channel.seen /\ ~channel.present

\* A probe that was read and stays blank is reported, unless watching is off
\* or a cook opens or ends.
OutageIsTold ==
  <>[](reading = "blank" /\ channel.seen /\ watching.enabled)
    => <>(health = "disconnected")

=============================================================================
