---------------------------- MODULE AlarmNotify ----------------------------
(***************************************************************************)
(* The pushes that tell of trouble: one alarm of the board that rings, the *)
(* forecast of one probe that comes near, and a board that falls silent.   *)
(* An alarm is pushed once it rang for the debounce time, and again at     *)
(* every repeat interval.  A push goes to each channel that is configured. *)
(* Times are in status lines; the watchdog looks on its own timer.         *)
(***************************************************************************)
EXTENDS Integers

CONSTANTS
  Debounce,      \* debounce_sec
  Repeat,        \* repeat_min, 0 for once
  DarkTimeout    \* dark_timeout_sec, in units of silence

None == -1

AlarmNotifyConstants ==
  /\ Debounce \in Nat /\ Repeat \in Nat /\ DarkTimeout \in Nat \ {0}

PushChannels == {"ntfy", "apns"}

VARIABLES
  alarm,     \* the alarm rings on the last line; _alarm_notify of its key
  eta,       \* the channel is in _eta_notified
  quiet,     \* the silence since _last_sample_ts, None before the first line
  dark,      \* _device_dark
  fitted,    \* the channels that are configured
  sent,      \* what the last step pushed, with the channels it went to
  ring,      \* history of the ring: the lines of it with ntfy configured, the
             \* channels configured on all of them, and those that were told
  offline    \* history: this silence was pushed

alarmNotifyVars == <<alarm, eta, quiet, dark, fitted, sent, ring, offline>>

NoRecord == [since |-> None, last |-> None]
NoRing   == [lines |-> 0, all |-> PushChannels, told |-> {}]
Nothing  == [what |-> {}, to |-> {}]

TypeOK ==
  /\ alarm \in [ringing : BOOLEAN, since : None .. Debounce, last : None .. Repeat]
  /\ eta \in BOOLEAN
  /\ quiet \in None .. DarkTimeout + 1
  /\ dark \in BOOLEAN
  /\ fitted \subseteq PushChannels
  /\ sent \in [what : SUBSET {"alarm", "eta", "offline", "back"}, to : SUBSET PushChannels]
  /\ ring \in [lines : 0 .. Debounce + 1, all : SUBSET PushChannels, told : SUBSET PushChannels]
  /\ offline \in BOOLEAN

Init ==
  /\ alarm = [ringing |-> FALSE, since |-> None, last |-> None]
  /\ eta = FALSE
  /\ quiet = None
  /\ dark = FALSE
  /\ fitted \in SUBSET PushChannels
  /\ sent = Nothing
  /\ ring = NoRing
  /\ offline = FALSE

Older(age, most) == IF age = None \/ age = most THEN age ELSE age + 1
Longer(n, most)  == IF n = most THEN n ELSE n + 1

\* _push: to every configured channel
Push(what) == [what |-> what, to |-> IF what = {} THEN {} ELSE fitted]

-----------------------------------------------------------------------------

\* Only a ring with ntfy configured has a record: notify_effective_config gates it.
Hears == "ntfy" \in fitted

\* Variant: every line starts the debounce time over
RingsAnew(rec) == [since |-> 0, last |-> Older(rec.last, Repeat)]

\* _maybe_notify_alarm: the record of a ring, a line later
Rings(rec) ==
  [since |-> IF rec.since = None THEN 0 ELSE Older(rec.since, Debounce),
   last  |-> Older(rec.last, Repeat)]

\* Variant: the first push waits for nothing
DueAtOnce(old, rec) == rec.last = None

\* A ring that is new starts its debounce time.
PageDue(old, rec) ==
  /\ old.since # None
  /\ IF rec.last = None THEN rec.since >= Debounce
     ELSE Repeat > 0 /\ rec.last >= Repeat

Rec(a) == [since |-> a.since, last |-> a.last]

Keeps(ringing) == Hears /\ ringing

Notified(ringing) ==
  LET rec == Rings(Rec(alarm))
  IN  IF ~Keeps(ringing) THEN NoRecord
      ELSE IF PageDue(Rec(alarm), rec) THEN [rec EXCEPT !.last = 0] ELSE rec

Pages(ringing) == Keeps(ringing) /\ PageDue(Rec(alarm), Rings(Rec(alarm)))

\* _check_eta_push, by where the forecast is: within the notify time, a bit
\* beyond it, far from it or gone.
EtaTold(where) == (eta /\ where # "far") \/ where = "near"
EtaPages(where) == Hears /\ where = "near" /\ ~eta

\* Variant: a board that is back stays dark
StaysDark == dark

Back == FALSE

\* A status line: the end of the silence, the alarms, the forecasts
Sample ==
  \E ringing \in BOOLEAN, where \in {"near", "close", "far"} :
    LET what == (IF dark THEN {"back"} ELSE {})
                \cup (IF Pages(ringing) THEN {"alarm"} ELSE {})
                \cup (IF EtaPages(where) THEN {"eta"} ELSE {})
    IN  /\ quiet' = 0
        /\ dark' = Back
        /\ alarm' = [ringing |-> ringing, since |-> Notified(ringing).since,
                     last |-> Notified(ringing).last]
        /\ eta' = IF Hears THEN EtaTold(where) ELSE eta
        /\ sent' = Push(what)
        /\ ring' = IF ~ringing THEN NoRing
                   ELSE [lines |-> IF Hears THEN Longer(ring.lines, Debounce + 1) ELSE 0,
                         all   |-> ring.all \cap fitted,
                         told  |-> IF ~Hears THEN {}
                                   ELSE ring.told \cup (IF Pages(ringing) THEN fitted ELSE {})]
        /\ offline' = FALSE
        /\ UNCHANGED fitted

\* a line of a board that has not fallen silent
GoesOn == quiet \in 0 .. DarkTimeout /\ Sample

\* time without a line
Silence ==
  /\ quiet' = Older(quiet, DarkTimeout + 1)
  /\ sent' = Nothing
  /\ UNCHANGED <<alarm, eta, dark, fitted, ring, offline>>

\* a silence longer than the timeout, told once
GoesDark == quiet > DarkTimeout /\ ~dark

\* _dark_watchdog, on its timer
Watchdog ==
  /\ GoesDark
  /\ dark' = TRUE
  /\ offline' = TRUE
  /\ sent' = Push({"offline"})
  /\ UNCHANGED <<alarm, eta, quiet, fitted, ring>>

\* the user configures ntfy or the app's credentials
Configure ==
  /\ fitted' \in SUBSET PushChannels
  /\ sent' = Nothing
  /\ ring' = [ring EXCEPT !.all = @ \cap fitted']
  /\ UNCHANGED <<alarm, eta, quiet, dark, offline>>

\* the daemon restarts
Restart ==
  /\ alarm' = [alarm EXCEPT !.since = None, !.last = None]
  /\ eta' = FALSE
  /\ quiet' = None
  /\ dark' = FALSE
  /\ sent' = Nothing
  /\ ring' = NoRing
  /\ offline' = FALSE
  /\ UNCHANGED fitted

Next ==
  \/ Sample
  \/ Silence
  \/ Watchdog
  \/ Configure
  \/ Restart

\* A board goes on sending or falls silent, for ever perhaps; the watchdog's timer
\* runs.
Spec ==
  /\ Init /\ [][Next]_alarmNotifyVars
  /\ WF_alarmNotifyVars(GoesOn)
  /\ WF_alarmNotifyVars(Watchdog)

-----------------------------------------------------------------------------
(* Properties.                                                             *)

\* An alarm is pushed only after it rang on every line of the debounce time, and
\* if it is not to be repeated, once in a ring.
NoBlipPages ==
  []["alarm" \in sent'.what
       => ring'.lines > Debounce /\ (Repeat = 0 => "ntfy" \notin ring.told)]_alarmNotifyVars

\* With ntfy configured, an alarm that rings on is pushed to every channel that
\* was configured all the time.
RingingIsTold ==
  \A c \in PushChannels :
    <>[](alarm.ringing /\ quiet \in 0 .. DarkTimeout /\ Hears /\ c \in ring.all) => <>(c \in ring.told)

\* Every silence of a board that was heard since the daemon's start is told.
DarkIsTold == [](quiet > DarkTimeout => <>(offline \/ quiet <= DarkTimeout))

\* "Fan a notification out to every configured channel ..., each independently
\* gated" (service.py:415): the app is told whether or not ntfy is configured.
EveryChannelHears ==
  \A c \in PushChannels :
    <>[](alarm.ringing /\ quiet \in 0 .. DarkTimeout /\ c \in ring.all) => <>(c \in ring.told)

-----------------------------------------------------------------------------
(* What the properties rest on.                                            *)

\* A record counts no line of a ring that the history does not; one that was pushed
\* outlasted the debounce time, and a ring that was told has one.
RecordsAreLived ==
  /\ alarm.since # None => ring.lines > alarm.since
  /\ alarm.last # None => ring.lines > Debounce
  /\ "ntfy" \in ring.told => alarm.last # None

=============================================================================
