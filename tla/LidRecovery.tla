---------------------------- MODULE LidRecovery ----------------------------
(***************************************************************************)
(* Smart lid recovery.  The board holds the fan still for a window when    *)
(* the lid opens; the daemon follows the pit through that window and       *)
(* cancels it once the pit has climbed off its lowest, unless it climbed   *)
(* past the set point.  The cancel may take a line or be lost, and a       *)
(* detector that still sees the window starts over.                        *)
(***************************************************************************)
EXTENDS Integers

CONSTANTS
  Top,         \* the hottest pit
  SetPoint,    \* the set point of an automatic pit
  Delta,       \* recover_delta
  MinArmed,    \* min_armed_secs, in status lines
  LidWindow    \* lid_open_duration, in status lines

None == -1

LidRecoveryConstants ==
  /\ Top \in Nat /\ SetPoint \in 1 .. Top
  /\ Delta \in Nat \ {0} /\ MinArmed \in Nat /\ LidWindow \in Nat \ {0}

VARIABLES
  lid,       \* LidOpenResumeCountdown
  cancel,    \* a cancel is on its way to the board
  det,       \* the LidRecovery: since when it is armed, the lowest pit
  lidOn,     \* cfg["enabled"]
  marked,    \* _lidrecovery_active
  window     \* history of the lid window: its lines, its lowest pit, the markers
             \* in it, how often the detector stood down, the rise at a cancel on
             \* this line, and whether the detector was on when it began

lidRecoveryVars == <<lid, cancel, det, lidOn, marked, window>>

IdleDet == [armed |-> None, low |-> None]

NoWindow(on) == [lines |-> 0, low |-> None, markers |-> 0, stood |-> 0,
                 rise |-> None, clean |-> on]

TypeOK ==
  /\ lid \in 0 .. LidWindow
  /\ cancel \in BOOLEAN
  /\ det \in [armed : None .. MinArmed, low : None .. Top]
  /\ lidOn \in BOOLEAN
  /\ marked \in BOOLEAN
  /\ window \in [lines : 0 .. MinArmed + 1, low : None .. Top,
                 markers : 0 .. LidWindow, stood : 0 .. LidWindow,
                 rise : None .. Top, clean : BOOLEAN]

Init ==
  /\ lid = 0
  /\ cancel = FALSE
  /\ det = IdleDet
  /\ lidOn = TRUE
  /\ marked = FALSE
  /\ window = NoWindow(TRUE)

Smaller(a, b) == IF a <= b THEN a ELSE b
Lowest(low, t) ==
  IF t = None THEN low ELSE IF low = None THEN t ELSE Smaller(low, t)

-----------------------------------------------------------------------------
(* The board.  Its window opens on a drop of the pit, counts down, and is  *)
(* over when the pit is at temperature, the mode changes or a cancel       *)
(* arrives.                                                                *)

BoardAt(secs, coming) == [lid : secs, cancel : coming]

Board ==
  IF lid = 0 THEN BoardAt({0, LidWindow}, {FALSE})
  ELSE BoardAt({lid - 1, 0}, {cancel, FALSE})

-----------------------------------------------------------------------------
(* update(), on a line with the window open or not.                        *)

Armed(d, t) ==
  IF d.armed = None THEN [armed |-> 0, low |-> t]
  ELSE [armed |-> Smaller(MinArmed, d.armed + 1), low |-> Lowest(d.low, t)]

Climbed(d, t) ==
  t # None /\ d.low # None /\ d.armed >= MinArmed /\ t - d.low >= Delta

\* Variant: the end of a window leaves the detector armed
StaysArmed(d) == d

\* Not in a lid window: stand down.
StandsDown(d) == IdleDet

Following(t, open) ==
  IF ~open THEN StandsDown(det)
  ELSE LET d == Armed(det, t) IN IF Climbed(d, t) THEN IdleDet ELSE d

Recovers(t, open) == open /\ Climbed(Armed(det, t), t)
Cancels(t, open)  == Recovers(t, open) /\ t < SetPoint

\* no action and the detector idle: the marker may come again
Unmarks(d) == d = IdleDet

\* _drive_lid_recovery on a status line
Sample ==
  \E t \in None .. Top, b \in Board :
    LET open == b.lid > 0
        acts == lidOn /\ Cancels(t, open)
        was  == IF lid = 0 THEN NoWindow(window.clean) ELSE window
    IN  /\ lid' = b.lid
        /\ cancel' = (b.cancel \/ acts)
        /\ det' = IF lidOn THEN Following(t, open) ELSE det
        /\ marked' = (acts \/ (marked /\ ~(lidOn /\ Unmarks(det'))))
        /\ window' = IF ~open THEN NoWindow(lidOn)
                     ELSE [was EXCEPT
                             !.lines   = Smaller(MinArmed + 1, @ + 1),
                             !.low     = Lowest(@, t),
                             !.markers = @ + (IF acts /\ ~marked THEN 1 ELSE 0),
                             !.stood   = @ + (IF lidOn /\ Recovers(t, open) /\ ~acts
                                              THEN 1 ELSE 0),
                             !.rise    = IF acts THEN t - Lowest(was.low, t) ELSE None]
        /\ UNCHANGED lidOn

\* save_lidrecovery. Switched off, the detector is not fed: it keeps what it had.
SaveConfig ==
  /\ lidOn' = ~lidOn
  /\ UNCHANGED <<lid, cancel, det, marked, window>>

\* the daemon restarts
Restart ==
  /\ det' = IdleDet
  /\ marked' = FALSE
  /\ window' = [window EXCEPT !.clean = FALSE, !.markers = 0, !.stood = 0, !.rise = None]
  /\ UNCHANGED <<lid, cancel, lidOn>>

Next == Sample \/ SaveConfig \/ Restart

Spec == Init /\ [][Next]_lidRecoveryVars

-----------------------------------------------------------------------------
(* Properties.                                                             *)

\* "for one timeline marker per event" (service.py:92): however many cancels are
\* sent again, a window has one marker, and one more for each time the detector
\* stood down in it.
OneMarkerPerWindow == window.markers <= 1 + window.stood

\* A cancel follows a dip of this window, never one of an earlier window: the
\* detector saw enough lines of it, and the pit rose off its lowest; unless it
\* was switched on only after the window had begun.
CancelFollowsDip ==
  window.rise # None /\ window.clean => window.lines > MinArmed /\ window.rise >= Delta

-----------------------------------------------------------------------------
(* What the properties rest on.                                            *)

\* A window has no more lines than the countdown ran; one that is shut has none.
CountsFit ==
  /\ lid > 0 => /\ window.markers + lid <= LidWindow + 1
                /\ window.stood + lid <= LidWindow + 1
  /\ lid = 0 => window = NoWindow(window.clean)

\* A marker that may come again was paid for by a stand-down.
MarkersArePaid == window.markers <= window.stood + (IF marked THEN 1 ELSE 0)

\* What the detector knows is of this window.
SeesThisWindow ==
  /\ det.armed = None => det.low = None
  /\ window.clean /\ det.armed # None => window.lines > det.armed
  /\ window.clean /\ det.low # None => window.low # None /\ window.low <= det.low

=============================================================================
